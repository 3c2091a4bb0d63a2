-------------------------- MODULE TicketForm_proofs ------------------------
(***************************************************************************)
(* Proofs about TicketForm, for any texts, levels, files and number of     *)
(* uploads, submits and failures: the types, what the list of attachments  *)
(* holds, what the API may refuse, how many tickets a form makes, and that *)
(* the ticket has the priority that was announced.                         *)
(***************************************************************************)
EXTENDS TicketForm, FiniteSetTheorems, SequenceTheorems, TLAPS

(* The submit under way, and the ticket of the panel.                      *)
SubmitInv ==
  /\ ~FormShown => ~call.on
  /\ form.before <= Len(tickets)
  /\ call.on /\ ~call.served => Len(tickets) - form.before <= form.failed
  /\ SecondTicketNeedsAFailure

Matches(ticket, severity, impact) ==
  /\ ticket \in 1 .. Len(tickets)
  /\ tickets[ticket].priority = calculatePriority(severity, impact)
  /\ tickets[ticket].minutes =
       timeToResolveMinutes[calculatePriority(severity, impact)]

(* The levels stay as they were sent, and the answer is their ticket.      *)
LevelsInv ==
  /\ call.on => /\ call.body.severity = form.severity
                /\ call.body.impact = form.impact
  /\ call.on /\ call.ticket # NoTicket =>
       Matches(call.ticket, call.body.severity, call.body.impact)
  /\ ~FormShown => Matches(form.created, form.severity, form.impact)

(* The files that are in some list, and those an upload still keeps to     *)
(* itself.                                                                 *)
Known(f) ==
  \/ f \in form.attachments \cup form.removed \cup call.body.attachments
  \/ \E i \in 1 .. Len(tickets) : f \in tickets[i].attachments
  \/ \E s \in Slots : f \in uploads[s].base

Own(s) == uploads[s].uploaded \cup ({uploads[s].current} \ {NoFile})

FilesInv ==
  /\ \A f \in Files : Known(f) => f \in drawn
  /\ \A s \in Slots :
       /\ Own(s) \subseteq drawn
       /\ \A f \in Own(s) : ~Known(f)
       /\ \A o \in Slots : o # s => Own(s) \cap Own(o) = {}
  /\ form.attachments \subseteq stored
  /\ \A s \in Slots :
       uploads[s].base \subseteq stored /\ uploads[s].uploaded \subseteq stored

(* As long as no upload outlived a removal or its form.                    *)
Off(f) ==
  \/ f \in form.removed
  \/ \E i \in 1 .. form.before : f \in tickets[i].attachments

ListInv ==
  ~outlived =>
    /\ \A f \in form.attachments : ~Off(f)
    /\ \A s \in Slots : uploads[s].on => \A f \in uploads[s].base : ~Off(f)
    /\ ~FormShown => \A s \in Slots : ~uploads[s].on

(* The room that an upload took is not taken by another.                   *)
RoomInv ==
  /\ Cardinality(form.attachments) <= MAX_ATTACHMENTS
  /\ IsFiniteSet(form.attachments)
  /\ \A s \in Slots : uploads[s].on =>
       /\ IsFiniteSet(uploads[s].base) /\ IsFiniteSet(uploads[s].uploaded)
       /\ uploads[s].left >= 1
       /\ Cardinality(uploads[s].base) + Cardinality(uploads[s].uploaded)
            + uploads[s].left <= MAX_ATTACHMENTS

IInv ==
  /\ TypeOK /\ SubmitInv /\ LevelsInv /\ FilesInv /\ ListInv /\ RoomInv
  /\ OnlyShrinkingTextsAreRefused

TicketType ==
  [priority : Priorities, minutes : Nat, attachments : SUBSET Files]

-----------------------------------------------------------------------------
(* Priorities: the form and the API agree.                                 *)
LEMMA PrioritiesAgree ==
  ASSUME NEW severity \in 1 .. 4, NEW impact \in 1 .. 4
  PROVE  /\ computePriority(severity, impact) = calculatePriority(severity, impact)
         /\ calculatePriority(severity, impact) \in Priorities
BY DEF computePriority, calculatePriority, Priorities

LEMMA HoursAreMinutes ==
  \A p \in Priorities :
    /\ timeToResolveMinutes[p] = 60 * SLA_RESOLVE_LABELS[p]
    /\ timeToResolveMinutes[p] \in Nat
BY DEF Priorities, timeToResolveMinutes, SLA_RESOLVE_LABELS

LEMMA Constants ==
  /\ NoUpload \in UploadType /\ NoCall \in CallType
  /\ \A n \in Nat : Fresh(n) \in FormType
BY DEF NoUpload, UploadType, NoCall, CallType, NoBody, BodyType, NoText, Text,
       Fresh, FormType, NoTicket

LEMMA InitIInv == Init => IInv
<1> SUFFICES ASSUME Init PROVE IInv
    OBVIOUS
<1>1. TypeOK
  <2>1. tickets \in Seq([priority : Priorities, minutes : Nat,
                         attachments : SUBSET Files])
        BY DEF Init
  <2>2. form \in FormType /\ uploads \in [Slots -> UploadType] /\ call \in CallType
        BY Constants DEF Init
  <2> QED
    BY <2>1, <2>2 DEF Init, TypeOK
<1>2. /\ form.attachments = {} /\ form.removed = {} /\ form.created = NoTicket
      /\ form.before = 0 /\ form.failed = 0 /\ ~call.on /\ Len(tickets) = 0
      /\ call.body.attachments = {}
      /\ \A s \in Slots : /\ ~uploads[s].on /\ uploads[s].base = {}
                          /\ uploads[s].uploaded = {}
                          /\ uploads[s].current = NoFile
      BY DEF Init, Fresh, NoCall, NoUpload, NoBody
<1>3. SubmitInv /\ LevelsInv /\ OnlyShrinkingTextsAreRefused
      BY <1>2 DEF SubmitInv, LevelsInv, FormShown, SecondTicketNeedsAFailure,
                  OnlyShrinkingTextsAreRefused
<1>4. FilesInv
      BY <1>2 DEF FilesInv, Known, Own
<1>5. ListInv
      BY <1>2 DEF ListInv, Off
<1>6. RoomInv
      BY <1>2, FS_EmptySet, FormAssumption DEF RoomInv
<1> QED
  BY <1>1, <1>3, <1>4, <1>5, <1>6 DEF IInv

-----------------------------------------------------------------------------
(* Types *)

LEMMA NextFileTyped ==
  ASSUME TypeOK, NEW s \in Slots, NEW uploaded \in SUBSET Files,
         NextFile(s, uploaded)
  PROVE  form' \in FormType /\ uploads' \in [Slots -> UploadType]
<1> DEFINE u == uploads[s]
           next == [u EXCEPT !.left = @ - 1, !.uploaded = uploaded,
                             !.current = NoFile]
           full == [form EXCEPT !.attachments = u.base \cup uploaded]
<1>1. u \in UploadType /\ form \in FormType
      BY DEF TypeOK
<1>2. u.left > 1 => next \in UploadType
  <2>1. u.left > 1 => u.left - 1 \in Nat
        BY <1>1 DEF UploadType
  <2> QED
    BY <1>1, <2>1 DEF UploadType
<1>3. full \in FormType
      BY <1>1 DEF FormType, UploadType
<1>4. CASE u.left > 1
  <2>1. uploads' = [uploads EXCEPT ![s] = next] /\ UNCHANGED form
        BY <1>4 DEF NextFile
  <2> QED
    BY <1>1, <1>2, <1>4, <2>1 DEF TypeOK
<1>5. CASE ~(u.left > 1)
  <2>1. /\ uploads' = [uploads EXCEPT ![s] = NoUpload]
        /\ form' = form \/ form' = full
        BY <1>5 DEF NextFile
  <2> QED
    BY <1>1, <1>3, <2>1, Constants DEF TypeOK
<1> QED
  BY <1>4, <1>5

LEMMA EditTyped ==
  ASSUME TypeOK, NEW edited \in FormType, Edit(edited) PROVE TypeOK'
BY DEF Edit, TypeOK, api, ghosts

LEMMA EditStepEdits ==
  ASSUME TypeOK, EditStep
  PROVE  \E edited \in FormType :
           /\ Edit(edited)
           /\ edited.attachments = form.attachments
           /\ edited.created = form.created /\ edited.before = form.before
           /\ edited.removed = form.removed /\ edited.failed = form.failed
           /\ call.on => /\ edited.severity = form.severity
                         /\ edited.impact = form.impact
<1>0. form \in FormType
      BY DEF TypeOK
<1>1. CASE SetType
      BY <1>0, <1>1 DEF SetType, FormType
<1>2. CASE SetTitle
      BY <1>0, <1>2, FormAssumption DEF SetTitle, FormType
<1>3. CASE SetDescription
      BY <1>0, <1>3, FormAssumption DEF SetDescription, FormType
<1>4. CASE SetDesiredDate
      BY <1>0, <1>4 DEF SetDesiredDate, FormType
<1>5. CASE SetLevels
      BY <1>0, <1>5, FormAssumption DEF SetLevels, FormType, submitting
<1> QED
  BY <1>1, <1>2, <1>3, <1>4, <1>5 DEF EditStep

LEMMA UploadTyped == ASSUME TypeOK, UploadStep PROVE TypeOK'
<1>1. ASSUME NEW s \in Slots, NEW files \in SUBSET Picks, HandleFiles(s, files)
      PROVE  TypeOK'
  <2>1. IsFiniteSet(Accepted(files))
    <3>1. Accepted(files) \in SUBSET Picks
          BY DEF Accepted
    <3> QED
      BY <3>1, FormAssumption, FS_Subset
  <2>2. Cardinality(Accepted(files)) \in Nat
        BY <2>1, FS_CardinalityType
  <2>3. [on |-> TRUE, mounted |-> TRUE, base |-> form.attachments,
         left |-> Cardinality(Accepted(files)), uploaded |-> {},
         current |-> NoFile] \in UploadType
        BY <2>2 DEF UploadType, TypeOK, FormType
  <2> QED
    BY <1>1, <2>3 DEF HandleFiles, TypeOK, api, ghosts
<1>2. ASSUME NEW s \in Slots, NEW f \in Files, RequestUpload(s, f) PROVE TypeOK'
  <2>1. [uploads[s] EXCEPT !.current = f] \in UploadType
        BY DEF TypeOK, UploadType
  <2> QED
    BY <1>2, <2>1 DEF RequestUpload, TypeOK, ghosts
<1>3. ASSUME NEW s \in Slots, Put(s) PROVE TypeOK'
  <2>1. uploads[s].current \in Files /\ uploads[s].uploaded \in SUBSET Files
        BY <1>3 DEF Put, TypeOK, UploadType
  <2>2. form' \in FormType /\ uploads' \in [Slots -> UploadType]
        BY <1>3, <2>1, NextFileTyped DEF Put
  <2> QED
    BY <1>3, <2>1, <2>2 DEF Put, TypeOK, ghosts
<1>4. ASSUME NEW s \in Slots, UploadFails(s) PROVE TypeOK'
  <2>1. uploads[s].uploaded \in SUBSET Files
        BY <1>4 DEF TypeOK, UploadType
  <2>2. form' \in FormType /\ uploads' \in [Slots -> UploadType]
        BY <1>4, <2>1, NextFileTyped DEF UploadFails
  <2> QED
    BY <1>4, <2>1, <2>2 DEF UploadFails, TypeOK, ghosts, Fault
<1>5. ASSUME NEW f \in Files, Remove(f) PROVE TypeOK'
  <2>1. [form EXCEPT !.attachments = @ \ {f}, !.removed = @ \cup {f}] \in FormType
        BY DEF TypeOK, FormType
  <2> QED
    BY <1>5, <2>1 DEF Remove, TypeOK, api
<1> QED
  BY <1>1, <1>2, <1>3, <1>4, <1>5 DEF UploadStep

LEMMA BodyTyped ==
  ASSUME TypeOK
  PROVE  [title |-> form.title, description |-> finalDescription,
          severity |-> form.severity, impact |-> form.impact,
          attachments |-> form.attachments] \in BodyType
<1>1. form \in FormType
      BY DEF TypeOK
<1>2. finalDescription \in Text
      BY <1>1 DEF FormType, Text, finalDescription, DATE_PREFIX
<1> QED
  BY <1>1, <1>2 DEF FormType, BodyType

LEMMA CreatedTyped ==
  ASSUME TypeOK PROVE Created(call.body) \in TicketType
<1>1. call.body \in BodyType
      BY DEF TypeOK, CallType
<1>2. calculatePriority(call.body.severity, call.body.impact) \in Priorities
      BY <1>1, PrioritiesAgree DEF BodyType
<1> QED
  BY <1>1, <1>2, HoursAreMinutes DEF Created, TicketType, BodyType

LEMMA ServeCreateTyped == ASSUME TypeOK, ServeCreate PROVE TypeOK'
<1>1. tickets \in Seq(TicketType) /\ Len(tickets) \in Nat
      BY DEF TypeOK, TicketType
<1>2. tickets' \in Seq(TicketType)
      BY <1>1, CreatedTyped DEF ServeCreate, Make
<1>3. \A n \in Nat :
        [call EXCEPT !.served = TRUE, !.ticket = n] \in CallType
      BY DEF TypeOK, CallType
<1>4. PICK n \in Nat : Served(n)
      BY <1>1 DEF ServeCreate, NoTicket
<1>5. call' \in CallType
      BY <1>3, <1>4 DEF Served
<1> QED
  BY <1>2, <1>4, <1>5 DEF ServeCreate, Served, Fault, TypeOK, TicketType, ghosts

LEMMA TypeStep == ASSUME TypeOK, Next PROVE TypeOK'
<1>0. Len(tickets) \in Nat
      BY DEF TypeOK
<1>1. CASE EditStep
      BY <1>1, EditStepEdits, EditTyped
<1>2. CASE OnSubmit
  <2>1. call' \in CallType
        BY <1>2, BodyTyped DEF OnSubmit, CallType, NoTicket
  <2> QED
    BY <1>2, <2>1 DEF OnSubmit, TypeOK, api
<1>3. CASE SubmitSucceeds
  <2>1. [form EXCEPT !.created = call.ticket] \in FormType
        BY DEF TypeOK, FormType, CallType
  <2>2. \A s \in Slots : [uploads[s] EXCEPT !.mounted = FALSE] \in UploadType
    <3>1. \A u \in UploadType : [u EXCEPT !.mounted = FALSE] \in UploadType
          BY DEF UploadType
    <3>2. \A s \in Slots : uploads[s] \in UploadType
          BY DEF TypeOK
    <3> QED
      BY <3>1, <3>2
  <2> QED
    BY <1>3, <2>1, <2>2, Constants DEF SubmitSucceeds, TypeOK, api
<1>4. CASE SubmitFails
  <2>0. form \in FormType
        BY DEF TypeOK
  <2>1. [form EXCEPT !.failed = @ + 1] \in FormType
        BY <2>0 DEF FormType
  <2>2. form' \in FormType /\ UNCHANGED <<uploads, api, ghosts>>
        BY <1>4, <2>1 DEF SubmitFails
  <2>3. call' \in CallType
        BY <1>4, Constants DEF SubmitFails
  <2> QED
    BY <2>2, <2>3 DEF TypeOK, api, ghosts
<1>5. CASE ResetForm
      BY <1>0, <1>5, Constants DEF ResetForm, TypeOK, api, ghosts
<1>6. CASE Leave
      BY <1>0, <1>6, Constants DEF Leave, TypeOK, api, ghosts
<1> QED
  BY <1>1, <1>2, <1>3, <1>4, <1>5, <1>6, UploadTyped, ServeCreateTyped
  DEF Next, SubmitStep
-----------------------------------------------------------------------------
(* Submits, levels and what is refused *)

SubmitHalf == SubmitInv /\ LevelsInv /\ OnlyShrinkingTextsAreRefused

(* What only the lists of files, the texts or free levels change.          *)
LEMMA SubmitHalfKept ==
  ASSUME SubmitHalf, UNCHANGED <<call, tickets>>,
         form'.created = form.created, form'.before = form.before,
         form'.failed = form.failed,
         \/ form'.severity = form.severity /\ form'.impact = form.impact
         \/ FormShown /\ ~call.on
  PROVE  SubmitHalf'
<1>1. SubmitInv'
      BY DEF SubmitHalf, SubmitInv, FormShown, SecondTicketNeedsAFailure
<1>2. LevelsInv'
      BY DEF SubmitHalf, LevelsInv, FormShown, Matches
<1>3. OnlyShrinkingTextsAreRefused'
      BY DEF SubmitHalf, OnlyShrinkingTextsAreRefused, ValidBody, Shrinks
<1> QED
  BY <1>1, <1>2, <1>3 DEF SubmitHalf

LEMMA NextFileForm ==
  ASSUME TypeOK, NEW s \in Slots, NEW uploaded \in SUBSET Files,
         NextFile(s, uploaded)
  PROVE  \/ form' = form
         \/ /\ form'.created = form.created /\ form'.before = form.before
            /\ form'.failed = form.failed /\ form'.removed = form.removed
            /\ form'.severity = form.severity /\ form'.impact = form.impact
BY DEF NextFile, TypeOK, FormType

LEMMA UploadSubmitHalf == ASSUME TypeOK, SubmitHalf, UploadStep PROVE SubmitHalf'
<1>1. UNCHANGED <<call, tickets>>
      BY DEF UploadStep, HandleFiles, RequestUpload, Put, UploadFails, Remove, api
<1>2. /\ form'.created = form.created /\ form'.before = form.before
      /\ form'.failed = form.failed
      /\ form'.severity = form.severity /\ form'.impact = form.impact
  <2> DEFINE Same ==
        /\ form'.created = form.created /\ form'.before = form.before
        /\ form'.failed = form.failed
        /\ form'.severity = form.severity /\ form'.impact = form.impact
  <2>1. ASSUME NEW s \in Slots, Put(s) \/ UploadFails(s) PROVE Same
    <3>1. /\ uploads[s].uploaded \in SUBSET Files
          /\ Put(s) => uploads[s].current \in Files
          BY DEF TypeOK, UploadType, Put
    <3>2. PICK uploaded \in SUBSET Files : NextFile(s, uploaded)
          BY <2>1, <3>1 DEF Put, UploadFails
    <3> QED
      BY <3>2, NextFileForm
  <2>2. ASSUME NEW f \in Files, Remove(f) PROVE Same
        BY <2>2 DEF Remove, TypeOK, FormType
  <2>3. ASSUME NEW s \in Slots,
               \/ \E files \in SUBSET Picks : HandleFiles(s, files)
               \/ \E f \in Files : RequestUpload(s, f)
        PROVE  Same
        BY <2>3 DEF HandleFiles, RequestUpload
  <2> QED
    BY <2>1, <2>2, <2>3 DEF UploadStep
<1> QED
  BY <1>1, <1>2, SubmitHalfKept

(* A text of a fitting length fits as the API counts it, or shrinks.       *)
LEMMA TextFits ==
  ASSUME NEW text \in Text, NEW least \in Nat, NEW most \in Nat,
         text.length \in least .. most
  PROVE  Counted(text) \in least .. most \/ Shrinks(text, least)
BY DEF Text, Counted, Shrinks

(* The submit that is sent carries texts and levels the form allows.       *)
LEMMA OnSubmitHalf ==
  ASSUME TypeOK, RoomInv, SubmitHalf, OnSubmit PROVE SubmitHalf'
<1> DEFINE body == [title |-> form.title, description |-> finalDescription,
                    severity |-> form.severity, impact |-> form.impact,
                    attachments |-> form.attachments]
<1>1. /\ call'.on /\ ~call'.served /\ call'.ticket = NoTicket
      /\ call'.body = body /\ UNCHANGED <<form, tickets>>
      /\ FormShown /\ ~call.on
      BY DEF OnSubmit, api, submitting
<1>2. body \in BodyType
      BY BodyTyped
<1>3. SubmitInv'
  <2>1. /\ form.before \in Nat /\ form.failed \in Nat /\ Len(tickets) \in Nat
        /\ form.before <= Len(tickets) /\ FormShown'
        BY <1>1 DEF TypeOK, FormType, SubmitHalf, SubmitInv, FormShown
  <2>2. Len(tickets) - form.before <= form.failed
        BY <1>1, <2>1 DEF SubmitHalf, SubmitInv, SecondTicketNeedsAFailure
  <2> QED
    BY <1>1, <2>1, <2>2 DEF SubmitInv, SecondTicketNeedsAFailure
<1>4. LevelsInv'
      BY <1>1 DEF SubmitHalf, LevelsInv, FormShown, Matches
<1>5. \/ ValidBody(body) \/ Shrinks(body.title, TITLE_MIN)
      \/ Shrinks(body.description, DESCRIPTION_MIN)
  <2>1. /\ form.title \in Text /\ form.description \in Text
        /\ finalDescription \in Text /\ Cardinality(form.attachments) <= MAX_ATTACHMENTS
        /\ form.severity \in 1 .. 4 /\ form.impact \in 1 .. 4
        BY <1>2 DEF TypeOK, FormType, BodyType, RoomInv
  <2>2. /\ form.title.length \in TITLE_MIN .. TITLE_MAX
        /\ form.description.length \in DESCRIPTION_MIN .. DESCRIPTION_MAX
        /\ finalDescription.length <= DESCRIPTION_MAX
        BY <2>1 DEF OnSubmit, hasErrors, TitleError, DescriptionError, Text,
                    DESCRIPTION_MAX
  <2>3. PICK d \in Text : d = finalDescription
        BY <2>1
  <2>4. d.length >= form.description.length /\ d.length <= DESCRIPTION_MAX
        BY <2>1, <2>2, <2>3 DEF finalDescription, DATE_PREFIX, Text
  <2>5. d.length \in DESCRIPTION_MIN .. DESCRIPTION_MAX
    <3>1. /\ d.length \in Nat /\ form.description.length \in Nat
          /\ DESCRIPTION_MIN \in Nat /\ DESCRIPTION_MAX \in Nat
          BY <2>1 DEF Text, DESCRIPTION_MIN, DESCRIPTION_MAX
    <3>2. DESCRIPTION_MIN <= form.description.length
          BY <2>2, <3>1
    <3> QED
      BY <2>4, <3>1, <3>2
  <2>6. \/ Counted(form.title) \in TITLE_MIN .. TITLE_MAX
        \/ Shrinks(form.title, TITLE_MIN)
    <3>1. TITLE_MIN \in Nat /\ TITLE_MAX \in Nat
          BY DEF TITLE_MIN, TITLE_MAX
    <3> QED
      BY <2>1, <2>2, <3>1, TextFits
  <2>7. \/ Counted(d) \in DESCRIPTION_MIN .. DESCRIPTION_MAX
        \/ Shrinks(d, DESCRIPTION_MIN)
    <3>1. DESCRIPTION_MIN \in Nat /\ DESCRIPTION_MAX \in Nat
          BY DEF DESCRIPTION_MIN, DESCRIPTION_MAX
    <3> QED
      BY <2>5, <3>1, TextFits
  <2>8. body.description = d /\ body.title = form.title
        BY <2>3
  <2>9. /\ body.severity \in 1 .. 4 /\ body.impact \in 1 .. 4
        /\ Cardinality(body.attachments) <= MAX_ATTACHMENTS
        BY <2>1
  <2> HIDE DEF body
  <2> QED
    BY <2>6, <2>7, <2>8, <2>9 DEF ValidBody
<1>6. OnlyShrinkingTextsAreRefused'
      BY <1>1, <1>5 DEF OnlyShrinkingTextsAreRefused, ValidBody, Shrinks
<1> QED
  BY <1>3, <1>4, <1>6 DEF SubmitHalf

(* The API makes one ticket for a submit, with the priority of its levels. *)
LEMMA ServeCreateHalf ==
  ASSUME TypeOK, TypeOK', SubmitHalf, ServeCreate PROVE SubmitHalf'
<1> DEFINE n == Len(tickets)
           t == Created(call.body)
<1>1. /\ call.on /\ ~call.served /\ UNCHANGED form
      /\ tickets' = tickets \/ tickets' = Append(tickets, t)
      BY DEF ServeCreate, Served, Make
<1>2. PICK k \in Nat :
        /\ call' = [call EXCEPT !.served = TRUE, !.ticket = k]
        /\ k # NoTicket => k = n + 1 /\ tickets' = Append(tickets, t)
  <2>1. n \in Nat /\ n + 1 \in Nat /\ NoTicket \in Nat
        BY DEF TypeOK, NoTicket
  <2> QED
    BY <2>1 DEF ServeCreate, Served, Make
<1>3. /\ call'.on /\ call'.served /\ call'.ticket = k /\ call'.body = call.body
      BY <1>1, <1>2 DEF TypeOK, CallType
<1>4. n \in Nat /\ Len(tickets') \in n .. n + 1
      /\ \A i \in 1 .. n : tickets'[i] = tickets[i]
      /\ tickets' = Append(tickets, t) => tickets'[n + 1] = t /\ Len(tickets') = n + 1
      BY <1>1 DEF TypeOK
<1>5. FormShown /\ form.before \in Nat /\ form.failed \in Nat
      BY <1>1 DEF SubmitHalf, SubmitInv, TypeOK, FormType
<1>6. SubmitInv'
      BY <1>1, <1>3, <1>4, <1>5
      DEF SubmitHalf, SubmitInv, FormShown, SecondTicketNeedsAFailure
<1>7. LevelsInv'
  <2>1. k # NoTicket => Matches(k, call.body.severity, call.body.impact)'
        BY <1>2, <1>3, <1>4 DEF Matches, Created
  <2> QED
    BY <1>1, <1>3, <1>5, <2>1 DEF SubmitHalf, LevelsInv, FormShown, Matches
<1>8. OnlyShrinkingTextsAreRefused'
      BY <1>1, <1>3 DEF SubmitHalf, OnlyShrinkingTextsAreRefused, ValidBody, Shrinks
<1> QED
  BY <1>6, <1>7, <1>8 DEF SubmitHalf

LEMMA SubmitSucceedsHalf ==
  ASSUME TypeOK, SubmitHalf, SubmitSucceeds PROVE SubmitHalf'
<1>1. /\ call.on /\ call.ticket # NoTicket /\ ~call'.on
      /\ call' = NoCall /\ UNCHANGED tickets
      BY DEF SubmitSucceeds, NoCall, api
<1>2. /\ form'.created = call.ticket /\ form'.before = form.before
      /\ form'.failed = form.failed /\ form'.severity = form.severity
      /\ form'.impact = form.impact
      BY DEF SubmitSucceeds, TypeOK, FormType
<1>3. SubmitInv'
      BY <1>1, <1>2 DEF SubmitHalf, SubmitInv, FormShown, SecondTicketNeedsAFailure
<1>4. LevelsInv'
      BY <1>1, <1>2 DEF SubmitHalf, LevelsInv, Matches
<1>5. OnlyShrinkingTextsAreRefused'
      BY <1>1 DEF OnlyShrinkingTextsAreRefused
<1> QED
  BY <1>3, <1>4, <1>5 DEF SubmitHalf

LEMMA SubmitFailsHalf ==
  ASSUME TypeOK, SubmitHalf, SubmitFails PROVE SubmitHalf'
<1>1. /\ call.on /\ ~call'.on /\ call' = NoCall /\ UNCHANGED tickets
      BY DEF SubmitFails, NoCall, api
<1>2. /\ form'.created = form.created /\ form'.before = form.before
      /\ form'.failed = form.failed + 1
      /\ form.failed \in Nat /\ form.before \in Nat /\ Len(tickets) \in Nat
      BY DEF SubmitFails, TypeOK, FormType
<1>3. FormShown /\ FormShown'
      BY <1>1, <1>2 DEF SubmitHalf, SubmitInv, FormShown
<1>4. SubmitInv'
  <2>1. Len(tickets) - form.before <= form.failed + 1
        BY <1>1 DEF SubmitHalf, SubmitInv, SecondTicketNeedsAFailure
  <2> QED
    BY <1>1, <1>2, <1>3, <2>1
    DEF SubmitHalf, SubmitInv, SecondTicketNeedsAFailure
<1>5. LevelsInv'
      BY <1>1, <1>3 DEF LevelsInv
<1>6. OnlyShrinkingTextsAreRefused'
      BY <1>1 DEF OnlyShrinkingTextsAreRefused
<1> QED
  BY <1>4, <1>5, <1>6 DEF SubmitHalf

(* A fresh form, with no submit under way.                                 *)
LEMMA FreshHalf ==
  ASSUME TypeOK, form' = Fresh(Len(tickets)), ~call'.on, UNCHANGED tickets
  PROVE  SubmitHalf'
<1>1. /\ form'.created = NoTicket /\ form'.before = Len(tickets)
      /\ form'.failed = 0 /\ Len(tickets) \in Nat
      BY DEF Fresh, TypeOK
<1>2. SubmitInv'
      BY <1>1 DEF SubmitInv, FormShown, SecondTicketNeedsAFailure
<1>3. LevelsInv' /\ OnlyShrinkingTextsAreRefused'
      BY <1>1 DEF LevelsInv, FormShown, OnlyShrinkingTextsAreRefused
<1> QED
  BY <1>2, <1>3 DEF SubmitHalf

LEMMA SubmitHalfStep ==
  ASSUME IInv, Next PROVE SubmitHalf'
<1>0. TypeOK /\ TypeOK' /\ SubmitHalf /\ RoomInv
      BY TypeStep DEF IInv, SubmitHalf
<1>1. CASE EditStep
  <2>1. PICK edited \in FormType :
          /\ Edit(edited)
          /\ edited.attachments = form.attachments
          /\ edited.created = form.created /\ edited.before = form.before
          /\ edited.removed = form.removed /\ edited.failed = form.failed
          /\ call.on => /\ edited.severity = form.severity
                        /\ edited.impact = form.impact
        BY <1>0, <1>1, EditStepEdits
  <2>2. form' = edited /\ UNCHANGED <<call, tickets>> /\ FormShown
        BY <2>1 DEF Edit, api
  <2> QED
    BY <1>0, <2>1, <2>2, SubmitHalfKept
<1>2. CASE ResetForm
  <2>1. ~call'.on
        BY <1>0, <1>2 DEF ResetForm, SubmitHalf, SubmitInv
  <2> QED
    BY <1>0, <1>2, <2>1, FreshHalf DEF ResetForm, api
<1>3. CASE Leave
      BY <1>0, <1>3, FreshHalf DEF Leave, api, NoCall
<1> QED
  BY <1>0, <1>1, <1>2, <1>3, UploadSubmitHalf, OnSubmitHalf, ServeCreateHalf,
     SubmitSucceedsHalf, SubmitFailsHalf DEF Next, SubmitStep
-----------------------------------------------------------------------------
(* Files *)

(* No list grows, and no upload keeps more to itself.                      *)
LEMMA FilesShrink ==
  ASSUME FilesInv, TypeOK, TypeOK', drawn \subseteq drawn',
         stored \subseteq stored',
         \A f \in Files : Known(f)' => Known(f),
         \A s \in Slots :
           /\ Own(s)' \subseteq Own(s)
           /\ uploads'[s].base \subseteq stored'
           /\ uploads'[s].uploaded \subseteq stored',
         form'.attachments \subseteq stored'
  PROVE  FilesInv'
<1>1. \A f \in Files : Known(f)' => f \in drawn'
      BY DEF FilesInv
<1>2. ASSUME NEW s \in Slots
      PROVE  /\ Own(s)' \subseteq drawn'
             /\ \A f \in Own(s)' : ~Known(f)'
             /\ \A o \in Slots : o # s => Own(s)' \cap Own(o)' = {}
  <2>1. /\ Own(s) \subseteq drawn /\ \A f \in Own(s) : ~Known(f)
        /\ \A o \in Slots : o # s => Own(s) \cap Own(o) = {}
        BY DEF FilesInv
  <2>2. drawn \subseteq Files
        BY DEF TypeOK
  <2>3. \A f \in Own(s)' : f \in Files /\ ~Known(f)
        BY <2>1, <2>2
  <2>4. \A o \in Slots : o # s => Own(s)' \cap Own(o)' = {}
        BY <2>1
  <2> QED
    BY <2>1, <2>3, <2>4
<1> QED
  BY <1>1, <1>2 DEF FilesInv

(* The loop goes on, or the list of the page becomes that of the upload.   *)
LEMMA NextFileFiles ==
  ASSUME TypeOK, TypeOK', FilesInv, NEW s \in Slots,
         NEW uploaded \in SUBSET Own(s), uploaded \subseteq stored',
         stored \subseteq stored', NextFile(s, uploaded),
         UNCHANGED <<call, tickets, drawn>>
  PROVE  FilesInv'
<1> DEFINE u == uploads[s]
<1>0. /\ u \in UploadType /\ form \in FormType
      /\ \A o \in Slots : uploads[o].base \subseteq stored
                        /\ uploads[o].uploaded \subseteq stored
      /\ form.attachments \subseteq stored
      BY DEF TypeOK, FilesInv
<1>1. CASE u.left > 1
  <2>1. /\ uploads' = [uploads EXCEPT ![s] =
             [u EXCEPT !.left = u.left - 1, !.uploaded = uploaded, !.current = NoFile]]
        /\ UNCHANGED form
        BY <1>1 DEF NextFile
  <2>2. /\ uploads'[s].base = u.base /\ uploads'[s].uploaded = uploaded
        /\ uploads'[s].current = NoFile
        /\ \A o \in Slots : o # s => uploads'[o] = uploads[o]
        BY <1>0, <2>1 DEF TypeOK, UploadType
  <2>3. \A f \in Files : Known(f)' => Known(f)
        BY <2>1, <2>2 DEF Known
  <2>4. \A o \in Slots :
          /\ Own(o)' \subseteq Own(o)
          /\ uploads'[o].base \subseteq stored'
          /\ uploads'[o].uploaded \subseteq stored'
    <3> SUFFICES ASSUME NEW o \in Slots
                 PROVE  /\ Own(o)' \subseteq Own(o)
                        /\ uploads'[o].base \subseteq stored'
                        /\ uploads'[o].uploaded \subseteq stored'
        OBVIOUS
    <3>1. CASE o = s
          BY <1>0, <2>2, <3>1 DEF Own
    <3>2. CASE o # s
          BY <1>0, <2>2, <3>2 DEF Own
    <3> QED
      BY <3>1, <3>2
  <2> QED
    BY <1>0, <2>1, <2>3, <2>4, FilesShrink
<1>2. CASE ~(u.left > 1)
  <2>1. /\ uploads' = [uploads EXCEPT ![s] = NoUpload]
        /\ form' = form \/ form' = [form EXCEPT !.attachments = u.base \cup uploaded]
        BY <1>2 DEF NextFile
  <2>2. /\ uploads'[s] = NoUpload
        /\ \A o \in Slots : o # s => uploads'[o] = uploads[o]
        BY <2>1 DEF TypeOK
  <2>3. /\ form'.removed = form.removed
        /\ \/ form'.attachments = form.attachments
           \/ form'.attachments = u.base \cup uploaded
        BY <1>0, <2>1 DEF FormType
  <2>4. /\ NoUpload.base = {} /\ NoUpload.uploaded = {}
        /\ NoUpload.current = NoFile
        BY DEF NoUpload
  <2>5. Own(s)' = {} /\ \A o \in Slots : o # s => Own(o)' = Own(o)
        BY <2>2, <2>4 DEF Own
  <2>6. ASSUME NEW f \in Files, Known(f)' PROVE Known(f) \/ f \in Own(s)
        BY <2>2, <2>3, <2>4, <2>6 DEF Known
  <2>7. \A o \in Slots : /\ Own(o) \subseteq drawn /\ \A f \in Own(o) : ~Known(f)
                        /\ \A n \in Slots : n # o => Own(o) \cap Own(n) = {}
        BY DEF FilesInv
  <2>8. \A f \in Files : Known(f)' => f \in drawn'
        BY <2>6, <2>7 DEF FilesInv
  <2>9. ASSUME NEW o \in Slots
        PROVE  /\ Own(o)' \subseteq drawn' /\ \A f \in Own(o)' : ~Known(f)'
               /\ \A n \in Slots : n # o => Own(o)' \cap Own(n)' = {}
    <3>1. CASE o = s
          BY <2>5, <3>1
    <3>2. CASE o # s
      <4>1. Own(o)' = Own(o)
            BY <2>5, <3>2
      <4>2. ASSUME NEW f \in Own(o)' PROVE ~Known(f)'
        <5>1. f \in Files /\ f \notin Own(s) /\ ~Known(f)
              BY <2>7, <3>2, <4>1 DEF TypeOK
        <5> QED
          BY <2>6, <5>1
      <4>3. \A n \in Slots : n # o => Own(o)' \cap Own(n)' = {}
            BY <2>5, <2>7, <4>1
      <4> QED
        BY <2>7, <4>1, <4>2, <4>3
    <3> QED
      BY <3>1, <3>2
  <2>10. /\ form'.attachments \subseteq stored'
         /\ \A o \in Slots : /\ uploads'[o].base \subseteq stored'
                           /\ uploads'[o].uploaded \subseteq stored'
    <3>1. form'.attachments \subseteq stored'
          BY <1>0, <2>3
    <3>2. ASSUME NEW o \in Slots
          PROVE  /\ uploads'[o].base \subseteq stored'
                 /\ uploads'[o].uploaded \subseteq stored'
      <4>1. CASE o = s
            BY <2>2, <2>4, <4>1
      <4>2. CASE o # s
            BY <1>0, <2>2, <4>2
      <4> QED
        BY <4>1, <4>2
    <3> QED
      BY <3>1, <3>2
  <2> QED
    BY <2>8, <2>9, <2>10 DEF FilesInv
<1> QED
  BY <1>1, <1>2

(* What ends up in a list was in one, or in none but the upload's.         *)
LEMMA UploadFiles ==
  ASSUME TypeOK, TypeOK', FilesInv, UploadStep PROVE FilesInv'
<1>0. /\ form \in FormType /\ \A s \in Slots : uploads[s] \in UploadType
      /\ \A o \in Slots : uploads[o].base \subseteq stored
                        /\ uploads[o].uploaded \subseteq stored
      /\ form.attachments \subseteq stored
      BY DEF TypeOK, FilesInv
<1>1. ASSUME NEW s \in Slots, NEW files \in SUBSET Picks, HandleFiles(s, files)
      PROVE  FilesInv'
  <2>1. /\ uploads'[s].base = form.attachments /\ uploads'[s].uploaded = {}
        /\ uploads'[s].current = NoFile
        /\ \A o \in Slots : o # s => uploads'[o] = uploads[o]
        /\ UNCHANGED <<form, call, tickets, drawn, stored>>
        BY <1>1 DEF HandleFiles, TypeOK, api
  <2>2. \A f \in Files : Known(f)' => Known(f)
        BY <2>1 DEF Known
  <2>3. \A o \in Slots : /\ Own(o)' \subseteq Own(o)
                        /\ uploads'[o].base \subseteq stored'
                        /\ uploads'[o].uploaded \subseteq stored'
    <3> SUFFICES ASSUME NEW o \in Slots
                 PROVE  /\ Own(o)' \subseteq Own(o)
                        /\ uploads'[o].base \subseteq stored'
                        /\ uploads'[o].uploaded \subseteq stored'
        OBVIOUS
    <3>1. CASE o = s
          BY <1>0, <2>1, <3>1 DEF Own
    <3>2. CASE o # s
          BY <1>0, <2>1, <3>2 DEF Own
    <3> QED
      BY <3>1, <3>2
  <2> QED
    BY <1>0, <2>1, <2>2, <2>3, FilesShrink
<1>2. ASSUME NEW s \in Slots, NEW f \in Files, RequestUpload(s, f) PROVE FilesInv'
  <2>1. /\ uploads'[s].base = uploads[s].base
        /\ uploads'[s].uploaded = uploads[s].uploaded
        /\ uploads'[s].current = f /\ uploads[s].current = NoFile
        /\ \A o \in Slots : o # s => uploads'[o] = uploads[o]
        /\ UNCHANGED <<form, call, tickets, stored>>
        /\ drawn' = drawn \cup {f} /\ f \notin drawn
        BY <1>0, <1>2 DEF RequestUpload, TypeOK, UploadType
  <2>2. \A g \in Files : Known(g)' => Known(g)
    <3>1. \A o \in Slots : uploads'[o].base = uploads[o].base
          BY <2>1
    <3> QED
      BY <2>1, <3>1 DEF Known
  <2>3. /\ Own(s)' \subseteq Own(s) \cup {f}
        /\ \A o \in Slots : o # s => Own(o)' = Own(o)
        BY <2>1 DEF Own
  <2>4. \A o \in Slots : /\ Own(o) \subseteq drawn /\ \A g \in Own(o) : ~Known(g)
                        /\ \A n \in Slots : n # o => Own(o) \cap Own(n) = {}
        BY DEF FilesInv
  <2>5. ~Known(f)
        BY <2>1 DEF FilesInv
  <2>6. ASSUME NEW o \in Slots
        PROVE  /\ Own(o)' \subseteq drawn' /\ \A g \in Own(o)' : ~Known(g)'
               /\ \A n \in Slots : n # o => Own(o)' \cap Own(n)' = {}
    <3>1. Own(o)' \subseteq drawn'
          BY <2>1, <2>3, <2>4
    <3>2. ASSUME NEW g \in Own(o)' PROVE ~Known(g)'
      <4>1. g \in Files /\ ~Known(g)
            BY <2>3, <2>4, <2>5 DEF TypeOK
      <4> QED
        BY <2>2, <4>1
    <3>3. ASSUME NEW n \in Slots, n # o PROVE Own(o)' \cap Own(n)' = {}
      <4>1. f \notin Own(o) /\ f \notin Own(n) /\ Own(o) \cap Own(n) = {}
            BY <2>1, <2>4, <3>3
      <4> QED
        BY <2>3, <3>3, <4>1
    <3> QED
      BY <3>1, <3>2, <3>3
  <2>7. /\ \A g \in Files : Known(g)' => g \in drawn'
        /\ form'.attachments \subseteq stored'
        BY <1>0, <2>1, <2>2 DEF FilesInv
  <2>8. \A o \in Slots : /\ uploads'[o].base \subseteq stored'
                        /\ uploads'[o].uploaded \subseteq stored'
        BY <1>0, <2>1
  <2> QED
    BY <2>6, <2>7, <2>8 DEF FilesInv
<1>3. ASSUME NEW s \in Slots, Put(s) PROVE FilesInv'
  <2> DEFINE uploaded == uploads[s].uploaded \cup {uploads[s].current}
  <2>1. /\ NextFile(s, uploaded) /\ uploads[s].current # NoFile
        /\ stored' = stored \cup {uploads[s].current}
        /\ UNCHANGED <<call, tickets, drawn>>
        BY <1>3 DEF Put
  <2>2. uploaded \in SUBSET Own(s)
        BY <2>1 DEF Own
  <2>3. uploaded \subseteq stored'
        BY <1>0, <2>1
  <2> HIDE DEF uploaded
  <2> QED
    BY <2>1, <2>2, <2>3, NextFileFiles
<1>4. ASSUME NEW s \in Slots, UploadFails(s) PROVE FilesInv'
  <2>1. /\ NextFile(s, uploads[s].uploaded)
        /\ UNCHANGED <<call, tickets, drawn, stored>>
        BY <1>4 DEF UploadFails
  <2>2. uploads[s].uploaded \in SUBSET Own(s)
        BY DEF Own
  <2> QED
    BY <1>0, <2>1, <2>2, NextFileFiles
<1>5. ASSUME NEW f \in Files, Remove(f) PROVE FilesInv'
  <2>1. /\ form'.attachments = form.attachments \ {f} /\ f \in form.attachments
        /\ form'.removed = form.removed \cup {f}
        /\ UNCHANGED <<uploads, call, tickets, drawn, stored>>
        BY <1>0, <1>5 DEF Remove, FormType, api
  <2>2. \A g \in Files : Known(g)' => Known(g)
        BY <2>1 DEF Known
  <2>3. \A o \in Slots : Own(o)' = Own(o)
        BY <2>1 DEF Own
  <2> QED
    BY <1>0, <2>1, <2>2, <2>3, FilesShrink
<1> QED
  BY <1>1, <1>2, <1>3, <1>4, <1>5 DEF UploadStep

LEMMA FilesStep == ASSUME IInv, Next PROVE FilesInv'
<1>0. /\ TypeOK /\ TypeOK' /\ FilesInv
      /\ form.attachments \subseteq stored
      /\ \A o \in Slots : uploads[o].base \subseteq stored
                        /\ uploads[o].uploaded \subseteq stored
      BY TypeStep DEF IInv, FilesInv
<1>1. CASE EditStep
  <2>1. PICK edited \in FormType :
          /\ Edit(edited) /\ edited.attachments = form.attachments
          /\ edited.removed = form.removed
        BY <1>0, <1>1, EditStepEdits
  <2>2. /\ form'.attachments = form.attachments /\ form'.removed = form.removed
        /\ UNCHANGED <<uploads, call, tickets, drawn, stored>>
        BY <2>1 DEF Edit, api
  <2>3. \A f \in Files : Known(f)' => Known(f)
        BY <2>2 DEF Known
  <2>4. \A o \in Slots : Own(o)' = Own(o)
        BY <2>2 DEF Own
  <2> QED
    BY <1>0, <2>2, <2>3, <2>4, FilesShrink
<1>2. CASE OnSubmit
  <2>1. /\ call'.body.attachments = form.attachments
        /\ UNCHANGED <<form, uploads, tickets, drawn, stored>>
        BY <1>2 DEF OnSubmit, api
  <2>2. \A f \in Files : Known(f)' => Known(f)
        BY <2>1 DEF Known
  <2>3. \A o \in Slots : Own(o)' = Own(o)
        BY <2>1 DEF Own
  <2> QED
    BY <1>0, <2>1, <2>2, <2>3, FilesShrink
<1>3. CASE ServeCreate
  <2>1. /\ UNCHANGED <<form, uploads, drawn, stored>>
        /\ call'.body = call.body
        BY <1>0, <1>3 DEF ServeCreate, Served, TypeOK, CallType
  <2>2. tickets' = tickets \/ tickets' = Append(tickets, Created(call.body))
        BY <1>3 DEF ServeCreate, Make
  <2>3. ASSUME NEW i \in 1 .. Len(tickets'), NEW f \in tickets'[i].attachments
        PROVE  \/ \E j \in 1 .. Len(tickets) : f \in tickets[j].attachments
               \/ f \in call.body.attachments
    <3>1. CASE tickets' = tickets
          BY <2>3, <3>1
    <3>2. CASE tickets' = Append(tickets, Created(call.body))
      <4>1. i \in 1 .. Len(tickets) \/ i = Len(tickets) + 1
            BY <1>0, <2>3, <3>2 DEF TypeOK
      <4>2. i \in 1 .. Len(tickets) => tickets'[i] = tickets[i]
            BY <1>0, <3>2 DEF TypeOK
      <4>3. i = Len(tickets) + 1 => tickets'[i] = Created(call.body)
            BY <1>0, <3>2 DEF TypeOK
      <4>4. Created(call.body).attachments \subseteq call.body.attachments
            BY DEF Created
      <4> QED
        BY <2>3, <4>1, <4>2, <4>3, <4>4
    <3> QED
      BY <2>2, <3>1, <3>2
  <2>4. \A f \in Files : Known(f)' => Known(f)
        BY <2>1, <2>3 DEF Known
  <2>5. \A o \in Slots : Own(o)' = Own(o)
        BY <2>1 DEF Own
  <2> QED
    BY <1>0, <2>1, <2>4, <2>5, FilesShrink
<1>4. CASE SubmitSucceeds \/ SubmitFails \/ ResetForm \/ Leave
  <2>1. /\ form'.attachments \in {form.attachments, {}}
        /\ form'.removed \in {form.removed, {}}
        /\ UNCHANGED <<tickets, drawn, stored>>
        BY <1>0, <1>4 DEF SubmitSucceeds, SubmitFails, ResetForm, Leave, Fresh,
                          TypeOK, FormType, api
  <2>2. call'.body.attachments \in {call.body.attachments, {}}
        BY <1>4 DEF SubmitSucceeds, SubmitFails, ResetForm, Leave, NoCall, NoBody
  <2>3. \A o \in Slots :
          \/ /\ uploads'[o].base = uploads[o].base
             /\ uploads'[o].uploaded = uploads[o].uploaded
             /\ uploads'[o].current = uploads[o].current
          \/ /\ uploads'[o].base = {} /\ uploads'[o].uploaded = {}
             /\ uploads'[o].current = NoFile
    <3>1. CASE SubmitSucceeds
          BY <1>0, <3>1 DEF SubmitSucceeds, TypeOK, UploadType
    <3>2. CASE SubmitFails \/ ResetForm
          BY <3>2 DEF SubmitFails, ResetForm
    <3>3. CASE Leave
          BY <3>3 DEF Leave, NoUpload
    <3> QED
      BY <1>4, <3>1, <3>2, <3>3
  <2>4. \A f \in Files : Known(f)' => Known(f)
        BY <2>1, <2>2, <2>3 DEF Known
  <2>5. \A o \in Slots : Own(o)' \subseteq Own(o)
        BY <2>3 DEF Own
  <2>6. /\ form'.attachments \subseteq stored'
        /\ \A o \in Slots : /\ uploads'[o].base \subseteq stored'
                          /\ uploads'[o].uploaded \subseteq stored'
        BY <1>0, <2>1, <2>3
  <2> QED
    BY <1>0, <2>1, <2>4, <2>5, <2>6, FilesShrink
<1> QED
  BY <1>0, <1>1, <1>2, <1>3, <1>4, UploadFiles DEF Next, SubmitStep
-----------------------------------------------------------------------------
(* What was removed, or is an earlier ticket's *)

LEMMA OffIsKnown ==
  ASSUME TypeOK, SubmitInv, NEW f, Off(f) PROVE Known(f)
<1>1. form.before \in Nat /\ Len(tickets) \in Nat /\ form.before <= Len(tickets)
      BY DEF TypeOK, FormType, SubmitInv
<1>2. \A i \in 1 .. form.before : i \in 1 .. Len(tickets)
      BY <1>1
<1> QED
  BY <1>2 DEF Off, Known

(* What only fewer files and uploads change.                               *)
LEMMA ListShrinks ==
  ASSUME ListInv, outlived => outlived', \A f : Off(f)' => Off(f),
         form'.attachments \subseteq form.attachments,
         \A s \in Slots : uploads'[s].on =>
           uploads[s].on /\ uploads'[s].base = uploads[s].base,
         ~FormShown' => ~FormShown \/ \A s \in Slots : ~uploads'[s].on
  PROVE  ListInv'
BY DEF ListInv

LEMMA NextFileList ==
  ASSUME TypeOK, SubmitInv, FilesInv, ListInv, NEW s \in Slots, uploads[s].on,
         NEW uploaded \in SUBSET Own(s), NextFile(s, uploaded),
         UNCHANGED <<call, tickets, outlived>>
  PROVE  ListInv'
<1> DEFINE u == uploads[s]
<1>0. /\ u \in UploadType /\ form \in FormType
      BY DEF TypeOK
<1>1. CASE u.left > 1
  <2>1. /\ uploads' = [uploads EXCEPT ![s] =
             [u EXCEPT !.left = u.left - 1, !.uploaded = uploaded, !.current = NoFile]]
        /\ UNCHANGED form
        BY <1>1 DEF NextFile
  <2>2. \A o \in Slots : /\ uploads'[o].base = uploads[o].base
                        /\ uploads'[o].on = uploads[o].on
    <3> SUFFICES ASSUME NEW o \in Slots
                 PROVE  /\ uploads'[o].base = uploads[o].base
                        /\ uploads'[o].on = uploads[o].on
        OBVIOUS
    <3>1. CASE o = s
          BY <1>0, <2>1, <3>1 DEF TypeOK, UploadType
    <3>2. CASE o # s
          BY <2>1, <3>2 DEF TypeOK
    <3> QED
      BY <3>1, <3>2
  <2>3. \A f : Off(f)' => Off(f)
        BY <2>1 DEF Off
  <2> QED
    BY <2>1, <2>2, <2>3, ListShrinks DEF FormShown
<1>2. CASE ~(u.left > 1)
  <2>1. /\ uploads' = [uploads EXCEPT ![s] = NoUpload]
        /\ form' = form \/ form' = [form EXCEPT !.attachments = u.base \cup uploaded]
        BY <1>2 DEF NextFile
  <2>2. /\ ~uploads'[s].on
        /\ \A o \in Slots : o # s => uploads'[o] = uploads[o]
        BY <2>1 DEF TypeOK, NoUpload
  <2>3. /\ form'.removed = form.removed /\ form'.before = form.before
        /\ form'.created = form.created
        /\ form'.attachments \subseteq form.attachments \cup u.base \cup uploaded
        BY <1>0, <2>1 DEF FormType
  <2>4. \A f : Off(f)' => Off(f)
        BY <2>3 DEF Off
  <2>5. \A f \in Own(s) : ~Off(f)
        BY OffIsKnown DEF FilesInv
  <2>6. ASSUME ~outlived'
        PROVE  /\ \A f \in form'.attachments : ~Off(f)'
               /\ \A o \in Slots : uploads'[o].on =>
                    \A f \in uploads'[o].base : ~Off(f)'
               /\ ~FormShown' => \A o \in Slots : ~uploads'[o].on
    <3>1. /\ \A f \in form.attachments : ~Off(f)
          /\ \A o \in Slots : uploads[o].on => \A f \in uploads[o].base : ~Off(f)
          /\ ~FormShown => \A o \in Slots : ~uploads[o].on
          BY <2>6 DEF ListInv
    <3>2. \A f \in form'.attachments : ~Off(f)'
          BY <2>3, <2>4, <2>5, <3>1
    <3>3. \A o \in Slots : uploads'[o].on => \A f \in uploads'[o].base : ~Off(f)'
          BY <2>2, <2>4, <3>1
    <3>4. ~FormShown' => FALSE
          BY <2>3, <3>1 DEF FormShown
    <3> QED
      BY <3>2, <3>3, <3>4
  <2> QED
    BY <2>6 DEF ListInv
<1> QED
  BY <1>1, <1>2

LEMMA UploadList ==
  ASSUME TypeOK, SubmitInv, FilesInv, ListInv, UploadStep PROVE ListInv'
<1>0. /\ form \in FormType /\ \A s \in Slots : uploads[s] \in UploadType
      BY DEF TypeOK
<1>1. ASSUME NEW s \in Slots, NEW files \in SUBSET Picks, HandleFiles(s, files)
      PROVE  ListInv'
  <2>1. /\ uploads'[s].base = form.attachments /\ FormShown
        /\ \A o \in Slots : o # s => uploads'[o] = uploads[o]
        /\ UNCHANGED <<form, tickets, outlived>>
        BY <1>1 DEF HandleFiles, TypeOK, api, ghosts
  <2>2. \A f : Off(f)' <=> Off(f)
        BY <2>1 DEF Off
  <2>3. ASSUME ~outlived, NEW o \in Slots, uploads'[o].on
        PROVE  \A f \in uploads'[o].base : ~Off(f)'
    <3>1. CASE o = s
          BY <2>1, <2>2, <2>3, <3>1 DEF ListInv
    <3>2. CASE o # s
          BY <2>1, <2>2, <2>3, <3>2 DEF ListInv
    <3> QED
      BY <3>1, <3>2
  <2> QED
    BY <2>1, <2>2, <2>3 DEF ListInv, FormShown
<1>2. ASSUME NEW s \in Slots, NEW f \in Files, RequestUpload(s, f) PROVE ListInv'
  <2>1. /\ \A o \in Slots : /\ uploads'[o].base = uploads[o].base
                          /\ uploads'[o].on = uploads[o].on
        /\ UNCHANGED <<form, tickets, outlived>>
    <3>1. /\ uploads'[s].base = uploads[s].base /\ uploads'[s].on = uploads[s].on
          /\ \A o \in Slots : o # s => uploads'[o] = uploads[o]
          BY <1>0, <1>2 DEF RequestUpload, TypeOK, UploadType
    <3> QED
      BY <1>2, <3>1 DEF RequestUpload, ghosts
  <2>2. \A g : Off(g)' => Off(g)
        BY <2>1 DEF Off
  <2> QED
    BY <2>1, <2>2, ListShrinks DEF FormShown
<1>3. ASSUME NEW s \in Slots, Put(s) PROVE ListInv'
  <2> DEFINE uploaded == uploads[s].uploaded \cup {uploads[s].current}
  <2>1. /\ NextFile(s, uploaded) /\ uploads[s].current # NoFile /\ uploads[s].on
        /\ UNCHANGED <<call, tickets, outlived>>
        BY <1>3 DEF Put, ghosts
  <2>2. uploaded \in SUBSET Own(s)
        BY <2>1 DEF Own
  <2> HIDE DEF uploaded
  <2> QED
    BY <2>1, <2>2, NextFileList
<1>4. ASSUME NEW s \in Slots, UploadFails(s) PROVE ListInv'
  <2>1. /\ NextFile(s, uploads[s].uploaded) /\ uploads[s].on
        /\ UNCHANGED <<call, tickets, outlived>>
        BY <1>4 DEF UploadFails, ghosts
  <2>2. uploads[s].uploaded \in SUBSET Own(s)
        BY DEF Own
  <2> QED
    BY <2>1, <2>2, NextFileList
<1>5. ASSUME NEW f \in Files, Remove(f) PROVE ListInv'
  <2>1. /\ form'.attachments = form.attachments \ {f} /\ FormShown
        /\ form'.removed = form.removed \cup {f}
        /\ form'.before = form.before /\ form'.created = form.created
        /\ UNCHANGED <<uploads, tickets>>
        /\ ~outlived' => ~outlived /\ \A s \in Slots : f \notin uploads[s].base
        BY <1>0, <1>5 DEF Remove, FormType, api
  <2>2. \A g : Off(g)' => Off(g) \/ g = f
        BY <2>1 DEF Off
  <2> QED
    BY <2>1, <2>2 DEF ListInv, FormShown
<1> QED
  BY <1>1, <1>2, <1>3, <1>4, <1>5 DEF UploadStep

LEMMA ListStep == ASSUME IInv, Next PROVE ListInv'
<1>0. /\ TypeOK /\ TypeOK' /\ SubmitInv /\ FilesInv /\ ListInv
      BY TypeStep DEF IInv
<1>1. CASE EditStep
  <2>1. PICK edited \in FormType :
          /\ Edit(edited) /\ edited.attachments = form.attachments
          /\ edited.removed = form.removed /\ edited.before = form.before
          /\ edited.created = form.created
        BY <1>0, <1>1, EditStepEdits
  <2>2. /\ form' = edited /\ UNCHANGED <<uploads, tickets, outlived>>
        BY <2>1 DEF Edit, api, ghosts
  <2>3. \A f : Off(f)' => Off(f)
        BY <2>1, <2>2 DEF Off
  <2> QED
    BY <1>0, <2>1, <2>2, <2>3, ListShrinks DEF FormShown
<1>2. CASE OnSubmit \/ ServeCreate
  <2>1. UNCHANGED <<form, uploads, outlived>>
        BY <1>2 DEF OnSubmit, ServeCreate, Served, api, ghosts
  <2>2. \A i \in 1 .. Len(tickets) : tickets'[i] = tickets[i]
    <3>1. tickets' = tickets \/ tickets' = Append(tickets, Created(call.body))
          BY <1>2 DEF OnSubmit, ServeCreate, Make, api
    <3>2. ASSUME NEW i \in 1 .. Len(tickets),
                 tickets' = Append(tickets, Created(call.body))
          PROVE  tickets'[i] = tickets[i]
          BY <1>0, <3>2 DEF TypeOK
    <3> QED
      BY <3>1, <3>2
  <2>3. \A i \in 1 .. form.before : i \in 1 .. Len(tickets)
        BY <1>0 DEF SubmitInv, TypeOK, FormType
  <2>4. \A f : Off(f)' => Off(f)
        BY <2>1, <2>2, <2>3 DEF Off
  <2> QED
    BY <1>0, <2>1, <2>4, ListShrinks DEF FormShown
<1>3. CASE SubmitFails
  <2>1. /\ form'.attachments = form.attachments /\ form'.removed = form.removed
        /\ form'.before = form.before /\ form'.created = form.created
        /\ UNCHANGED <<uploads, tickets, outlived>>
        BY <1>0, <1>3 DEF SubmitFails, TypeOK, FormType, api, ghosts
  <2>2. \A f : Off(f)' => Off(f)
        BY <2>1 DEF Off
  <2> QED
    BY <1>0, <2>1, <2>2, ListShrinks DEF FormShown
<1>4. CASE SubmitSucceeds
  <2>1. /\ form'.attachments = form.attachments /\ form'.removed = form.removed
        /\ form'.before = form.before /\ UNCHANGED tickets
        BY <1>0, <1>4 DEF SubmitSucceeds, TypeOK, FormType, api
  <2>2. \A s \in Slots : uploads'[s].on = uploads[s].on
        BY <1>0, <1>4 DEF SubmitSucceeds, TypeOK, UploadType
  <2>3. ~outlived' => ~outlived /\ \A s \in Slots : ~uploads[s].on
        BY <1>4 DEF SubmitSucceeds
  <2>4. \A f : Off(f)' => Off(f)
        BY <2>1 DEF Off
  <2> QED
    BY <1>0, <2>1, <2>2, <2>3, <2>4 DEF ListInv
<1>5. CASE ResetForm
  <2>1. /\ form'.attachments = {} /\ UNCHANGED <<uploads, outlived>>
        /\ ~FormShown
        BY <1>5 DEF ResetForm, Fresh, ghosts
  <2>2. FormShown'
        BY <1>5 DEF ResetForm, Fresh, FormShown
  <2> QED
    BY <1>0, <2>1, <2>2 DEF ListInv
<1>6. CASE Leave
  <2>1. form'.attachments = {} /\ \A s \in Slots : ~uploads'[s].on
        BY <1>6 DEF Leave, Fresh, NoUpload
  <2> QED
    BY <2>1 DEF ListInv
<1> QED
  BY <1>0, <1>1, <1>2, <1>3, <1>4, <1>5, <1>6, UploadList DEF Next, SubmitStep

-----------------------------------------------------------------------------
(* Room for attachments *)

UploadRoom(u) ==
  /\ IsFiniteSet(u.base) /\ IsFiniteSet(u.uploaded) /\ u.left >= 1
  /\ Cardinality(u.base) + Cardinality(u.uploaded) + u.left <= MAX_ATTACHMENTS

LEMMA RoomKept ==
  ASSUME RoomInv,
         form'.attachments = form.attachments \/ form'.attachments = {},
         \A s \in Slots : uploads'[s].on =>
           UploadRoom(uploads'[s]) \/ (uploads[s].on /\
             /\ uploads'[s].base = uploads[s].base
             /\ uploads'[s].uploaded = uploads[s].uploaded
             /\ uploads'[s].left = uploads[s].left)
  PROVE  RoomInv'
<1>1. IsFiniteSet(form'.attachments) /\ Cardinality(form'.attachments) <= MAX_ATTACHMENTS
  <2>1. IsFiniteSet({}) /\ Cardinality({}) <= MAX_ATTACHMENTS
    <3>1. Cardinality({}) = 0
          BY FS_EmptySet
    <3> QED
      BY <3>1, FS_EmptySet, FormAssumption
  <2> QED
    BY <2>1 DEF RoomInv
<1>2. ASSUME NEW s \in Slots, uploads'[s].on PROVE UploadRoom(uploads'[s])
      BY <1>2 DEF RoomInv, UploadRoom
<1> QED
  BY <1>1, <1>2 DEF RoomInv, UploadRoom

(* A file takes the room that was left for it.                             *)
LEMMA NextFileRoom ==
  ASSUME TypeOK, RoomInv, NEW s \in Slots, uploads[s].on,
         NEW uploaded \in SUBSET Files, NextFile(s, uploaded),
         IsFiniteSet(uploaded),
         Cardinality(uploaded) <= Cardinality(uploads[s].uploaded) + 1
  PROVE  RoomInv'
<1> DEFINE u == uploads[s]
<1>0. /\ u \in UploadType /\ form \in FormType
      BY DEF TypeOK
<1>1. UploadRoom(u)
      BY DEF RoomInv, UploadRoom
<1>2. /\ Cardinality(u.base) \in Nat /\ Cardinality(u.uploaded) \in Nat
      /\ Cardinality(uploaded) \in Nat /\ u.left \in Nat
      BY <1>0, <1>1, FS_CardinalityType DEF UploadRoom, UploadType
<1>3. CASE u.left > 1
  <2> DEFINE next == [u EXCEPT !.left = u.left - 1, !.uploaded = uploaded,
                               !.current = NoFile]
  <2>1. uploads' = [uploads EXCEPT ![s] = next] /\ UNCHANGED form
        BY <1>3 DEF NextFile
  <2>2. /\ next.base = u.base /\ next.uploaded = uploaded
        /\ next.left = u.left - 1
        BY <1>0 DEF UploadType
  <2>3. /\ uploads'[s].base = u.base /\ uploads'[s].uploaded = uploaded
        /\ uploads'[s].left = u.left - 1
        BY <2>1, <2>2 DEF TypeOK
  <2> HIDE DEF next
  <2>4. UploadRoom(uploads'[s])
        BY <1>1, <1>2, <1>3, <2>3, FormAssumption DEF UploadRoom
  <2>5. \A o \in Slots : o # s => uploads'[o] = uploads[o]
        BY <2>1 DEF TypeOK
  <2> QED
    BY <2>1, <2>4, <2>5, RoomKept
<1>4. CASE ~(u.left > 1)
  <2>1. /\ uploads' = [uploads EXCEPT ![s] = NoUpload]
        /\ form' = form \/ form' = [form EXCEPT !.attachments = u.base \cup uploaded]
        BY <1>4 DEF NextFile
  <2>2. /\ ~uploads'[s].on
        /\ \A o \in Slots : o # s => uploads'[o] = uploads[o]
        BY <2>1 DEF TypeOK, NoUpload
  <2>3. /\ IsFiniteSet(u.base \cup uploaded)
        /\ Cardinality(u.base \cup uploaded) <= MAX_ATTACHMENTS
    <3>1. /\ IsFiniteSet(u.base \cup uploaded)
          /\ Cardinality(u.base \cup uploaded) =
               Cardinality(u.base) + Cardinality(uploaded)
                 - Cardinality(u.base \cap uploaded)
          BY <1>1, FS_Union DEF UploadRoom
    <3>2. IsFiniteSet(u.base \cap uploaded)
          BY <1>1, FS_Subset DEF UploadRoom
    <3>3. Cardinality(u.base \cap uploaded) \in Nat
          BY <3>2, FS_CardinalityType
    <3> QED
      BY <1>1, <1>2, <3>1, <3>3, FormAssumption DEF UploadRoom
  <2>4. /\ IsFiniteSet(form'.attachments)
        /\ Cardinality(form'.attachments) <= MAX_ATTACHMENTS
        BY <1>0, <2>1, <2>3 DEF RoomInv, FormType
  <2> QED
    BY <2>2, <2>4 DEF RoomInv
<1> QED
  BY <1>3, <1>4

LEMMA UploadStepRoom == ASSUME TypeOK, RoomInv, UploadStep PROVE RoomInv'
<1>0. /\ form \in FormType /\ \A s \in Slots : uploads[s] \in UploadType
      BY DEF TypeOK
<1>1. ASSUME NEW s \in Slots, NEW files \in SUBSET Picks, HandleFiles(s, files)
      PROVE  RoomInv'
  <2> DEFINE n == Cardinality(Accepted(files))
  <2>1. IsFiniteSet(Accepted(files))
    <3>1. Accepted(files) \in SUBSET Picks
          BY DEF Accepted
    <3> QED
      BY <3>1, FormAssumption, FS_Subset
  <2>2. n \in Nat /\ n # 0
        BY <1>1, <2>1, FS_CardinalityType, FS_EmptySet DEF HandleFiles
  <2>3. /\ uploads'[s].base = form.attachments /\ uploads'[s].uploaded = {}
        /\ uploads'[s].left = n
        /\ \A o \in Slots : o # s => uploads'[o] = uploads[o]
        /\ UNCHANGED form /\ Cardinality(form.attachments) + n <= MAX_ATTACHMENTS
        BY <1>1 DEF HandleFiles, RoomFor, TypeOK
  <2>4. IsFiniteSet(form.attachments) /\ Cardinality(form.attachments) \in Nat
        BY FS_CardinalityType DEF RoomInv
  <2> HIDE DEF n
  <2>5. UploadRoom(uploads'[s])
        BY <2>2, <2>3, <2>4, FS_EmptySet DEF UploadRoom
  <2> QED
    BY <2>3, <2>5, RoomKept
<1>2. ASSUME NEW s \in Slots, NEW f \in Files, RequestUpload(s, f) PROVE RoomInv'
  <2>1. /\ uploads'[s].base = uploads[s].base
        /\ uploads'[s].uploaded = uploads[s].uploaded
        /\ uploads'[s].left = uploads[s].left /\ uploads[s].on
        /\ \A o \in Slots : o # s => uploads'[o] = uploads[o]
        /\ UNCHANGED form
        BY <1>0, <1>2 DEF RequestUpload, TypeOK, UploadType
  <2> QED
    BY <2>1, RoomKept
<1>3. ASSUME NEW s \in Slots, Put(s) PROVE RoomInv'
  <2> DEFINE old == uploads[s].uploaded
             f == uploads[s].current
  <2>1. /\ NextFile(s, old \cup {f}) /\ uploads[s].on /\ f \in Files
        BY <1>0, <1>3 DEF Put, UploadType
  <2>2. IsFiniteSet(old) /\ Cardinality(old) \in Nat /\ old \subseteq Files
        BY <1>0, <2>1, FS_CardinalityType DEF RoomInv, UploadType
  <2> HIDE DEF old, f
  <2>3. /\ IsFiniteSet(old \cup {f})
        /\ Cardinality(old \cup {f}) =
              IF f \in old THEN Cardinality(old) ELSE Cardinality(old) + 1
        BY <2>2, FS_AddElement
  <2>4. Cardinality(old \cup {f}) <= Cardinality(old) + 1
        BY <2>2, <2>3
  <2> QED
    BY <2>1, <2>2, <2>3, <2>4, NextFileRoom DEF old
<1>4. ASSUME NEW s \in Slots, UploadFails(s) PROVE RoomInv'
  <2> DEFINE old == uploads[s].uploaded
  <2>1. /\ NextFile(s, old) /\ uploads[s].on
        BY <1>4 DEF UploadFails
  <2>2. IsFiniteSet(old) /\ Cardinality(old) \in Nat /\ old \subseteq Files
        BY <1>0, <2>1, FS_CardinalityType DEF RoomInv, UploadType
  <2>3. Cardinality(old) <= Cardinality(old) + 1
        BY <2>2
  <2> QED
    BY <2>1, <2>2, <2>3, NextFileRoom
<1>5. ASSUME NEW f \in Files, Remove(f) PROVE RoomInv'
  <2>1. form'.attachments = form.attachments \ {f} /\ UNCHANGED uploads
        BY <1>0, <1>5 DEF Remove, FormType
  <2>2. /\ IsFiniteSet(form'.attachments)
        /\ Cardinality(form'.attachments) <= Cardinality(form.attachments)
        BY <2>1, FS_Subset DEF RoomInv
  <2>3. Cardinality(form'.attachments) \in Nat /\ Cardinality(form.attachments) \in Nat
        BY <2>2, FS_CardinalityType DEF RoomInv
  <2>4. Cardinality(form'.attachments) <= MAX_ATTACHMENTS
        BY <2>2, <2>3, FormAssumption DEF RoomInv
  <2> QED
    BY <2>1, <2>2, <2>4 DEF RoomInv
<1> QED
  BY <1>1, <1>2, <1>3, <1>4, <1>5 DEF UploadStep

LEMMA RoomStep == ASSUME IInv, Next PROVE RoomInv'
<1>0. TypeOK /\ RoomInv
      BY DEF IInv
<1>1. CASE EditStep
  <2>1. PICK edited \in FormType :
          Edit(edited) /\ edited.attachments = form.attachments
        BY <1>0, <1>1, EditStepEdits
  <2>2. form'.attachments = form.attachments /\ UNCHANGED uploads
        BY <2>1 DEF Edit
  <2> QED
    BY <1>0, <2>2, RoomKept
<1>2. CASE OnSubmit \/ ServeCreate
      BY <1>0, <1>2, RoomKept DEF OnSubmit, ServeCreate, Served
<1>3. CASE SubmitSucceeds
  <2>1. form'.attachments = form.attachments
        BY <1>0, <1>3 DEF SubmitSucceeds, TypeOK, FormType
  <2>2. \A s \in Slots : /\ uploads'[s].on = uploads[s].on
                        /\ uploads'[s].base = uploads[s].base
                        /\ uploads'[s].uploaded = uploads[s].uploaded
                        /\ uploads'[s].left = uploads[s].left
        BY <1>0, <1>3 DEF SubmitSucceeds, TypeOK, UploadType
  <2> QED
    BY <1>0, <2>1, <2>2, RoomKept
<1>4. CASE SubmitFails
  <2>1. form'.attachments = form.attachments /\ UNCHANGED uploads
        BY <1>0, <1>4 DEF SubmitFails, TypeOK, FormType
  <2> QED
    BY <1>0, <2>1, RoomKept
<1>5. CASE ResetForm \/ Leave
  <2>1. form'.attachments = {}
        BY <1>5 DEF ResetForm, Leave, Fresh
  <2>2. UNCHANGED uploads \/ \A s \in Slots : ~uploads'[s].on
        BY <1>5 DEF ResetForm, Leave, NoUpload
  <2> QED
    BY <1>0, <2>1, <2>2, RoomKept
<1> QED
  BY <1>0, <1>1, <1>2, <1>3, <1>4, <1>5, UploadStepRoom DEF Next, SubmitStep

-----------------------------------------------------------------------------
(* The invariant, and what follows from it *)

LEMMA Stuttering == ASSUME IInv, UNCHANGED vars PROVE IInv'
<1>1. /\ UNCHANGED <<form, uploads, call, tickets, drawn, stored, faults,
                     outlived, submits>>
      BY DEF vars, api, ghosts
<1>2. TypeOK' /\ SubmitInv' /\ LevelsInv' /\ ListInv' /\ RoomInv'
      BY <1>1 DEF IInv, TypeOK, SubmitInv, LevelsInv, ListInv, RoomInv, FormShown,
                  SecondTicketNeedsAFailure, Matches, Off
<1>3. FilesInv' /\ OnlyShrinkingTextsAreRefused'
      BY <1>1 DEF IInv, FilesInv, OnlyShrinkingTextsAreRefused, Known, Own, ValidBody, Shrinks
<1> QED
  BY <1>2, <1>3 DEF IInv

(* IInv holds at the start, and no edit, upload, submit or answer ends it. *)
THEOREM Invariance == Spec => []IInv
<1>1. IInv /\ [Next]_vars => IInv'
      BY TypeStep, SubmitHalfStep, FilesStep, ListStep, RoomStep, Stuttering
      DEF IInv, SubmitHalf
<1> QED
  BY InitIInv, <1>1, PTL DEF Spec

(* Every variable keeps its shape, for any texts, files and uploads.       *)
THEOREM TypeCorrect == Spec => []TypeOK
<1>1. IInv => TypeOK
      BY DEF IInv
<1> QED
  BY <1>1, Invariance, PTL

(* Whatever was edited, uploaded and removed, the API refuses a body only  *)
(* for a text that it counts as shorter than the form does.                *)
THEOREM RefusedTextsShrink == Spec => []OnlyShrinkingTextsAreRefused
<1>1. IInv => OnlyShrinkingTextsAreRefused
      BY DEF IInv
<1> QED
  BY <1>1, Invariance, PTL

(* The list of attachments names stored files, and neither removed ones    *)
(* nor an earlier ticket's while no upload outlives a removal or its form. *)
THEOREM ListsAreTrue == Spec => []ListIsTrue
<1>1. IInv => ListIsTrue
  <2> SUFFICES ASSUME IInv PROVE ListIsTrue
      OBVIOUS
  <2>1. form.attachments \subseteq stored
        BY DEF IInv, FilesInv
  <2>2. \A f \in form.removed \cup Taken(form.before) : Off(f)
        BY DEF Off, Taken
  <2>3. ~outlived => \A f \in form.attachments : ~Off(f)
        BY DEF IInv, ListInv
  <2> QED
    BY <2>1, <2>2, <2>3 DEF ListIsTrue
<1> QED
  BY <1>1, Invariance, PTL

(* A form makes a second ticket only after a submit that failed.           *)
THEOREM OneTicketPerForm == Spec => []SecondTicketNeedsAFailure
<1>1. IInv => SecondTicketNeedsAFailure
      BY DEF IInv, SubmitInv
<1> QED
  BY <1>1, Invariance, PTL

(* The ticket on the success panel has the priority and the hours that the *)
(* form announced.                                                         *)
THEOREM EstimatesAreKept == Spec => []EstimateIsKept
<1>1. IInv => EstimateIsKept
  <2> SUFFICES ASSUME IInv, ~FormShown
               PROVE  /\ tickets[form.created].priority = estimatedPriority
                      /\ tickets[form.created].minutes =
                           60 * SLA_RESOLVE_LABELS[estimatedPriority]
      BY DEF EstimateIsKept
  <2>1. Matches(form.created, form.severity, form.impact)
        BY DEF IInv, LevelsInv
  <2>2. form.severity \in 1 .. 4 /\ form.impact \in 1 .. 4
        BY DEF IInv, TypeOK, FormType
  <2>3. /\ estimatedPriority = calculatePriority(form.severity, form.impact)
        /\ estimatedPriority \in Priorities
        BY <2>2, PrioritiesAgree DEF estimatedPriority
  <2> QED
    BY <2>1, <2>3, HoursAreMinutes DEF Matches
<1> QED
  BY <1>1, Invariance, PTL
=============================================================================
