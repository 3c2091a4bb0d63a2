# A verification of the ticket system

TLA+ modules of the ticket system, from its database calls to the pages of its
web client, the TLC runs that check them on small instances, and TLAPS proofs
of the main results for instances of any size.  The reference is the code under
`src/`; the documents are used only to say what the code is meant to do, and
four of their statements, or of the comments, are checked and refuted (see
*Findings*).

Abbreviations: `api/` is `src/app/api/src/`, `web/` is `src/app/web/src/`.

## 1. Inventory

| Component | State it keeps | Operations | Talks to |
|---|---|---|---|
| Ticket mutations, `api/tickets/` | rows of `tickets` and `ticket_events` | `assign`, `changeState`, `addComment` | users, notifications |
| Ticket creation, `api/tickets/tickets.service.ts` | `tickets`, `ticket_events`, `attachments`; the idempotency key | `create` | sla_rules, attachments |
| Ticket reading | none | `list`, `events`, `getForUser`, cursor pagination | |
| Priority and SLA arithmetic | none | `calculatePriority`, `computeSlaFields` | |
| SLA escalation worker, `api/workers/escalation/` | `escalation_level`, `ticket_events` | `sweep`, `escalateOne` | shares the rows with the API |
| Notification producer, `api/notifications/` | messages in SQS | `enqueue` | the API's handlers |
| Async consumer, `api/workers/async-consumer/` | the batch in hand | `processMessage`, the polling loop | SQS (at least once, DLQ), SES |
| Notification dispatch, `api/workers/notifications/` | none | `resolveChannels`, `dispatch` | SES, Slack |
| Attachments, `api/attachments/` | `attachments` (`pending`, `attached`, `expired`), S3 objects | `createUpload`, `getDownload` | S3, creation |
| Users and authentication, `api/auth/`, `api/users/` | `users.role` | log in, Cognito exchange, `upsertByEmail`, guards | Cognito |
| Reports, `api/reports/` | a stream of batches | `streamCsv` | |
| Queue page, `web/pages/queue/` | filters, rows, cursor, `requestSeq` | reload, load more, assign to me | the API |
| SLA board, `web/pages/sla/` | rows of two walks, an interval | load, assign to me | the API |
| Detail page, `web/pages/detail/` | the ticket on show, its action panel, its history and comments | assign, begin, resolve, refetch after a 409, comment, load more | the API |
| Reports page, `web/pages/reports/` | the tickets of a period, a download | walk, figures, CSV | the API |
| Creation form, `web/pages/create/` | fields, attachments, uploads under way | edit, upload, remove, submit, reset | the API, S3 |
| Sessions, `web/auth/`, `web/api/client.ts`, `web/pages/login/` | the session of a tab and that of localStorage | log in, callback, log out, redirects, the 401 of any call | the API, Cognito, other tabs |
| Configuration, health, logging | none that matters here | | |
| Seed, infrastructure (`src/infra/`), CI | | | |

How they interact.  The API runs as several replicas and the escalation worker
as a Lambda on a schedule; nothing but the database coordinates them.  Every
handler is a sequence of separate database calls with an `await` between any
two, so another request, another replica or a sweep may run in between, and
the process may die at any of them.  The API hands messages to SQS on a best
effort basis after the change is committed; the consumer deletes a message
after processing it, so it may process one twice.  The browser holds versions
that may be stale by the time it sends them, and every handler of a page has
awaits of its own, with the values of the render that began it in its closure.

What is hard, and so what the project is about:

* *check, then act*: `assign` and `changeState` read a row, judge the actor,
  the assignee and the transition on it, and change the row some awaits later.
  Only the compare-and-set on `version` ties the two together, with the
  version the **client** sends, not the one that was read;
* *two writers with two protocols*: requests compare and increment `version`,
  the escalation worker compares `escalation_level` and the status;
* *two statements, no transaction*: the row and its audit event;
* at-least-once schedulers and queues, retries of a creation;
* *answers in any order*: lists, reloads, assignments and actions of a page
  that was filtered, refreshed or left meanwhile;
* *walks over a list that changes*: each page of a list is read at another
  instant, with a cursor that may have left the filter;
* *state shared by tabs*: one localStorage, a session per document.

What makes each component correct:

* mutations: no lost update, every change legal at the instant it happens, a
  409 only for a reason, audit events true and unique, resolution final;
* escalation: each level raised once, never a resolved ticket, every overdue
  ticket raised in the end;
* creation: one ticket per idempotency key, in the window and under races, its
  event and its attachments with it or not at all, an attachment on one ticket
  at most;
* queue and consumer: what was enqueued is sent or ends in the dead-letter
  queue, never lost by a crash of the consumer; duplicates are bounded;
* pages: what is on show answers the last question asked, in order, no ticket
  twice and none missing that did not move; nothing waits for a call that is
  not under way; no row goes back on the page of a ticket;
* form: the API accepts what the form lets through, the attachments listed are
  those uploaded and not removed, one submit makes one ticket;
* sessions: a tab shows the user its calls are made as, the role in the table
  is that of the newest token, redirects come to rest.

## 2. The modules

| Module | What it is |
|---|---|
| `TicketStore` | the shared tables `row` (tickets) and `events` (ticket_events), the roles, the state machine `canTransition`, the SET clauses of the UPDATEs (`Assigned`, `Moved`) |
| `TicketService` | the handlers `assign`, `changeState`, `addComment` |
| `Escalation` | the worker: overlapping sweeps, a clock |
| `TicketSystem` | both over one store, the properties, the fairness, the inductive invariant |
| `TicketRegister` | the abstract specification of `TicketSystem`: a ticket is an atomic register with its history |
| `TicketCreation` | `create` with its idempotency key and attachments, `createUpload`, `getDownload`, and what PostgreSQL's transactions do to them |
| `CreationLedger` | the abstract specification of `TicketCreation`: making a ticket is one atomic step |
| `NotificationQueue` | the SQS queue with its dead-letter queue, and the replicas of the async consumer |
| `TicketApi` | the tickets as the pages meet them: rows behind an API that answers at one instant, with the cursor pages of Prisma |
| `QueuePage`, `SlaPage`, `TicketDetail`, `EventTabs`, `ReportsPage` | the pages of the web client, each over `TicketApi` |
| `WebPages` | the pages behind their routes, one of them mounted at a time, and the properties of them all |
| `TicketForm` | the creation form with its attachments field, and what the API does with its calls |
| `Sessions` | the tabs of a browser, both log ins, and the role in the users table |
| `TicketView` | the tables of `TicketSystem` as the pages of one user are shown them through `TicketApi` |
| `TicketSystem_proofs`, `TicketHistory_proofs` | theorems about `TicketSystem`, the second on its history, the refinement, and what `TicketView` says of the pages |
| `TicketCreation_proofs` | theorems about `TicketCreation`, the refinement included |
| `NotificationQueue_proofs`, `TicketForm_proofs`, `Sessions_proofs` | theorems about the module of that name |
| `WebLists_proofs` | lemmas on the lists of `TicketApi` and the pages that walk them: queue, board, reports |
| `WebPages_proofs` | lemmas on the page of a ticket, and the theorems about `WebPages` |
| `MCTicketSystem`, `MCTicketCreation`, `MCNotificationQueue`, `MCWebPages`, `MCTicketForm`, `MCSessions` | instances for TLC |

The detailed modules justify the atomic steps of those above them.
`TicketSystem` implements `TicketRegister`; and through `TicketView`, which
computes the rows of `TicketApi` from its tables, every change of a row is one
of the atomic changes of `TicketApi`, and every answer that decides a change is
one `TicketApi` gives at a single instant.  Both are properties of the runs and
theorems.  `TicketCreation` implements `CreationLedger`, so `TicketForm` may
make a ticket in one step; this second link is made in prose.

### Mutations and escalation

`row[t]` holds the columns the handlers read or write: status, assignee_id,
version, escalation_level, and `solution`, which stands for the three columns
(root_cause, solution, resolved_at) that one UPDATE writes together and which
names the request that wrote them.  `events[t]` is the history after
`ticket_creado`.  A request `r` is one invocation of a handler; `req[r].pc`
says which database call comes next:

    idle --read and checks--> update --UPDATE--> event --INSERT--> notify --> done

`AssignRead`/`StateRead`/`CommentRead` are the `findUnique` and every early
return of the handler, in the order of the code; `AssignUpdate`/`StateUpdate`
the compare-and-set with its 409; `AssignEvent`/`StateEvent`/`CommentEvent`
the INSERT; `NotifyReporter` the best-effort enqueue, which may do nothing;
`Crash` the end of the process at any await.  The DTOs take any integer from 0
on for `expectedVersion`, so there are two kinds of requests: most send a
version they were shown, one of those the ticket has had by then, and those in
`Guessing` may also send one the row has yet to reach, up to `Ahead` beyond it.
The pages never guess; another client may.

A sweep is `SweepStart` (the time is read), `SweepScan` (findMany),
`EscalateUpdate` (one compare-and-set), `EscalateEvent` (its INSERT),
`SweepReturn`, or `SweepDie` anywhere.  The rows are taken in any order, as
findMany asks for none.  Time is counted in minutes from the creation of the
tickets, so the thresholds of the SLA rules are absolute.

`TicketRegister` has no requests: `Reassign`, `Move` and `Raise` change the
row and append to its history in one step, judged on the row as it is.  Under
the refinement its history is `Ledger`: the changes of a ticket put in the
order of the versions they produced, with what each event says or would have
said.  So `ImplementsRegister` says that what the handlers check on a stale
row is as good as checking it atomically, and that the from-values of the
audit trail are the values replaced, once the events are put in version order.
A guess is the exception, and the register says what it may cost and what not:
a guessed version may be reached after the read, so the change of who guesses
is judged, and its event written, with an assignee the ticket has *or had*
(`TakenForAssignee`).  The status is in the WHERE of changeState, so even then
every transition is one the row makes, and nothing else is lost.

### Creation, attachments, downloads

A creation `c` is one invocation of `create`; the ticket it inserts is named
after it.  `cr[c].pc` says what comes next:

    idle --> find --findFirst--> insert --INSERT--> attach ... commit --> reply --> done
                                   |  P2002                                ^
                                   +-------> lookup --findFirst------------+

A request without a key begins at `insert`, and so does one whose key is the
empty string (`EmptyKey`): the code tests it as absent, before the INSERT and
in the catch (`tickets.service.ts:113`, 183), but inserts it as a key like any
other (`?? null`, 141), so its violation of the index is thrown on.  Any of the
queries may fail (`QueryFails`), the findFirst of the catch as well, and is
answered 500; `thrown` records which error left the handler.  `ticket`, `att`
and `history` hold what is committed.  The insertions run in one READ COMMITTED
transaction, of which others see only what it holds: `Insert` waits for an open
transaction that has its key and fails if a committed ticket has it;
`AttachRow` takes the rows of the updateMany one by one, in any order, and
waits for a row that another open transaction has updated, then judges it again
on its new version.  `Commit` makes all of it visible.  `TransactionFails` and
`Crash` roll back; `BreakDeadlock` is PostgreSQL ending one of a cycle of
waiting transactions.  Locks, rollback and deadlock detection are not under
`src/`: they are modelled from how PostgreSQL treats the statements the code
issues, and marked external.

`UploadRow`/`UploadAnswer` are the two halves of `createUpload`;
`DownloadRead`, `DownloadAccess`, `DownloadEvent` the awaits of `getDownload`.
Time is counted in periods of 24 hours, which is both the idempotency window
and the life of a pending attachment; nothing in the code is finer.

One assumption is about clients: the key is a UUID drawn by the client of one
user (`KeyOf`).  The code does not look at the user of a key.  Of the empty key
nothing is assumed: several users may send it, and it is never looked up.

`CreationLedger` has no awaits, locks, clock or crashes.  `Make` creates the
ticket and takes, in the same step, every attachment that was asked for, is of
the same uploader and is free; `Tell` tells a client the ticket it made, the
ticket of its key, or an error.  The refinement reads the committed tables and
what clients have been told.

### Queue and consumer

`state[m]` says where a message is (unsent, queued, deleted, dead), `visible`
which queued ones may be received, `receives[m]` how often one was delivered;
`con[k]` is a replica: polling, with a batch, or about to delete `cur`.
`Receive` is ReceiveMessage, `Process` and `ProcessFails` the call of
`processMessage` and its catch, `Delete`/`DeleteFails` DeleteMessage, `Die` the
end of a replica anywhere.  A call that fails may have had its effect.
`Reappear` is the visibility timeout, which may pass at any time, so a message
may be in the hands of two replicas; a receipt is named by the number of its
delivery, and deleting with an old one may or may not delete.  `Redrive` moves
a message to the dead-letter queue instead of delivering it once more than
`max_receive_count`.

### The web pages

A handler of a page runs without interruption up to its await.  Its call is
then in flight: the API serves it at one instant (`Serve...`), and the answer
arrives at a later one (`...Arrives`, `...Succeeds`, `...Fails`), in any order
with other answers and with what the user does.  A call is a record that keeps
what the closure of its render held: the filters and the cursor of a list call,
the version and the address of an action.  Calls are sets where a page may have
several (`lists`, `assigns`, `gets`, `runs`), and a single record where a
disabled button or a ref allows one only (`slaLoad`, `csv`).

A ticket is a number, its place in the queue: priority, created_at and id never
change.  `After(S, cursor)` is Prisma's `cursor` with `skip: 1`: the rows from
the place of the cursor on, without the first of them, which is the cursor
unless it has left the filter.  `ServeChange` is an assignment or a change of
state sent by a page: made, refused with one of the codes the row allows, or
failed; `Elsewhere` is what other users and the worker do: change a ticket,
raise one, or make one (`Create`).  A ticket that is made takes the place of
its priority, which may lie before the cursor of a walk under way.  Codes are a
set and not a verdict, because the handler tests two rows: a row that denies
the change now (403, 422) may also be answered 409, by a call that read it
while it still allowed the change (`MoveRefusals`).  `EventTabs` numbers the
events by `created_at` and commits them in any order, since `created_at` is
taken before the commit.

`TicketView` ties this to the handlers.  `View` is `row` without the solution,
each assignee shown as Me, nobody, or someone else; `CodeOf` is what the place
a handler has come to makes it answer.

`Navigate` unmounts a page and mounts another.  The answers to the calls of a
page that was left change nothing on show, and its calls count as changes by
others.  A panel of actions is different: within the page of a ticket it is
unmounted by a change of tab or of address, its answer still arrives, and is
handed to the page that is then on show.

Some variables are not in the code and no guard reads them; they only let a
property speak of the past: in the queue the filters each page on show was asked
for with, those of the last reload, whether it failed and whether a load-more
was overtaken (`shownFor`, a set, `asked`, `failed`, `overtaken`); the statuses
and the tickets there were when a load of the board began, and whether the last
one failed (`from`, `there`, `failed`); a panel that was left with an action in
flight (`left`); the events committed when a history was opened and the comment
that was sent (`seen`, `sent`); what there was and what was resolved when a walk
or a stream began (`there`, `resolved`).

The CSV file is streamed.  `CsvFails` is a call that is refused or lost: nothing
is saved.  `CsvBreaks` is a batch that fails once the answer has begun: the
status 200 and the header row are out, the response ends (`broken`), and
`CsvDone` saves what came.

### The creation form

`form` holds the fields and the ticket of the success panel.  A text is three
numbers: its length trimmed and in UTF-16 units, as the form measures it, the
blanks the API takes out of it before it validates, and the units that
class-validator does not count, one of each surrogate pair (`Counted`).
`uploads[s]` is one call of `handleFiles`: `HandleFiles` up to its first await,
then `RequestUpload` and `Put` or `UploadFails` for each file, and with the
last one `onChange([...attachments, ...uploaded])`, where `attachments` is the
list of the render that began it (`base`).  A field allows one such call at a
time, but a call outlives its field: when the success panel takes the place of
the form it goes on (`mounted` is then false), and `onChange` still sets the
list of the page, beside a call of the next form.  Hence the `Slots`.

`OnSubmit` runs to its await; `ServeCreate` is the API, which answers with a
ticket, with 400, or fails before or after it made the ticket; `SubmitSucceeds`
and `SubmitFails` handle the answer; `ResetForm` is "Crear otro" and `Leave`
leaves the page.  Every submit draws a fresh idempotency key, so keys do not
appear.  Not in the code: the tickets there were when the form was fresh, the
files the user removed, the submits that failed (`before`, `removed`,
`failed`), and whether an upload outlived a removal or its form (`outlived`).

### Sessions

`tab[t]` is a document: its path, the session of its AuthProvider and the path
to return to.  `storage` is the session in localStorage, shared by the tabs,
whose token every call reads when it is sent.  A log in `l` is numbered and
goes

    sent --> token --> ok / refused --> over

where `token` exists for Cognito only: `FetchIdToken` takes the role from the
groups as they are, `UpsertByEmail` writes it to `accounts` some awaits later.
`Redirect` is the `<Navigate>` of RequireAuth, RequireRole and the log in page;
`GoTo` the side bar; `Load` a document that is loaded anew; `Unauthorized` the
branch of `api/client.ts` that clears the session at a 401, whichever session
it is by then, and loads the log in page.  `Download` is the one call that does
not go through it: it carries the token of its own tab, and its 401 is an error
on the page (`ReportsPage.tsx`, 146-157).  `Write` is any write to
localStorage: it marks every other tab as `behind`, as no `storage` event is
listened to.  `issued` (the role of the newest token) and `crossed` (two log
ins of a user held tokens at once, or one was lost) are not in the code.

## 3. What the runs check

| Run | Instance | Distinct states | Properties |
|---|---|---|---|
| `ticket_requests` | 3 requests, one of which guesses, 1 ticket, 1 agent, 1 admin | 1,511,388 | `EveryVersionHasOneWinner`, `SnapshotIsCurrent`, `ConflictHasAWinner`, `AuditTellsTheTruth`, `OneResolutionMail`, `ImplementsRegister`, `CallsAreDecidedAtOnce` for the agent |
| `ticket_sweeps` | 1 request, 2 sweeps, one death, time to 2, `FairSpec` | 175,233 | `TypeOK`, `EachLevelIsRaisedOnce`, `ResolutionIsFinal`, `OverdueIsRaised`, `ChangesAreTheApis` |
| `ticket_event_atomicity` | 2 requests | | refutes `EventInSameTransaction` |
| `creation_keys` | 2 creations, 2 keys and the empty one, 2 users and 1 staff, 1 attachment, 1 download, time to 1 | 1,648,454 | `OneTicketPerKey`, `AnswersNameTheKeysTicket`, `DownloadsAreAllowed`, `LosersAreAnswered` |
| `creation_attachments` | 2 creations, 2 users, 1 key and the empty one, 2 attachments, `FairSpec` | 248,996 | `AttachedForGood`, `ImplementsLedger`, `CreationEnds` |
| `creation_expiry` | 2 creations, 1 attachment, time to 1 | | refutes `ExpiredAreIgnored` |
| `queue` | 2 replicas, 1 mail, 1 poison message, batches of 2, 3 deliveries, 2 faults, `FairSpec` | 27,284 | `NothingIsLost`, `DuplicatesAreBounded`, `EveryMessageSettles`, `GoodMessagesAreProcessed` |
| `queue_duplicates` | 2 replicas, 2 mails, 1 fault | | refutes `EachMailIsSentOnce` |
| `web_pages` | 2 tickets, one of which may be made meanwhile, an administrator or a reporter, lists of one row a page, 1 change, 1 fault, 3 events | 2,995,884 | `TypeOK`, `EverySpinnerHasACall`, `LastReloadWins`, `QueueIsInOrder`, `BoardIsExact`, `NewestStaysOnShow`, `HistoryIsComplete`, `SentCommentIsShown`, `ReportIsExact`, `FileIsExact` |
| `detail_attachments` | 2 tickets, an agent, no faults | | refutes `AttachmentsAreListed` |
| `ticket_form` | 1 title and 2 descriptions at the bounds, 3 files to pick, 3 ids, 2 uploads at once, 2 submits, 1 fault | 3,371,016 | `OnlyShrinkingTextsAreRefused`, `ListIsTrue`, `SecondTicketNeedsAFailure`, `EstimateIsKept` |
| `sessions` | 1 user, 2 tabs, 3 pages, 2 log ins, 1 change of groups, 1 fault, `FairSpec` | 348,098 | `SessionsAgree`, `RolesFollowTheDirectory`, `TabsSettle` |

What the properties say, and against which hazard:

* `SnapshotIsCurrent`: a handler that sends a version its client was shown, and
  finds it in the table at its UPDATE, changes the very row it judged.  Others
  may guess meanwhile: whatever they change raises the version.
* `ConflictHasAWinner`: a 409 is another request's success.  Only a guess may
  be answered 409 with no winner, and only while the ticket has not gone beyond
  the version it named.
* `ImplementsRegister`: the handlers are the atomic register above, guesses
  included.
* `CallsAreDecidedAtOnce`: there is an instant at which the row explains the
  answer of a call that sends a version it was shown, as every page does: the
  read for a 403 or a 422, the UPDATE for a 200 or a 409.
  `ChangesAreTheApis`: what the pages are shown changes as `TicketApi` lets it,
  so what is checked of the pages holds of the handlers they call.
* `LosersAreAnswered`: who loses the race on the unique index, in the window or
  after it, is answered with the winner, or its own lookup fails.  The violation
  itself is answered under the empty key only, and only when a ticket has it.
* `EverySpinnerHasACall`: every spinner and every button that is disabled
  meanwhile belongs to a call under way, whatever failed, was overtaken or was
  skipped because another load runs.  It has two exceptions, which the code
  needs: "Cargar más" of the queue once a reload has overtaken its call, and the
  spinner of a board that has never loaded, between a load that failed and the
  next interval (see *Findings*).
* `LastReloadWins` and `QueueIsInOrder`: `requestSeq` keeps late answers from
  replacing newer ones: the first rows were asked for with the filters of the
  last reload, and the rows appended to them with these or with those that are
  set, which after a conflict are not the same (see *Findings*).  Pages
  appended over a filter that changes keep the order and show no ticket twice.
* `BoardIsExact`: the two walks of the board, one per status, show a ticket
  twice only if it moved between the lists meanwhile, and if none moved, they
  show every ticket that was made when the load began.
* `NewestStaysOnShow`: the page of a ticket never goes back to an older version
  of it, unless its panel was left with an action in flight.
* `HistoryIsComplete`, `SentCommentIsShown`: events that are committed out of
  the order of `created_at` are neither repeated nor disordered, and those there
  when the first page was read are all shown; a comment that was sent is shown,
  unless the events before it fill the only page the tab reads.
* `ReportIsExact`, `FileIsExact`: figures and file count nothing twice and miss
  nothing that was there when they began, while tickets are made and resolved.
  A stream that breaks leaves a beginning of the file, in order and without
  gaps, though the page cannot tell (see *Findings*).
* `OnlyShrinkingTextsAreRefused`: whatever was edited and uploaded, the API
  refuses a body of the form only for a text that is long enough as the form
  counts and too short as the API does, by its blanks or its surrogate pairs;
  never for a text that is too long, nor for its attachments.
* `ListIsTrue`: the attachments listed were stored, not removed and not those of
  an earlier ticket, unless an upload outlived a removal or its form.
* `SecondTicketNeedsAFailure`: a form makes a second ticket only after a submit
  that failed.  `EstimateIsKept`: the priority and the hours the panel announces
  are those of the ticket.
* `SessionsAgree`: a tab and its calls agree on who the user is, until another
  tab logs in or out.  `RolesFollowTheDirectory`: the table has the role of the
  newest token, unless two log ins of the user overlapped.  `TabsSettle`:
  redirects come to rest, no page waits for a log in for ever, and a board whose
  session another tab ended finds out.

The exceptions are the smallest the code allows: without any one of them TLC
finds a counterexample, and each is described under *Findings* or in the hazards
of `PROJECT.json`.

### Bounds

*Mutations.*  Tickets do not interact (no statement touches two rows, and a
sweep judges each of its candidates by itself), so one ticket is enough.
Three requests are what it takes for an assign, a move and a
resolution to overlap with a loser; two sweeps what it takes for a double
raise.  One agent, one admin and one reporter cover every verdict of the
checks.  `MaxTime = 2` passes both thresholds (1 and 2), so a sweep can find a
ticket due for level 1, for level 2, or for both at once.  `MaxDeaths` bounds
the sweeps that die.  `Ahead = 1` is all a guess needs: a version further ahead
is reached by as many changes, each of them a step like the first, and the
theorems hold for any `Ahead` and any set of guessing requests.  One guesses in
`ticket_requests`, so that it meets requests that do not.  Its users are staff: a
reporter has only comments to make, and makes them in `ticket_sweeps`.  Requests
and sweeps meet in `ticket_sweeps`, where they share the row and, as
`ChangesAreTheApis` says, not the version; that no sweep makes one of several
requests lose is the theorem `ConflictsHaveAWinner`.

*Creation.*  Two creations are a winner and a loser, or a ticket and its retry;
two keys let them be unrelated; `MaxTime = 1` lets the window pass once, which
is all that can happen to a key.  Two attachments are the least two updateMany
can lock in opposite orders.  `MaxTime` bounds the clock and nothing else.

*Queue.*  Two replicas are what it takes for a message to be in two hands;
a batch of two for a poison message to come before a good one; three
deliveries with two faults for a mail to be sent on a first delivery, again on
a second, and once more on a third.

*Pages.*  Two tickets and pages of one row are the least instance in which a
list has a second page, whose cursor may have left the filter by then.
`MaxChanges` bounds the changes by others and stops further clicks on actions
after them: one change is what it takes to make a version stale, a row leave a
filter or a ticket move between the lists of the board.  `StartMade` lets the
more urgent of the two tickets be there from the beginning or be made by somebody
while pages are open, in front of the cursor of a walk; the tickets bound how
many are made.  `MaxFaults = 1` lets
one call fail, anywhere.  `MaxAssigns` and `MaxRuns` bound the calls of the
queue and of the action panel in flight, `MaxEvents` the events of a history:
three make two pages of comments.  The limits of the walks (`MAX_TICKETS`,
`MAX_REPORT_TICKETS`) are two, as many as there are tickets: a walk may end at
its limit, at a full last page, or at one that is not full.  A list longer than
its limit, which the code cuts on purpose, does not occur here; `BoardIsExact`
and `ReportIsExact` ask nothing of one, and their proofs cover any length.

*Form.*  `MAX_ATTACHMENTS = 2` and three ids let a list be full, and one file
too many be picked.  The descriptions are one at the lower bound with a double
surrogate pair and the shortest that leaves no room for a date, and the title
has a blank too many for the API: at these the two measures of a text differ,
or the bound is met.  The severity stays at 2 and the impact is 2 or 3,
so the sum takes the values on both sides of a threshold; the whole matrix is
covered by `EstimatesAreKept`, which is proved.  Two submits are one and its
retry, or the last of a form and the first of the next.

*Sessions.*  Two tabs are what it takes for one to end the session of another,
two log ins for two tokens of one user to overlap, one change of groups for the
two tokens to differ.

Deadlock is not checked anywhere: an invocation handles one request, a message
is sent once, bounded changes run out, and the models stop when all are done.
Interchangeable ids are symmetric in the runs of `Spec`, never in those of
`FairSpec`.

### Fairness

`TicketSystem`: the clock runs, every sweep invocation is started again and
again and takes its next step (EventBridge's schedule, a Lambda that is not
killed), and a request that has begun goes on.  No fairness for users, crashes
or deaths.  That deaths are finitely many (`MaxDeaths`) is the assumption that,
some time, a sweep survives; without it nothing can be promised, and the code
promises nothing more.

`TicketCreation`: a handler that has begun goes on, and PostgreSQL breaks
deadlocks.  Weak fairness of the whole of `GoesOn(c)` is enough: a wait is
never interrupted for ever, since each transaction takes finitely many steps.

`NotificationQueue`: a replica works through its batch; a hidden message
reappears (the visibility timeout is finite); a message that is visible again
and again is received in the end, or redriven (strong fairness, the promise of
SQS).  Failures are finitely many by `MaxFaults`; that they are fewer than the
deliveries a message gets is what `GoodMessagesAreProcessed` needs, and the
reason why `max_receive_count` is more than one.

`Sessions`: a `<Navigate>` that is rendered navigates, a call that was sent is
answered and its answer handled, the interval of the board goes off every
minute (`SlaPage.tsx`, 96-100), and a log in goes on once it was sent.  Nothing
is asked of the user, who may stop anywhere.

The pages and the form have no liveness property: each of their calls ends if
it is answered, and `EverySpinnerHasACall` says the rest without fairness.

## 4. What is proved

For any sets of tickets, users, requests, messages, files, tabs and any bounds
that satisfy the named assumptions of the modules.  Every safety property that
a passing run checks is proved for all instances, the two refinements included;
each module has a theorem for its inductive invariant and one for its types
(`TypeOK` is run for `ticket_sweeps` and `web_pages`; that of the other modules
is a conjunct of their invariants and left to the proofs).

### `TicketSystem_proofs`

* `Invariance`: `Spec => []IInv`;
* `TypeCorrect`, `SnapshotsAreCurrent`, `VersionsHaveOneWinner`,
  `ConflictsHaveAWinner` and `ResolutionsAreFinal`: the properties the runs
  check under the names `TypeOK`, `SnapshotIsCurrent`,
  `EveryVersionHasOneWinner`, `ConflictHasAWinner` and `ResolutionIsFinal`.

The argument.  None of the three main properties is inductive alone.  That a
409 has a winner needs to know that a request that does not guess expects, at
its UPDATE, a version no later than the row's, and that the versions below the
row's are all taken (`EveryVersionHasOneWinner`): the UPDATE of `changeState`
also compares the status, and only `SnapshotIsCurrent` says that this second
test never fails alone.  For a guess it may fail alone, or the version be still
to come; then the property asks for a winner only once the row has passed the
guess.  `AssigneesAreHeld` says that an assignee, of a row or of what was read
from one, was given the ticket, which is all that is left of the snapshot of who
guesses.  `SnapshotIsCurrent` needs that every step that changes status or
assignee also increments the version (`RowSteps`, `RowFields`), which the
worker's step satisfies because it touches neither.  All of them need
`RequestShape` and `RequestIsJudged`, which say what the program counter
implies of the local variables.  `VersionSteps` sums up what a step does to
the versions (nothing, or one request commits and one version goes up by one),
`RequestSteps` what it does to a waiting request, `RowSteps` what it does to a
row; the rest follows from these without looking at the actions again.

### `TicketHistory_proofs`

`AuditsAreTrue`, `LevelsAreRaisedOnce` and `ResolutionsAreMailedOnce`: the
properties `AuditTellsTheTruth`, `EachLevelIsRaisedOnce` and
`OneResolutionMail`, from `HistoryInvariance`.

The argument.  What an event tells is fixed at the UPDATE, and the request that
owns it is the only one to insert it, so `AuditTellsTheTruth` is nearly
inductive on top of `IInv`.  For the levels, the raises recorded in the history
are not enough, because a sweep between its UPDATE and its INSERT has raised
without recording: `RaisesLieApart` speaks of recorded and pending raises
together and says that they cover disjoint ranges that end at or below the level
of the row.  A compare-and-set that succeeds starts at that level, so the new
range lies above them all.  For the mails, `SolutionsStay` says that the row
keeps naming the request that resolved it, and `MailsAreOfResolutions` that a
message was sent by one that did; two would have resolved one ticket.

In the same module, `HandlersImplementTheRegister`: `Spec => ImplementsRegister`,
the atomic register of `TicketRegister` with the ledger in the place of its
history.

The argument is a step simulation.  Reads, inserts of events, messages and
crashes leave the ledger as it is, because an entry of it is made of the row
and of what the request that committed it holds, neither of which they change.
A commit makes its request the only one that took its version
(`EveryVersionHasOneWinner`), so the ledger grows by one entry at its end and
keeps the others.  What the register's guard asks of the row as it is was
checked by the handler on the row it read (`RequestIsJudged`), and
`SnapshotIsCurrent` says the two are the same; of a guess only the assignee may
differ, as the WHERE compares the status, and `AssigneesAreHeld` makes it one of
the holders the register allows.  A sweep's compare-and-set maps
to `Raise`, by what `SweepShape` says of the level it read.

Last, `CallsDecidedAtOnce` and `ChangesAsTheApis`: the properties
`CallsAreDecidedAtOnce` and `ChangesAreTheApis` of `TicketView`, for any user as
Me, staff or not (`ViewAssumption` asks only that the name for the others is
nobody's).

The argument.  `Refusals` restates the codes of `TicketApi`, which speak of what
is shown, in terms of the row.  Of the handler's UPDATE, `IInv` says what was
judged (`RequestIsJudged`), and that the version it expects can only be the
row's if the row it read is the row there (`SnapshotIsCurrent`).  So a
compare-and-set that succeeds finds no code to refuse with; one that fails finds
another version, not merely another status, which is what makes 409 the answer.
A code given before the UPDATE comes from the row of that very step.  For the
changes, `ShowChange` and `ApiChange` carry an UPDATE over to the view; that a
sweep raises, never lowers, is `SweepShape` again.

These two properties corrected the model: `TicketApi` used to refuse a move
with the first of 403, 422 and 409 that applied to the row.  TLC refuted that
(two calls of one agent read the ticket in progress, the first resolves it, the
second is answered 409 and not 422), and the proofs about the pages now hold
with every code the handlers can give.

### `TicketCreation_proofs`

From `CreationAssumption` (staff are users, every key was drawn by one user,
the null values are not ids):

* `Invariance`: `Spec => []IInv`;
* `TypeCorrect`, `KeysNameOneTicket`, `AnswersAreRight`, `DownloadsAreSafe`,
  `NoLoserFails` and `AttachmentsStay`: type correctness and the properties
  `OneTicketPerKey`, `AnswersNameTheKeysTicket`, `DownloadsAreAllowed`,
  `LosersAreAnswered` and `AttachedForGood`.

The argument.  That a key names one ticket is a matter of what open
transactions hold: `KeyIsHeld` says that between the INSERT and the commit no
ticket and no other open transaction has the key, so `Commit` cannot make a
second one.  `LoserHasWinner` says that whoever is at the second findFirst has
a committed ticket to find, since tickets are never deleted: the violation of
the index leaves the handler only if the key is empty, and the catch does not
look.  That its reporter is the loser's own user needs `KeysOfReporters`: the
code never compares the two, and only the honest key (`Asked`) makes them
agree.  `TakenIsHeld` does for attachments what `KeyIsHeld` does for keys.  A
creation's steps but the commit change its own local variables only;
`QuietStep` proves all of that once, for any new values that satisfy it, and
the lemmas of the actions supply the values.  For downloads, `DownloadShape`
relates the row that was read to the row as it is: the two may differ only by
an attachment that was free and is now on a ticket, and `AttachedByUploader`
makes the conclusion of `assertCanAccess` survive that (`DownloadsFollow`).

In the same module, `CreationsImplementTheLedger`: `Spec => ImplementsLedger`.

The argument.  Only four actions may be more than a stutter: `Receive`,
`Commit`, `Answer` and `UploadRow`.  The ledger takes, in one step, **every**
attachment that was asked for, is the reporter's own and is free, while the
transaction looked at them one by one and earlier.  That these are the same is
the added invariant: what the transaction took is still free in the committed
rows, as others wait for its locks, and what it passed over was not the
reporter's or not free when it was judged and, since an attachment is never
detached, is not now (`OnlyTakenAreFree`; all of them were uploaded before they
were asked for, `AskedForHanded`).  `RepliesAreTrue` says what a creation about
to answer may answer, and `NotYetAsked` that nobody answers before asking.

### `NotificationQueue_proofs`

`NoMessageIsLost` and `MailsAreBounded`: the properties `NothingIsLost` and
`DuplicatesAreBounded`.

The argument.  A replica reaches its DeleteMessage only with a message that it
processed (`InHand`), whatever the age of its receipt.  The bound is a budget:
the sends so far and the deliveries in the batches of replicas that may still
send are together no more than the receives (`Budget`).  `Receive` raises both
sides by one, `Process` moves a delivery from one summand to the other.  That a
delivery is in one batch only, so that nothing is moved twice, needs receipts to
be unique, as they are the numbers of deliveries (`ReceiptsAreGiven`,
`ReceiptsAreUnique`); the redrive policy bounds the receives.

### `TicketForm_proofs`

`RefusedTextsShrink`, `ListsAreTrue`, `OneTicketPerForm` and
`EstimatesAreKept`: the properties `OnlyShrinkingTextsAreRefused`,
`ListIsTrue`, `SecondTicketNeedsAFailure` and `EstimateIsKept`.

The argument.  A body is what the form was when it was sent, so what the API
may refuse is decided by the tests of the form, but for the number of its
attachments: that never exceeds the limit although an upload appends to an old
list, because `RoomInv` says that the list an upload began with, what it
uploaded and what it still has to upload fit together, and the list of the page
becomes just these, whatever it was by then.  For `ListIsTrue`, `FilesInv` says
that what an upload has to itself is in no list, body or ticket yet, and in no
other upload, and that what is listed is stored; `ListInv` that, as long as no
upload outlived a removal or its form, neither the list nor the list an upload
began with holds a file that was removed or that an earlier ticket has.  For
the estimate, `LevelsInv` says that the levels of the form are those of the
body while a submit is under way, which holds only because their controls are
disabled meanwhile.

### `Sessions_proofs`

`TabsShowTheirSession` and `RolesAreCurrent`: the properties `SessionsAgree` and
`RolesFollowTheDirectory`.

The argument.  Every write to localStorage comes from a tab that takes the same
session in the same step, and makes the others `behind`.  The exception is a 401
on the log in page, which clears localStorage and leaves the document alone:
`PublicPagesAreSilent` and `AnswersAreCalls` say that no signed in document is
there with a call under way.  For the roles, `HolderIsNewest` says
that unless log ins overlapped the only holder of a token has the newest one,
so the upsert writes the role of the newest; log ins are numbered and a number
is used once (`LoginsAreNumbered`).

### `WebLists_proofs`, `WebPages_proofs`

For any tickets, roles, page sizes and limits, any number of changes by others,
failures and changes of page:

* `Invariance`: `Spec => []WebInv`;
* `TypeCorrect`, `SpinnersHaveCalls`, `ReloadsWin`, `QueueKeepsOrder`,
  `HistoriesAreComplete`, `CommentsAreShown`, `ReportsAreExact` and
  `FilesAreExact`: the invariants `TypeOK`, `EverySpinnerHasACall`,
  `LastReloadWins`, `QueueIsInOrder`, `HistoryIsComplete`, `SentCommentIsShown`,
  `ReportIsExact` and `FileIsExact`;
* `BoardsAreExact` and `NewestStays`: the action properties `BoardIsExact` and
  `NewestStaysOnShow`.

The argument.  It rests on what one page of a list promises (`PageProperties`,
and `EventsPageProperties` for events): its rows are in order and after the
cursor it was read from; no row between that cursor and the next one is left
out, *if the row of the cursor is still in the list*; and a page without a next
cursor goes to the end of the list.  The condition is the point.  With `skip: 1`
the row after a cursor that has left the list is passed over, so each walk is
saved by something else:

* the order of the queue needs only the first part, and that at most one call
  for a list is in flight, which extends the rows on show where they end
  (`OneListCall`, `RowsInOrder`): a reload drops a load-more under way
  (`requestSeq`), and a load-more is not offered while one is;
* the board promises nothing of a ticket that moved, nor of one that was made
  after the load began, whose place may be behind the walk.  `WalkInv` says
  where the rows of a walk were when they were read, so that a ticket that is
  in both lists has moved, and that a walk misses none if none has moved;
* the tickets of a period, those that are resolved, and the committed events
  never leave their lists, so their cursors are never stale: `PeriodWalk`,
  `FileWalk` and `HistoryOn` say that a walk holds everything up to its cursor
  that was there when it began.  A status only goes on from abierto to
  en_progreso to resuelto (`RowsEvolve`), which puts the resolved tickets of the
  figures between those at the beginning and those at the end.

For the page of a ticket, `AnswersAreNotOlder` says that, unless a panel was
left, the answer to an action is about another ticket or no older than what is
shown: one mounted action is under way at most (`OneMountedRun`), what is on
show does not change meanwhile, and no row on show is newer than the ticket
(`NoRowIsNewer`), whose version only grows.

The pages are composed by `WebInv`: the page of the route has its invariant
while it is on, the others are off.  A step of one page, or of others, changes
the rows as `ApiStep` says, which is all the other pages need to know of it.

`Ordered`, the order of a page, is defined by what it is to return, and
`OrderedExists` proves there is such a sequence for every finite set of
numbers, by counting for each number those up to it.

### What is only model-checked

All liveness (`OverdueIsRaised`, `CreationEnds`, `EveryMessageSettles`,
`GoodMessagesAreProcessed`, `TabsSettle`), as fairness and ENABLED are out of
the prover's reach.

## 5. Findings

Four statements of the documents and comments that the code does not keep,
each refuted by a run:

* the event is not inserted in the transaction of the UPDATE (RFC Q8,
  `docs/rfcs/Q8-concurrencia.md:124`), and a crash in between loses it:
  `ticket_event_atomicity`;
* an expired attachment is not ignored by a creation (comment in `create`,
  `tickets.service.ts:159-160`): `creation_expiry`;
* the consumer is not idempotent for mails (ADR 0010,
  `docs/adrs/0010-async-messaging.md:87`): `queue_duplicates`;
* the page of a ticket loses its attachments, and says "a tiempo" of an overdue
  ticket, once an action succeeded: the API answers an action with the bare row,
  without what `getForUser` adds (comment at `tickets.service.ts:257-258`,
  `TicketDetailPage.tsx:169`): `detail_attachments`.

Other differences were met that have no run of their own.

In the API and the workers:

* a body with a version the row has yet to reach is taken
  (`change-state.dto.ts:17-19`): the actor and the transition are judged on the
  row as it was read, and if another request brings the row to that version
  before the UPDATE, an agent moves a ticket that was just taken from them
  (`tickets.service.ts:338`, 379), and the from-value of the event is a former
  one (317).  The pages never send such a version;
* an empty Idempotency-Key is tested as absent (`tickets.service.ts:113`, 183)
  but inserted as a key (141), so every creation with one, after the first, is
  answered 500 (192);
* a batch of the CSV that fails ends an answer that has begun with 200
  (`reports.controller.ts:21-26`): the page saves a truncated file as if it were
  whole, without an error (`ReportsPage.tsx:149-164`);
* a ticket that is made while a list is walked is missed if its place, which its
  priority decides (`tickets.service.ts:230`), is in front of the cursor: the
  board lacks it until its next load, the figures until they are asked for
  again;
* two events may be in the history in the opposite order of their versions, as
  each takes its time at its own INSERT (`tickets.service.ts:390`; RFC Q8, 169,
  asks for no contradicting events);
* a sweep that dies between its UPDATE and its INSERT leaves a raise that no
  event records (`escalation.service.ts:55-62`; ADR 0006, 138, speaks of one
  transaction);
* the escalation neither tests nor increments `version`, while RFC Q8 (111)
  asks it of all mutations;
* an attachment that is associated has no `adjunto_agregado` event (BL-015,
  `docs/backlog.md:560`), and a creation that names an attachment it may not have
  is not rejected (`docs/backlog.md:557-558`): the id is ignored;
* the 24-hour window bounds the first findFirst only, as the unique index and
  the second findFirst keep a key for ever;
* an attachment row whose URL was never signed stays pending for good
  (`attachments.service.ts:54`);
* the `notification_sent` check of E4 section 6.4 does not exist;
* the log in by password lower-cases the email and the upsert of Cognito does
  not, so one person may have two rows;
* the seed gives severity 2 and impact 2 the priority alta (`api/seed.ts:45-47`),
  while `calculatePriority` says media.

In the web client:

* a load-more of the queue that is overtaken by a reload leaves `loadingMore`
  set and the button disabled, for as long as the page stays mounted
  (`QueuePage.tsx:156`); a reload that failed keeps the cursor of the former
  filters; a 409 reloads with the filters of the render that sent the assignment
  (177), which may no longer be those that are set, and a load-more (148) then
  appends rows of the latter; a row may go back to an older version, when a list
  was read before an assignment and arrives after it; and the button of a second
  assignment is enabled by the `finally` of the first;
* a board whose first load failed shows its spinner, with nothing under way,
  until the interval (`SlaPage.tsx:185`);
* a period of exactly as many tickets as the limit is reported as cut off
  (`reportsData.ts:39-42`);
* the comments are those among the first 50 events (`CommentsTab.tsx:36`):
  beyond them a comment is saved and never shown;
* the board says that the list was updated after a 409 whether or not it could
  be (`SlaPage.tsx:119`), and that escalation goes from L1 to L3 (326), while the
  worker stops at level 2;
* an action that ends after the address changed puts the ticket of the former
  address on the page of the new one (`ActionsPanel.tsx:64`);
* every submit draws a fresh idempotency key (`api/tickets.ts:33`), so a submit
  after a lost answer makes a second ticket, without the attachments the first
  one took;
* a file removed while another uploads comes back, and an upload that ends after
  the form was reset lands in the next ticket (`AttachmentsField.tsx:121`); a
  submit is not held back by an upload (`CreateTicketPage.tsx:172`);
* the form counts the UTF-16 units of a trimmed text, the API the characters left
  once it collapses blanks, with a surrogate pair as one
  (`CreateTicketPage.tsx:138`, `create-ticket.dto.ts:16-35`): a title of three
  emoji passes the one and fails the other;
* a late 401 of a former session removes the one signed in meanwhile
  (`client.ts:113-118`), and a tab does not notice that another logged in or out.

## 6. What is not modelled

* The history buttons of the browser: every path the pages send one to, and
  every address that is loaded, is modelled, but not going back.
* An action still in flight while a tab of events is open: the page of a ticket
  is modelled in two parts, its panel of actions and its tabs of events, and an
  event the action itself records is one of the events by others.
* The download button of an attachment on that page.  It changes nothing but
  itself; its half in the API is `DownloadRead` and its successors.
* Labels and layout, among them the days a ticket is overdue by
  (`slaOffByDays`), and the notices that only tell what happened.
* The notification dispatch Lambda, which no queue is wired to (BL-045,
  `notifications.handler.ts:18`); the async consumer does its work.
* Configuration, health and logging keep no state tickets depend on; the seed
  runs once, alone; what Terraform declares is in the constants and the fairness
  of the modules (replicas, schedules, the redrive policy, the visibility
  timeout).
* The cryptography of tokens, S3 and SES themselves, the formatting of mails and
  of the CSV file.
* The demotion of an agent who holds tickets: roles change in `Sessions`, and
  are constants of `TicketService`, whose handlers read them once.  No code
  looks at the tickets of a demoted agent, so one may belong to a reporter until
  somebody reassigns it.

What would come next: the same for creation, whose link from `CreationLedger` to
`TicketForm` is not derived by a proof, and for the row that the answer to a
change carries, which `TicketApi` reads in a step of its own as the handler
does.
