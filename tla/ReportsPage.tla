---------------------------- MODULE ReportsPage ----------------------------
(***************************************************************************)
(* The administrators' reports (ReportsPage.tsx, reportsData.ts): figures  *)
(* computed in the browser over the tickets created in a period, which it  *)
(* walks page by page, and a CSV file of the resolved ones, which the API  *)
(* streams batch by batch (reports.service.ts).                            *)
(*                                                                         *)
(* The stream goes in the order of the ids; here this is the order of the  *)
(* queue too, and it could be any other that never changes.                *)
(***************************************************************************)
EXTENDS TicketApi

CONSTANTS
  Recent,               \* the tickets created in the shorter period
  ReportLimit,          \* PAGE_LIMIT
  MAX_REPORT_TICKETS,   \* a walk goes no further
  Batch                 \* BATCH of the API

ASSUME ReportAssumption ==
  /\ Recent \subseteq Tickets
  /\ ReportLimit \in Nat \ {0} /\ MAX_REPORT_TICKETS \in Nat \ {0}
  /\ Batch \in Nat \ {0}

VARIABLES
  reports,    \* the state of the page
  repLoad,    \* the walk of the page, or NoReport
  csv         \* the stream of the file, or NoReport

reportVars == <<reports, repLoad, csv>>

NoReport == [on |-> FALSE]
NoData == [tickets |-> <<>>, truncated |-> FALSE, known |-> FALSE]

(* from, to and the priority together; none of them can change in a ticket. *)
Periods == {"largo", "corto"}

InPeriod(period) == IF period = "corto" THEN Recent \cap made ELSE made

Resolved == {t \in made : row[t].status = "resuelto"}

(* A walk begins.  there and resolved are not in the code: the tickets that *)
(* were made, and those that were resolved, at this instant.               *)
NewReport(period) ==
  [on |-> TRUE, period |-> period, tickets |-> <<>>, cursor |-> NoCursor,
   more |-> TRUE, there |-> made, resolved |-> Resolved]

(* So does a stream; broken: the API has given it up. *)
NewStream ==
  [on |-> TRUE, tickets |-> <<>>, cursor |-> NoCursor, more |-> TRUE,
   broken |-> FALSE, resolved |-> Resolved]

ReportsNotMounted == [mounted |-> FALSE]

ReportsMounted ==
  [mounted |-> TRUE, period |-> "largo", data |-> NoData, loading |-> TRUE, downloading |-> FALSE]

ReportsOff == reports = ReportsNotMounted /\ repLoad = NoReport /\ csv = NoReport

ReportsUnmount == reports' = ReportsNotMounted /\ repLoad' = NoReport /\ csv' = NoReport

ReportsOpened ==
  /\ reports = ReportsMounted
  /\ repLoad = NewReport("largo")
  /\ csv = NoReport

ReportsMount ==
  /\ reports' = ReportsMounted
  /\ repLoad' = NewReport("largo")
  /\ csv' = NoReport

-----------------------------------------------------------------------------
(* The form *)

ApplyEnabled == ~reports.loading
DownloadEnabled == ~reports.downloading

SetPeriod(period) ==
  /\ reports.period # period
  /\ reports' = [reports EXCEPT !.period = period]
  /\ UNCHANGED <<repLoad, csv>>

(* handleSubmit, and load up to its first await. *)
Apply ==
  /\ ApplyEnabled
  /\ reports' = [reports EXCEPT !.loading = TRUE]
  /\ repLoad' = NewReport(reports.period)
  /\ UNCHANGED csv

HandleDownloadCsv ==
  /\ DownloadEnabled
  /\ reports' = [reports EXCEPT !.downloading = TRUE]
  /\ csv' = NewStream
  /\ UNCHANGED repLoad

-----------------------------------------------------------------------------
(* fetchTicketsForPeriod *)

(* A round of the loop that goes on while a page is full, with its cursor lost. *)
FetchPageFromStart(l) ==
  LET page == Page(InPeriod(l.period), NoCursor, ReportLimit)
      tickets == l.tickets \o page.items
  IN [l EXCEPT !.tickets = tickets, !.cursor = page.nextCursor,
               !.more = page.nextCursor # NoCursor
                          /\ Len(tickets) < MAX_REPORT_TICKETS]

(* A round of its loop. *)
FetchPage(l) ==
  LET page == Page(InPeriod(l.period), l.cursor, ReportLimit)
      tickets == l.tickets \o page.items
  IN [l EXCEPT !.tickets = tickets, !.cursor = page.nextCursor,
               !.more = page.nextCursor # NoCursor
                          /\ Len(tickets) < MAX_REPORT_TICKETS]

ReportWalk ==
  /\ repLoad.on /\ repLoad.more
  /\ repLoad' = FetchPage(repLoad)
  /\ UNCHANGED <<reports, csv>>

(* What it returns. *)
PeriodTickets(l) ==
  [tickets |-> SubSeq(l.tickets, 1,
                 IF Len(l.tickets) > MAX_REPORT_TICKETS THEN MAX_REPORT_TICKETS
                                                        ELSE Len(l.tickets)),
   truncated |-> Len(l.tickets) >= MAX_REPORT_TICKETS /\ l.cursor # NoCursor,
   known |-> TRUE]

ReportLoaded ==
  /\ repLoad.on /\ ~repLoad.more
  /\ reports' = [reports EXCEPT !.loading = FALSE, !.data = PeriodTickets(repLoad)]
  /\ repLoad' = NoReport
  /\ UNCHANGED csv

(* A page fails: the figures on show stay, those of another period maybe. *)
ReportFails ==
  /\ repLoad.on /\ repLoad.more /\ Fault
  /\ reports' = [reports EXCEPT !.loading = FALSE]
  /\ repLoad' = NoReport
  /\ UNCHANGED csv

(* computeKpis *)
Kpis(tickets) ==
  LET count(status) == Cardinality({i \in DOMAIN tickets : tickets[i].status = status})
  IN [byStatus |-> [s \in TicketStatus |-> count(s)],
      resolvedCount |-> count("resuelto"),
      openCount |-> Len(tickets) - count("resuelto")]

KpisShown == reports.mounted /\ ~reports.loading /\ reports.data.known

-----------------------------------------------------------------------------
(* streamCsv *)

(* A batch, after which the stream goes on from the one it began with. *)
NextBatchSameCursor(l) ==
  LET page == Page(Resolved, l.cursor, Batch)
  IN [l EXCEPT !.tickets = @ \o page.items, !.more = Len(page.items) = Batch,
               !.cursor = IF l.tickets = <<>> THEN page.nextCursor ELSE @]

(* A batch: the stream ends with one that is not full. *)
NextBatch(l) ==
  LET page == Page(Resolved, l.cursor, Batch)
  IN [l EXCEPT !.tickets = @ \o page.items, !.more = Len(page.items) = Batch,
               !.cursor = page.nextCursor]

CsvBatch ==
  /\ csv.on /\ csv.more
  /\ csv' = NextBatch(csv)
  /\ UNCHANGED <<reports, repLoad>>

(***************************************************************************)
(* A batch fails.  200 and the header row are sent by then: the response   *)
(* just ends, and the browser takes what came of it for the file.          *)
(***************************************************************************)
CsvBreaks ==
  /\ csv.on /\ csv.more /\ Fault
  /\ csv' = [csv EXCEPT !.more = FALSE, !.broken = TRUE]
  /\ UNCHANGED <<reports, repLoad>>

(* The file is saved. *)
CsvDone ==
  /\ csv.on /\ ~csv.more
  /\ csv' = NoReport
  /\ reports' = [reports EXCEPT !.downloading = FALSE]
  /\ UNCHANGED repLoad

(* The call is refused, or its connection lost; the browser saves nothing. *)
CsvFails ==
  /\ csv.on /\ Fault
  /\ csv' = NoReport
  /\ reports' = [reports EXCEPT !.downloading = FALSE]
  /\ UNCHANGED repLoad

-----------------------------------------------------------------------------
ReportsUser ==
  /\ reports.mounted
  /\ \/ \E period \in Periods : SetPeriod(period)
     \/ Apply
     \/ HandleDownloadCsv

ReportsLoading ==
  \/ (ReportWalk \/ ReportLoaded \/ CsvBatch \/ CsvDone) /\ UNCHANGED apiVars
  \/ (ReportFails \/ CsvBreaks \/ CsvFails) /\ UNCHANGED <<row, made, role, changes>>

ReportsStep ==
  \/ ReportsUser /\ UNCHANGED apiVars
  \/ ReportsLoading
=============================================================================
