----------------------------- MODULE Escalation -----------------------------
(***************************************************************************)
(* The SLA escalation worker.  A sweep reads every open ticket below the   *)
(* top level, decides from the time it started at which level each should  *)
(* be, and raises them one by one with a compare-and-set on                *)
(* escalation_level.  It does not read or write `version`.  Sweeps may     *)
(* overlap, each works on the rows it read, and a sweep may die anywhere.  *)
(***************************************************************************)
EXTENDS TicketStore

CONSTANTS
  RuledTickets,  \* tickets whose priority has a row in sla_rules
  L1Due, L2Due,  \* minute at which a ticket crosses each threshold of its rule
  MaxTime,       \* bound on the clock
  MaxDeaths      \* bound on the sweeps that die

ASSUME EscalationAssumption ==
  /\ RuledTickets \subseteq Tickets
  /\ L1Due \in [Tickets -> Nat]
  /\ L2Due \in [Tickets -> Nat]
  /\ MaxTime \in Nat
  /\ MaxDeaths \in Nat

VARIABLES
  now,     \* the clock
  sweep,   \* the invocations of the worker
  deaths   \* how many sweeps died

escalationVars == <<now, sweep, deaths>>

(* Which level a ticket should be at, given the time.  The elapsed time is *)
(* counted from created_at, so the thresholds are absolute times here.     *)
decideEscalationLevel(t, at) ==
  IF at >= L2Due[t] THEN 2 ELSE IF at >= L1Due[t] THEN 1 ELSE 0

(* The filter of findMany off by one level. *)
CandidatesAtLevelZero ==
  {t \in Tickets : row[t].status # "resuelto" /\ row[t].level < MAX_LEVEL - 1}

(* findMany: open tickets below the top level. *)
Candidates ==
  {t \in Tickets : row[t].status # "resuelto" /\ row[t].level < MAX_LEVEL}

AtRest ==
  [pc |-> "idle", at |-> 0, todo |-> {},
   seen |-> [t \in Tickets |-> 0], cur |-> NoTicket]

(* sweep() takes the time first ... *)
SweepStart(s) ==
  /\ sweep[s].pc = "idle"
  /\ sweep' = [sweep EXCEPT ![s].pc = "scan", ![s].at = now]
  /\ UNCHANGED <<row, events, now, deaths>>

(***************************************************************************)
(* ... and then reads the candidates.  The loop skips, with no effect, a   *)
(* ticket without a rule and one whose target, a function of what was      *)
(* read, is not above its level: `todo` holds the others.                  *)
(***************************************************************************)
SweepScan(s) ==
  /\ sweep[s].pc = "scan"
  /\ sweep' = [sweep EXCEPT
                 ![s].pc = "loop",
                 ![s].todo = {t \in Candidates \cap RuledTickets :
                                decideEscalationLevel(t, sweep[s].at)
                                  > row[t].level},
                 ![s].seen = [t \in Tickets |-> row[t].level]]
  /\ UNCHANGED <<row, events, now, deaths>>

Target(s, t) == decideEscalationLevel(t, sweep[s].at)

(* The compare-and-set without the level, and without the status. *)
EscalateMatchesAnyLevel(s, t) == row[t].status # "resuelto"

EscalateMatchesAnyStatus(s, t) == row[t].level = sweep[s].seen[t]

(* UPDATE ... WHERE id AND escalation_level = the level read AND still open. *)
EscalateMatches(s, t) ==
  /\ row[t].level = sweep[s].seen[t]
  /\ row[t].status # "resuelto"

(* The compare-and-set if it also incremented the version. *)
EscalateUpdateNewVersion(s, t) ==
  /\ sweep[s].pc = "loop"
  /\ t \in sweep[s].todo
  /\ IF EscalateMatches(s, t)
       THEN /\ row' = [row EXCEPT ![t].level = Target(s, t),
                                  ![t].version = @ + 1]
            /\ sweep' = [sweep EXCEPT ![s].pc = "event", ![s].cur = t,
                                      ![s].todo = @ \ {t}]
       ELSE /\ sweep' = [sweep EXCEPT ![s].todo = @ \ {t}]
            /\ UNCHANGED row
  /\ UNCHANGED <<events, now, deaths>>

(* escalateOne, the compare-and-set; zero rows means that another sweep    *)
(* raised the ticket, or that it was resolved: the loop goes on.           *)
EscalateUpdate(s, t) ==
  /\ sweep[s].pc = "loop"
  /\ t \in sweep[s].todo
  /\ IF EscalateMatches(s, t)
       THEN /\ row' = [row EXCEPT ![t].level = Target(s, t)]
            /\ sweep' = [sweep EXCEPT ![s].pc = "event", ![s].cur = t,
                                      ![s].todo = @ \ {t}]
       ELSE /\ sweep' = [sweep EXCEPT ![s].todo = @ \ {t}]
            /\ UNCHANGED row
  /\ UNCHANGED <<events, now, deaths>>

(* escalateOne, the INSERT of its event: a statement of its own. *)
EscalateEvent(s) ==
  LET t == sweep[s].cur IN
  /\ sweep[s].pc = "event"
  /\ InsertEvent(t, [kind |-> "escalamiento", by |-> s,
                     from |-> sweep[s].seen[t], to |-> Target(s, t)])
  /\ sweep' = [sweep EXCEPT ![s].pc = "loop", ![s].cur = NoTicket]
  /\ UNCHANGED <<row, now, deaths>>

(* The loop is over: sweep() returns its summary. *)
SweepReturn(s) ==
  /\ sweep[s].pc = "loop"
  /\ sweep[s].todo = {}
  /\ sweep' = [sweep EXCEPT ![s] = AtRest]
  /\ UNCHANGED <<row, events, now, deaths>>

(* The Lambda times out, or a database call fails: the invocation is gone. *)
SweepDie(s) ==
  /\ sweep[s].pc # "idle"
  /\ deaths < MaxDeaths
  /\ sweep' = [sweep EXCEPT ![s] = AtRest]
  /\ deaths' = deaths + 1
  /\ UNCHANGED <<row, events, now>>

Tick ==
  /\ now < MaxTime
  /\ now' = now + 1
  /\ UNCHANGED <<row, events, sweep, deaths>>

EscalationInit ==
  /\ now = 0
  /\ sweep = [s \in Sweeps |-> AtRest]
  /\ deaths = 0

SweepStep(s) ==
  \/ SweepStart(s)
  \/ SweepScan(s)
  \/ \E t \in Tickets : EscalateUpdate(s, t)
  \/ EscalateEvent(s)
  \/ SweepReturn(s)

EscalationNext ==
  \/ \E s \in Sweeps : SweepStep(s) \/ SweepDie(s)
  \/ Tick

Sweep ==
  [pc   : {"idle", "scan", "loop", "event"},
   at   : Nat,
   todo : SUBSET Tickets,
   seen : [Tickets -> 0 .. MAX_LEVEL],
   cur  : Tickets \cup {NoTicket}]

EscalationTypeOK ==
  /\ now \in Nat
  /\ sweep \in [Sweeps -> Sweep]
  /\ deaths \in Nat
=============================================================================
