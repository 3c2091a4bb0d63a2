--------------------------- MODULE MCTicketSystem ---------------------------
(* Small instances of TicketSystem for TLC. *)
EXTENDS TicketView, TLC

CONSTANTS p1

(* Every ticket was reported by p1. *)
MCReporterOf == [t \in Tickets |-> p1]

(* The two thresholds of every rule, one and two minutes after creation. *)
MCL1Due == [t \in Tickets |-> 1]
MCL2Due == [t \in Tickets |-> 2]

(* Requests that guess no version, agents and sweeps are interchangeable. *)
Symmetry ==
  Permutations(Requests \ Guessing) \cup Permutations(Agents) \cup Permutations(Sweeps)
=============================================================================
