-------------------------- MODULE MCTicketCreation --------------------------
(* Small instances of TicketCreation for TLC. *)
EXTENDS TicketCreation, TLC

CONSTANTS u1

(* u1's client drew every key. *)
MCKeyOf == [k \in Keys |-> u1]

(* Requests and attachments are interchangeable. *)
Symmetry ==
  Permutations(Creations) \cup Permutations(Files) \cup Permutations(Keys)
=============================================================================
