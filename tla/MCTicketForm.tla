--------------------------- MODULE MCTicketForm ----------------------------
(* Small instances of TicketForm for TLC. *)
EXTENDS TicketForm, TLC

TextOf(length, blanks, uncounted) ==
  [length |-> length, blanks |-> blanks, uncounted |-> uncounted]

(* At the lower bound of the API, once its double blank is one. *)
MCTitles == {TextOf(6, 1, 0)}

(* At the lower bound of the form, and below that of the API for an emoji; *)
(* and the shortest that leaves no room for a date.                        *)
MCDescriptions == {TextOf(20, 0, 1), TextOf(4973, 0, 0)}

(* Two files that may be sent, the larger of which is as large as can be, *)
(* and one of another kind.                                                *)
MCPicks ==
  {[ext |-> "pdf", size |-> 1], [ext |-> "log", size |-> MAX_FILE_BYTES],
   [ext |-> "exe", size |-> 1]}

(* Ids and calls are interchangeable. *)
Symmetry == Permutations(Files) \cup Permutations(Slots)
=============================================================================
