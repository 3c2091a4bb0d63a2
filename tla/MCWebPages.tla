----------------------------- MODULE MCWebPages ----------------------------
(* Instances of WebPages for TLC: two tickets, one nobody has and one of    *)
(* another agent, both open; the first may be made later.                   *)
EXTENDS WebPages

MCStartRows == {<<NewTicket, [NewTicket EXCEPT !.assignee = Other]>>}
=============================================================================
