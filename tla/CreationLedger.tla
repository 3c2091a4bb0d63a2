--------------------------- MODULE CreationLedger ---------------------------
(***************************************************************************)
(* What POST /v1/tickets promises, with no awaits, no locks, no clock and  *)
(* no crashes: a ticket is made in one step, under a key no ticket has,    *)
(* and takes in that step every attachment its reporter asked for, had     *)
(* uploaded and had not yet used.                                          *)
(***************************************************************************)
CONSTANTS Users, NoUser, Keys, NoKey, Files, Creations, NoTicket

VARIABLES
  made,    \* the tickets, by the request that made them
  owner,   \* who uploaded an attachment, and the ticket it is on
  asked,   \* what every request asked for
  told     \* what every client has been told

vars == <<made, owner, asked, told>>

Exists(t) == made[t].reporter # NoUser

Init ==
  /\ made = [t \in Creations |-> [reporter |-> NoUser, key |-> NoKey]]
  /\ owner = [x \in Files |-> [uploader |-> NoUser, ticket |-> NoTicket]]
  /\ asked = [c \in Creations |-> [user |-> NoUser, key |-> NoKey, files |-> {}]]
  /\ told = [c \in Creations |-> [code |-> 0, ticket |-> NoTicket]]

Upload(x, u) ==
  /\ owner[x].uploader = NoUser
  /\ owner' = [owner EXCEPT ![x].uploader = u]
  /\ UNCHANGED <<made, asked, told>>

Ask(c, u, k, files) ==
  /\ asked[c].user = NoUser
  /\ asked' = [asked EXCEPT ![c] = [user |-> u, key |-> k, files |-> files]]
  /\ UNCHANGED <<made, owner, told>>

(* The attachments that c may take now. *)
Free(c) ==
  {x \in asked[c].files : owner[x].uploader = asked[c].user
                          /\ owner[x].ticket = NoTicket}

Make(c) ==
  /\ asked[c].user # NoUser
  /\ told[c].code = 0
  /\ ~Exists(c)
  /\ asked[c].key = NoKey
     \/ \A t \in Creations : Exists(t) => made[t].key # asked[c].key
  /\ made' = [made EXCEPT ![c] = [reporter |-> asked[c].user,
                                  key |-> asked[c].key]]
  /\ owner' = [x \in Files |->
                IF x \in Free(c) THEN [owner[x] EXCEPT !.ticket = c]
                                 ELSE owner[x]]
  /\ UNCHANGED <<asked, told>>

(* A client is told the ticket it made, the one its key names, or an error. *)
Tell(c, code, t) ==
  /\ asked[c].user # NoUser
  /\ told[c].code = 0
  /\ \/ code = 201 /\ t = c /\ Exists(c)
     \/ /\ code = 200 /\ t \in Creations /\ Exists(t) /\ ~Exists(c)
        /\ asked[c].key # NoKey /\ made[t].key = asked[c].key
     \/ code = 500 /\ t = NoTicket /\ ~Exists(c)
  /\ told' = [told EXCEPT ![c] = [code |-> code, ticket |-> t]]
  /\ UNCHANGED <<made, owner, asked>>

Next ==
  \/ \E x \in Files, u \in Users : Upload(x, u)
  \/ \E c \in Creations :
       \/ \E u \in Users, k \in Keys \cup {NoKey}, files \in SUBSET Files :
            Ask(c, u, k, files)
       \/ Make(c)
       \/ \E code \in {200, 201, 500}, t \in Creations \cup {NoTicket} :
            Tell(c, code, t)

Spec == Init /\ [][Next]_vars
=============================================================================
