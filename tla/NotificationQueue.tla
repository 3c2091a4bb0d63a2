------------------------- MODULE NotificationQueue -------------------------
(***************************************************************************)
(* The notification queue (SQS standard, with its dead-letter queue) and   *)
(* the replicas of the async consumer that poll it.                        *)
(*                                                                         *)
(* The queue delivers at least once: a message that was received becomes   *)
(* visible again when its visibility timeout passes, which the model lets  *)
(* happen at any time, since a consumer works through a batch one message  *)
(* after the other and nothing renews the timeout.  A receipt is named by  *)
(* the number of the delivery it came with.                                *)
(***************************************************************************)
EXTENDS Integers, FiniteSets

CONSTANTS
  Messages,     \* message ids
  Mails,        \* those whose body is a ticket notification
  Poison,       \* those whose processing always fails
  Consumers,    \* replicas of the consumer
  NoMessage,    \* nothing in hand
  BATCH_SIZE,   \* POLLING_BATCH_SIZE
  MaxReceive,   \* max_receive_count of the redrive policy
  MaxFaults     \* bound: how many calls may fail, or replicas die

ASSUME QueueAssumption ==
  /\ Mails \subseteq Messages
  /\ Poison \subseteq Messages
  /\ NoMessage \notin Messages
  /\ BATCH_SIZE \in Nat \ {0}
  /\ MaxReceive \in Nat \ {0}
  /\ MaxFaults \in Nat

VARIABLES
  state,      \* where a message is: "unsent", "queued", "deleted" or "dead"
  visible,    \* the queued messages a consumer may receive now
  receives,   \* how many times a message has been delivered
  sends,      \* how many times sendEmail was called for a message
  objects,    \* the messages with an object async/<id> in the bucket
  con,        \* the local variables of every consumer
  faults      \* failures so far

vars == <<state, visible, receives, sends, objects, con, faults>>

Polling == [pc |-> "poll", batch |-> {}, cur |-> NoMessage]

Init ==
  /\ state = [m \in Messages |-> "unsent"]
  /\ visible = {}
  /\ receives = [m \in Messages |-> 0]
  /\ sends = [m \in Messages |-> 0]
  /\ objects = {}
  /\ con = [k \in Consumers |-> Polling]
  /\ faults = 0

Fault == faults < MaxFaults /\ faults' = faults + 1

-----------------------------------------------------------------------------
(* SQS *)

(* SendMessage of the producer. *)
Enqueue(m) ==
  /\ state[m] = "unsent"
  /\ state' = [state EXCEPT ![m] = "queued"]
  /\ visible' = visible \cup {m}
  /\ UNCHANGED <<receives, sends, objects, con, faults>>

(* The visibility timeout of m passes. *)
Reappear(m) ==
  /\ state[m] = "queued" /\ m \notin visible
  /\ visible' = visible \cup {m}
  /\ UNCHANGED <<state, receives, sends, objects, con, faults>>

(* A message that would be delivered once more than allowed is moved. *)
Redrive(m) ==
  /\ m \in visible
  /\ receives[m] >= MaxReceive
  /\ state' = [state EXCEPT ![m] = "dead"]
  /\ visible' = visible \ {m}
  /\ UNCHANGED <<receives, sends, objects, con, faults>>

-----------------------------------------------------------------------------
(* The consumer *)

At(k, pc) == con[k].pc = pc

(* The deliveries of a batch: each message with its receipt. *)
Deliveries(M) == {[id |-> m, receipt |-> receives[m] + 1] : m \in M}

(* ReceiveMessage: up to BATCH_SIZE visible messages, hidden from now on. *)
Receive(k, M) ==
  /\ At(k, "poll")
  /\ M # {} /\ M \subseteq {m \in visible : receives[m] < MaxReceive}
  /\ Cardinality(M) <= BATCH_SIZE
  /\ con' = [con EXCEPT ![k] = [pc |-> "batch", batch |-> Deliveries(M),
                                cur |-> NoMessage]]
  /\ receives' = [m \in Messages |-> IF m \in M THEN receives[m] + 1
                                                ELSE receives[m]]
  /\ visible' = visible \ M
  /\ UNCHANGED <<state, sends, objects, faults>>

(* The loop goes on to the next delivery of the batch, or polls again. *)
Forget(k, e) ==
  LET rest == con[k].batch \ {e}
  IN con' = [con EXCEPT ![k] = [pc |-> IF rest = {} THEN "poll" ELSE "batch",
                                batch |-> rest, cur |-> NoMessage]]

(* What processMessage does: a mail by SES, or an object named by the id. *)
Effect(m) ==
  IF m \in Mails
  THEN sends' = [sends EXCEPT ![m] = @ + 1] /\ UNCHANGED objects
  ELSE objects' = objects \cup {m} /\ UNCHANGED sends

NoEffect == UNCHANGED <<sends, objects>>

(* processMessage succeeds; DeleteMessage is next. *)
Process(k, e) ==
  /\ At(k, "batch") /\ e \in con[k].batch
  /\ e.id \notin Poison
  /\ Effect(e.id)
  /\ con' = [con EXCEPT ![k].pc = "delete", ![k].cur = e.id]
  /\ UNCHANGED <<state, visible, receives, faults>>

(* A loop that insists on a message until it is processed. *)
ProcessFailsInsisting(k, e) ==
  /\ At(k, "batch") /\ e \in con[k].batch
  /\ IF e.id \in Poison THEN NoEffect /\ UNCHANGED faults
                        ELSE (Effect(e.id) \/ NoEffect) /\ Fault
  /\ UNCHANGED con
  /\ UNCHANGED <<state, visible, receives>>

(* A catch that forgets why the message must stay, and deletes it. *)
ProcessFailsDeleting(k, e) ==
  /\ At(k, "batch") /\ e \in con[k].batch
  /\ IF e.id \in Poison THEN UNCHANGED faults ELSE Fault
  /\ con' = [con EXCEPT ![k].pc = "delete", ![k].cur = e.id]
  /\ NoEffect
  /\ UNCHANGED <<state, visible, receives>>

(* processMessage throws, and the message is left in the queue.  A call    *)
(* that fails may have had its effect: the answer was lost.                *)
ProcessFails(k, e) ==
  /\ At(k, "batch") /\ e \in con[k].batch
  /\ IF e.id \in Poison THEN NoEffect /\ UNCHANGED faults
                        ELSE (Effect(e.id) \/ NoEffect) /\ Fault
  /\ Forget(k, e)
  /\ UNCHANGED <<state, visible, receives>>

(* DeleteMessage: an old receipt deletes the message or does nothing. *)
Delete(k, e) ==
  /\ At(k, "delete") /\ e \in con[k].batch /\ e.id = con[k].cur
  /\ \/ /\ state' = [state EXCEPT ![e.id] = IF @ = "queued" THEN "deleted" ELSE @]
        /\ visible' = visible \ {e.id}
     \/ e.receipt # receives[e.id] /\ UNCHANGED <<state, visible>>
  /\ Forget(k, e)
  /\ UNCHANGED <<receives, sends, objects, faults>>

(* DeleteMessage throws, and the catch leaves the message in the queue. *)
DeleteFails(k, e) ==
  /\ At(k, "delete") /\ e \in con[k].batch /\ e.id = con[k].cur
  /\ Fault
  /\ Forget(k, e)
  /\ UNCHANGED <<state, visible, receives, sends, objects>>

(* The replica dies or is scaled in; another starts polling in its place. *)
Die(k) ==
  /\ ~At(k, "poll")
  /\ Fault
  /\ con' = [con EXCEPT ![k] = Polling]
  /\ UNCHANGED <<state, visible, receives, sends, objects>>

-----------------------------------------------------------------------------
Work(k) ==
  \E e \in con[k].batch :
    Process(k, e) \/ ProcessFails(k, e) \/ Delete(k, e) \/ DeleteFails(k, e)

Poll(k) == \E M \in SUBSET Messages : Receive(k, M)

Queue(m) == Enqueue(m) \/ Reappear(m) \/ Redrive(m)

Next ==
  \/ \E m \in Messages : Queue(m)
  \/ \E k \in Consumers : Poll(k) \/ Work(k) \/ Die(k)

Spec == Init /\ [][Next]_vars

(***************************************************************************)
(* A consumer goes on with its batch and, when it has none, polls; a       *)
(* hidden message reappears.  That a poll returns every visible message in *)
(* the end is SQS's promise: strong fairness, as other messages may come   *)
(* first, and m is hidden and visible by turns.                            *)
(***************************************************************************)
FairSpec ==
  /\ Spec
  /\ \A k \in Consumers : WF_vars(Work(k))
  /\ \A m \in Messages :
       /\ SF_vars(\E k \in Consumers :
                    \E M \in SUBSET Messages : m \in M /\ Receive(k, M))
       /\ WF_vars(Reappear(m))
       /\ SF_vars(Redrive(m))

-----------------------------------------------------------------------------
(* Properties *)

Delivery == [id : Messages, receipt : 1 .. MaxReceive]

Locals ==
  [pc : {"poll", "batch", "delete"}, batch : SUBSET Delivery,
   cur : Messages \cup {NoMessage}]

(* The variables have their types, no message is delivered more often than *)
(* the redrive policy allows, and only queued messages are visible.        *)
TypeOK ==
  /\ state \in [Messages -> {"unsent", "queued", "deleted", "dead"}]
  /\ visible \subseteq {m \in Messages : state[m] = "queued"}
  /\ receives \in [Messages -> 0 .. MaxReceive]
  /\ sends \in [Messages -> Nat]
  /\ objects \subseteq Messages \ Mails
  /\ con \in [Consumers -> Locals]
  /\ faults \in 0 .. MaxFaults

Processed(m) == sends[m] > 0 \/ m \in objects

(* A message is deleted only when its mail is sent or its object written:  *)
(* no failure, death or old receipt loses one.                             *)
NothingIsLost ==
  \A m \in Messages : state[m] = "deleted" => Processed(m)

(* E4 6.4: at worst, a recipient gets a mail once per delivery, and so as  *)
(* many times as the redrive policy allows deliveries.  sends counts calls *)
(* of sendEmail.                                                           *)
DuplicatesAreBounded ==
  \A m \in Messages : sends[m] <= receives[m] /\ receives[m] <= MaxReceive

(* Every message that was accepted is deleted or dead-lettered in the end, *)
(* whatever fails and although a poison message shares its batches.        *)
EveryMessageSettles ==
  \A m \in Messages : state[m] = "queued" ~> state[m] \in {"deleted", "dead"}

(* A message that can be processed is, as long as failures are fewer than  *)
(* its deliveries: a poison message in the same batch does not stop it.    *)
GoodMessagesAreProcessed ==
  \A m \in Messages \ Poison : state[m] = "queued" ~> Processed(m)

(* ADR 0010: the consumer is idempotent by nature, so that a message that  *)
(* is delivered twice has its effect once.                                 *)
EachMailIsSentOnce == \A m \in Messages : sends[m] <= 1
=============================================================================
