---------------------- MODULE NotificationQueue_proofs ---------------------
(***************************************************************************)
(* Proofs about NotificationQueue, for any messages, replicas, batch size  *)
(* and redrive policy: no message is deleted unprocessed, and its mail     *)
(* goes out at most once per delivery.                                     *)
(***************************************************************************)
EXTENDS NotificationQueue, FiniteSetTheorems, TLAPS

(* A replica has a message in hand only while it deletes it, and by then   *)
(* the message is processed.                                               *)
InHand ==
  \A k \in Consumers :
    /\ At(k, "delete") => con[k].cur \in Messages /\ Processed(con[k].cur)
    /\ ~At(k, "delete") => con[k].cur = NoMessage

(* A receipt was given with some delivery of its message, to one replica,  *)
(* and a batch holds a message once.                                       *)
ReceiptsAreGiven ==
  \A k \in Consumers : \A e \in con[k].batch : e.receipt <= receives[e.id]

ReceiptsAreUnique ==
  \A k, o \in Consumers : \A e \in con[k].batch, d \in con[o].batch :
    e.id = d.id /\ (k = o \/ e.receipt = d.receipt) => k = o /\ e = d

(* The deliveries of m that may still send its mail.                       *)
Held(m, r) ==
  \E k \in Consumers :
    [id |-> m, receipt |-> r] \in con[k].batch /\ con[k].cur # m

Pending(m) == {r \in 1 .. MaxReceive : Held(m, r)}

(* A delivery sends the mail once or may still send it.                    *)
Budget == \A m \in Messages : sends[m] + Cardinality(Pending(m)) <= receives[m]

IInv ==
  /\ TypeOK /\ InHand /\ ReceiptsAreGiven /\ ReceiptsAreUnique /\ Budget
  /\ NothingIsLost

-----------------------------------------------------------------------------
(* Pending deliveries are finitely many.                                   *)
LEMMA PendingIsFinite ==
  \A m : IsFiniteSet(Pending(m)) /\ Cardinality(Pending(m)) \in Nat
<1> SUFFICES ASSUME NEW m
             PROVE  IsFiniteSet(Pending(m)) /\ Cardinality(Pending(m)) \in Nat
    OBVIOUS
<1>1. IsFiniteSet(1 .. MaxReceive)
      BY QueueAssumption, FS_Interval
<1>2. Pending(m) \in SUBSET (1 .. MaxReceive)
      BY DEF Pending
<1>3. IsFiniteSet(Pending(m))
      BY <1>1, <1>2, FS_Subset
<1> QED
  BY <1>3, FS_CardinalityType

(* A budget is kept when the pending deliveries of a message get fewer.    *)
LEMMA BudgetKept ==
  ASSUME Budget, TypeOK, TypeOK', NEW m \in Messages,
         sends'[m] = sends[m], receives'[m] = receives[m],
         Pending(m)' \subseteq Pending(m)
  PROVE  sends'[m] + Cardinality(Pending(m)') <= receives'[m]
<1> DEFINE P == Pending(m)
           Q == Pending(m)'
<1>1. IsFiniteSet(P) /\ Cardinality(P) \in Nat
      BY PendingIsFinite
<1>2. Q \in SUBSET P
      OBVIOUS
<1>3. sends[m] + Cardinality(P) <= receives[m]
      BY DEF Budget
<1>4. sends[m] \in Nat /\ receives[m] \in Int
      BY QueueAssumption DEF TypeOK
<1> HIDE DEF P, Q
<1>5. IsFiniteSet(Q) /\ Cardinality(Q) <= Cardinality(P)
      BY <1>1, <1>2, FS_Subset
<1>6. Cardinality(Q) \in Nat
      BY <1>5, FS_CardinalityType
<1>7. sends[m] + Cardinality(Q) <= receives[m]
      BY <1>1, <1>3, <1>4, <1>5, <1>6
<1> QED
  BY <1>7 DEF Q

(* One of them may send the mail.                                          *)
LEMMA BudgetSpent ==
  ASSUME Budget, TypeOK, TypeOK', NEW m \in Messages, NEW r \in Pending(m),
         sends'[m] = sends[m] + 1, receives'[m] = receives[m],
         Pending(m)' \subseteq Pending(m) \ {r}
  PROVE  sends'[m] + Cardinality(Pending(m)') <= receives'[m]
<1> DEFINE P == Pending(m)
           Q == Pending(m)'
           R == P \ {r}
<1>1. IsFiniteSet(P) /\ Cardinality(P) \in Nat /\ r \in P
      BY PendingIsFinite
<1>2. Q \in SUBSET R
      OBVIOUS
<1>3. sends[m] + Cardinality(P) <= receives[m]
      BY DEF Budget
<1>4. sends[m] \in Nat /\ receives[m] \in Int
      BY QueueAssumption DEF TypeOK
<1> HIDE DEF P, Q
<1>5. IsFiniteSet(R) /\ Cardinality(R) = Cardinality(P) - 1
      BY <1>1, FS_RemoveElement
<1> HIDE DEF R
<1>6. IsFiniteSet(Q) /\ Cardinality(Q) <= Cardinality(R)
      BY <1>2, <1>5, FS_Subset
<1>7. Cardinality(Q) \in Nat
      BY <1>6, FS_CardinalityType
<1>8. sends[m] + 1 + Cardinality(Q) <= receives[m]
      BY <1>1, <1>3, <1>4, <1>5, <1>6, <1>7
<1> QED
  BY <1>8 DEF Q

(* A new delivery adds one.                                                *)
LEMMA BudgetGranted ==
  ASSUME Budget, TypeOK, TypeOK', NEW m \in Messages, NEW r,
         sends'[m] = sends[m], receives'[m] = receives[m] + 1,
         Pending(m)' \subseteq Pending(m) \cup {r}
  PROVE  sends'[m] + Cardinality(Pending(m)') <= receives'[m]
<1> DEFINE P == Pending(m)
           Q == Pending(m)'
           R == P \cup {r}
<1>1. IsFiniteSet(P) /\ Cardinality(P) \in Nat
      BY PendingIsFinite
<1>2. Q \in SUBSET R
      OBVIOUS
<1>3. sends[m] + Cardinality(P) <= receives[m]
      BY DEF Budget
<1>4. sends[m] \in Nat /\ receives[m] \in Int
      BY QueueAssumption DEF TypeOK
<1> HIDE DEF P, Q
<1>5. IsFiniteSet(R) /\ Cardinality(R) <= Cardinality(P) + 1
  <2>1. /\ IsFiniteSet(R)
        /\ Cardinality(R) = IF r \in P THEN Cardinality(P) ELSE Cardinality(P) + 1
        BY <1>1, FS_AddElement
  <2> QED
    BY <1>1, <2>1
<1> HIDE DEF R
<1>6. IsFiniteSet(Q) /\ Cardinality(Q) <= Cardinality(R)
      BY <1>2, <1>5, FS_Subset
<1>7. Cardinality(Q) \in Nat /\ Cardinality(R) \in Nat
      BY <1>5, <1>6, FS_CardinalityType
<1>8. sends[m] + Cardinality(Q) <= receives[m] + 1
      BY <1>1, <1>3, <1>4, <1>5, <1>6, <1>7
<1> QED
  BY <1>8 DEF Q

-----------------------------------------------------------------------------
LEMMA InitIInv == Init => IInv
<1> SUFFICES ASSUME Init PROVE IInv
    OBVIOUS
<1>1. TypeOK
      BY QueueAssumption DEF Init, TypeOK, Polling, Locals
<1>2. InHand /\ ReceiptsAreGiven /\ ReceiptsAreUnique /\ NothingIsLost
      BY DEF Init, InHand, ReceiptsAreGiven, ReceiptsAreUnique, NothingIsLost,
             Polling, At
<1>3. Budget
  <2> SUFFICES ASSUME NEW m \in Messages
               PROVE  sends[m] + Cardinality(Pending(m)) <= receives[m]
      BY DEF Budget
  <2>1. Pending(m) = {}
        BY DEF Pending, Held, Init, Polling
  <2> QED
    BY <2>1, FS_EmptySet DEF Init
<1> QED
  BY <1>1, <1>2, <1>3 DEF IInv

(* What is processed stays so.                                             *)
LEMMA EffectTyped ==
  ASSUME TypeOK, NEW m \in Messages, Effect(m) \/ NoEffect
  PROVE  /\ sends' \in [Messages -> Nat] /\ objects' \subseteq Messages \ Mails
         /\ \A n \in Messages : Processed(n) => Processed(n)'
         /\ \A n \in Messages : n # m => sends'[n] = sends[n]
         /\ sends'[m] = sends[m] \/ sends'[m] = sends[m] + 1
         /\ Effect(m) => Processed(m)'
BY DEF TypeOK, Effect, NoEffect, Processed

(* SQS moves messages, and the replicas keep theirs.                       *)
LEMMA QueueStep ==
  ASSUME IInv, NEW m \in Messages, Queue(m) PROVE IInv'
<1>1. TypeOK'
      BY DEF IInv, TypeOK, Queue, Enqueue, Reappear, Redrive
<1>2. UNCHANGED <<receives, sends, objects, con>>
      BY DEF Queue, Enqueue, Reappear, Redrive
<1>3. NothingIsLost'
      BY DEF IInv, TypeOK, NothingIsLost, Processed, Queue, Enqueue, Reappear, Redrive
<1>4. InHand' /\ ReceiptsAreGiven' /\ ReceiptsAreUnique'
      BY <1>2 DEF IInv, InHand, ReceiptsAreGiven, ReceiptsAreUnique, At, Processed
<1>5. Budget'
      BY <1>2 DEF IInv, Budget, Pending, Held
<1> QED
  BY <1>1, <1>3, <1>4, <1>5 DEF IInv

-----------------------------------------------------------------------------
(* A replica whose batch shrinks leaves the others' receipts alone.        *)
LEMMA ReceiptsKept ==
  ASSUME TypeOK, ReceiptsAreGiven, ReceiptsAreUnique, UNCHANGED receives,
         NEW k \in Consumers, NEW x, con' = [con EXCEPT ![k] = x],
         x.batch \subseteq con[k].batch
  PROVE  ReceiptsAreGiven' /\ ReceiptsAreUnique'
<1>1. \A o \in Consumers : con'[o].batch \subseteq con[o].batch
      BY DEF TypeOK
<1>2. ReceiptsAreGiven'
      BY <1>1 DEF ReceiptsAreGiven
<1>3. ReceiptsAreUnique'
      BY <1>1 DEF ReceiptsAreUnique
<1> QED
  BY <1>2, <1>3

(* A replica goes on with a part of its batch: what it had processed stays *)
(* processed, and at most the delivery it let go has sent its mail.        *)
LEMMA WorkStep ==
  ASSUME IInv, NEW k \in Consumers, NEW x \in Locals,
         con' = [con EXCEPT ![k] = x], UNCHANGED receives,
         state' \in [Messages -> {"unsent", "queued", "deleted", "dead"}],
         visible' \subseteq {m \in Messages : state'[m] = "queued"},
         faults' \in 0 .. MaxFaults,
         sends' \in [Messages -> Nat], objects' \subseteq Messages \ Mails,
         \A m \in Messages : Processed(m) => Processed(m)',
         \A m \in Messages : state'[m] = "deleted" =>
            state[m] = "deleted" \/ Processed(m),
         x.batch \subseteq con[k].batch,
         x.pc = "delete" => x.cur \in Messages /\ Processed(x.cur)',
         x.pc # "delete" => x.cur = NoMessage,
         \A e \in x.batch : e.id # con[k].cur,
         \A m \in Messages :
            \/ sends'[m] = sends[m]
            \/ /\ sends'[m] = sends[m] + 1
               /\ \E e \in con[k].batch :
                    e.id = m /\ con[k].cur # m /\ (e \in x.batch => x.cur = m)
  PROVE  IInv'
<1>0. con[k] \in Locals /\ con'[k] = x
      BY DEF IInv, TypeOK
<1>1. TypeOK'
      BY DEF IInv, TypeOK
<1>2. NothingIsLost'
      BY DEF IInv, NothingIsLost
<1>3. ReceiptsAreGiven' /\ ReceiptsAreUnique'
      BY ReceiptsKept DEF IInv
<1>4. InHand'
  <2> SUFFICES ASSUME NEW o \in Consumers
               PROVE  /\ At(o, "delete")' =>
                           con'[o].cur \in Messages /\ Processed(con[o].cur)'
                      /\ ~At(o, "delete")' => con'[o].cur = NoMessage
      BY DEF InHand
  <2>1. CASE o = k
        BY <2>1, <1>0 DEF At, Processed
  <2>2. CASE o # k
    <3>1. con'[o] = con[o]
          BY <2>2 DEF IInv, TypeOK
    <3>2. At(o, "delete") => con[o].cur \in Messages /\ Processed(con[o].cur)
          BY DEF IInv, InHand
    <3>3. ~At(o, "delete") => con[o].cur = NoMessage
          BY DEF IInv, InHand
    <3> QED
      BY <3>1, <3>2, <3>3 DEF At, Processed
  <2> QED
    BY <2>1, <2>2
<1>5. ASSUME NEW m \in Messages, NEW r
      PROVE  Held(m, r)' => Held(m, r)
  <2> DEFINE e == [id |-> m, receipt |-> r]
  <2>1. e \in x.batch => e \in con[k].batch /\ con[k].cur # m
        OBVIOUS
  <2> QED
    BY <2>1 DEF Held, IInv, TypeOK
<1>6. Budget'
  <2> SUFFICES ASSUME NEW m \in Messages
               PROVE  sends'[m] + Cardinality(Pending(m)') <= receives'[m]
      BY DEF Budget
  <2>1. Pending(m)' \subseteq Pending(m)
        BY <1>5 DEF Pending
  <2>2. CASE sends'[m] = sends[m]
        BY <1>1, <2>1, <2>2, BudgetKept DEF IInv
  <2>3. CASE sends'[m] # sends[m]
    <3>1. PICK e \in con[k].batch :
            /\ e.id = m /\ con[k].cur # m
            /\ e \in x.batch => x.cur = m
            /\ sends'[m] = sends[m] + 1
          BY <2>3
    <3>2. e = [id |-> m, receipt |-> e.receipt] /\ e.receipt \in 1 .. MaxReceive
          BY <1>0, <3>1 DEF Locals, Delivery
    <3>3. e.receipt \in Pending(m)
          BY <3>1, <3>2 DEF Pending, Held
    <3>4. ASSUME Held(m, e.receipt)' PROVE FALSE
      <4>1. PICK o \in Consumers : e \in con'[o].batch /\ con'[o].cur # m
            BY <3>2, <3>4 DEF Held
      <4>2. e \in con[o].batch
            BY <4>1 DEF IInv, TypeOK
      <4>3. o = k
            BY <4>2 DEF IInv, ReceiptsAreUnique
      <4> QED
        BY <1>0, <3>1, <4>1, <4>3
    <3>5. Pending(m)' \subseteq Pending(m) \ {e.receipt}
          BY <2>1, <3>4 DEF Pending
    <3> QED
      BY <1>1, <3>1, <3>3, <3>5, BudgetSpent DEF IInv
  <2> QED
    BY <2>2, <2>3
<1> QED
  BY <1>1, <1>2, <1>3, <1>4, <1>6 DEF IInv

(* What Forget leaves in hand.                                             *)
LEMMA Forgotten ==
  ASSUME IInv, NEW k \in Consumers, NEW e \in con[k].batch, Forget(k, e)
  PROVE  \E x \in Locals :
           /\ con' = [con EXCEPT ![k] = x]
           /\ x.batch = con[k].batch \ {e}
           /\ x.pc # "delete" /\ x.cur = NoMessage
<1> DEFINE rest == con[k].batch \ {e}
           x == [pc |-> IF rest = {} THEN "poll" ELSE "batch",
                 batch |-> rest, cur |-> NoMessage]
<1>1. con[k] \in Locals
      BY DEF IInv, TypeOK
<1>2. x \in Locals
      BY <1>1 DEF Locals
<1>3. con' = [con EXCEPT ![k] = x]
      BY DEF Forget
<1> QED
  BY <1>2, <1>3

(* A message of the batch is processed, or its processing fails.           *)
LEMMA ProcessStep ==
  ASSUME IInv, NEW k \in Consumers, NEW e \in con[k].batch,
         Process(k, e) \/ ProcessFails(k, e)
  PROVE  IInv'
<1>1. con[k] \in Locals /\ e \in Delivery /\ e.id \in Messages
      BY DEF IInv, TypeOK, Locals, Delivery
<1>2. con[k].pc = "batch" /\ con[k].cur = NoMessage
      BY DEF IInv, InHand, Process, ProcessFails, At
<1>3. \A d \in con[k].batch : d.id # con[k].cur
      BY <1>1, <1>2, QueueAssumption DEF Locals, Delivery
<1>4. Effect(e.id) \/ NoEffect
      BY DEF Process, ProcessFails
<1>5. /\ UNCHANGED <<state, visible, receives>> /\ faults' \in 0 .. MaxFaults
      BY QueueAssumption DEF Process, ProcessFails, Fault, IInv, TypeOK
<1>6. /\ sends' \in [Messages -> Nat] /\ objects' \subseteq Messages \ Mails
      /\ \A n \in Messages : Processed(n) => Processed(n)'
      /\ \A n \in Messages : n # e.id => sends'[n] = sends[n]
      /\ sends'[e.id] = sends[e.id] \/ sends'[e.id] = sends[e.id] + 1
      /\ Effect(e.id) => Processed(e.id)'
      BY <1>1, <1>4, EffectTyped DEF IInv
<1>7. PICK x \in Locals :
        /\ con' = [con EXCEPT ![k] = x] /\ x.batch \subseteq con[k].batch
        /\ x.pc = "delete" => x.cur = e.id /\ Processed(e.id)'
        /\ x.pc # "delete" => x.cur = NoMessage
        /\ e \in x.batch => x.cur = e.id
  <2>1. CASE Process(k, e)
    <3> DEFINE x == [con[k] EXCEPT !.pc = "delete", !.cur = e.id]
    <3>1. x \in Locals /\ x.pc = "delete" /\ x.cur = e.id /\ x.batch = con[k].batch
          BY <1>1 DEF Locals
    <3>2. con' = [con EXCEPT ![k] = x] /\ Processed(e.id)'
          BY <2>1, <1>6 DEF Process
    <3> HIDE DEF x
    <3> QED
      BY <1>1, <3>1, <3>2
  <2>2. CASE ProcessFails(k, e)
    <3>1. Forget(k, e)
          BY <2>2 DEF ProcessFails
    <3> QED
      BY <3>1, Forgotten
  <2> QED
    BY <2>1, <2>2
<1>8. \A d \in x.batch : d.id # con[k].cur
      BY <1>3, <1>7
<1>9. \A m \in Messages :
        \/ sends'[m] = sends[m]
        \/ /\ sends'[m] = sends[m] + 1
           /\ \E d \in con[k].batch :
                d.id = m /\ con[k].cur # m /\ (d \in x.batch => x.cur = m)
      BY <1>3, <1>6, <1>7
<1>10. x.pc = "delete" => x.cur \in Messages /\ Processed(x.cur)'
      BY <1>1, <1>7 DEF Processed
<1> QED
  BY <1>5, <1>6, <1>7, <1>8, <1>9, <1>10, WorkStep DEF IInv, TypeOK

(* A message in hand is deleted, or its deletion fails.                    *)
LEMMA DeleteStep ==
  ASSUME IInv, NEW k \in Consumers, NEW e \in con[k].batch,
         Delete(k, e) \/ DeleteFails(k, e)
  PROVE  IInv'
<1>1. e.id \in Messages /\ e.id = con[k].cur /\ Processed(e.id)
      BY DEF IInv, InHand, Delete, DeleteFails, At
<1>2. PICK x \in Locals :
        /\ con' = [con EXCEPT ![k] = x]
        /\ x.batch = con[k].batch \ {e}
        /\ x.pc # "delete" /\ x.cur = NoMessage
      BY Forgotten DEF Delete, DeleteFails
<1>3. \A d \in x.batch : d.id # con[k].cur
      BY <1>1, <1>2 DEF IInv, ReceiptsAreUnique
<1>4. UNCHANGED <<receives, sends, objects>> /\ faults' \in 0 .. MaxFaults
      BY QueueAssumption DEF Delete, DeleteFails, Fault, IInv, TypeOK
<1>5. /\ state' \in [Messages -> {"unsent", "queued", "deleted", "dead"}]
      /\ visible' \subseteq {m \in Messages : state'[m] = "queued"}
      /\ \A m \in Messages : state'[m] = "deleted" =>
            state[m] = "deleted" \/ Processed(m)
      BY <1>1 DEF Delete, DeleteFails, IInv, TypeOK
<1>6. \A m \in Messages : Processed(m) => Processed(m)'
      BY <1>4 DEF Processed
<1>7. sends' \in [Messages -> Nat] /\ objects' \subseteq Messages \ Mails
      BY <1>4 DEF IInv, TypeOK
<1> QED
  BY <1>2, <1>3, <1>4, <1>5, <1>6, <1>7, WorkStep

(* A replica dies, and its receipts with it.                               *)
LEMMA DieStep == ASSUME IInv, NEW k \in Consumers, Die(k) PROVE IInv'
<1>1. /\ Polling \in Locals /\ Polling.batch = {}
      /\ Polling.pc # "delete" /\ Polling.cur = NoMessage
      BY DEF Polling, Locals
<1>2. /\ con' = [con EXCEPT ![k] = Polling]
      /\ UNCHANGED <<state, visible, receives, sends, objects>>
      /\ faults' \in 0 .. MaxFaults
      BY QueueAssumption DEF Die, Fault, IInv, TypeOK
<1>3. \A m \in Messages : Processed(m) => Processed(m)'
      BY <1>2 DEF Processed
<1> QED
  BY <1>1, <1>2, <1>3, WorkStep DEF IInv, TypeOK

(* A replica that holds nothing receives: every receipt it gets is the     *)
(* highest of its message.                                                 *)
LEMMA ReceiveStep ==
  ASSUME IInv, NEW k \in Consumers, NEW M \in SUBSET Messages, Receive(k, M)
  PROVE  IInv'
<1> USE QueueAssumption DEF IInv
<1>1. /\ M \subseteq Messages /\ \A m \in M : receives[m] < MaxReceive
      /\ con' = [con EXCEPT ![k] = [pc |-> "batch", batch |-> Deliveries(M),
                                    cur |-> NoMessage]]
      /\ UNCHANGED <<state, sends, objects, faults>>
      /\ visible' \subseteq visible
      BY DEF Receive
<1>2. \A m \in Messages :
        /\ receives[m] \in 0 .. MaxReceive
        /\ receives'[m] = IF m \in M THEN receives[m] + 1 ELSE receives[m]
      BY DEF Receive, TypeOK
<1>3. /\ con'[k].batch = Deliveries(M) /\ con'[k].pc = "batch"
      /\ con'[k].cur = NoMessage
      /\ \A o \in Consumers : o # k => con'[o] = con[o]
      BY <1>1 DEF TypeOK
<1>4. \A e \in Deliveries(M) :
        /\ e.id \in M /\ e.receipt = receives[e.id] + 1
        /\ e = [id |-> e.id, receipt |-> e.receipt]
      BY DEF Deliveries
<1>5. TypeOK'
  <2>1. \A e \in Deliveries(M) : e \in Delivery
        BY <1>1, <1>2 DEF Deliveries, Delivery
  <2>2. [pc |-> "batch", batch |-> Deliveries(M), cur |-> NoMessage] \in Locals
        BY <2>1 DEF Locals
  <2>3. con' \in [Consumers -> Locals]
        BY <1>1, <2>2 DEF TypeOK
  <2>4. receives' \in [Messages -> 0 .. MaxReceive]
    <3>1. \A m \in Messages : receives'[m] \in 0 .. MaxReceive
          BY <1>1, <1>2
    <3> QED
      BY <3>1 DEF Receive
  <2> QED
    BY <1>1, <2>3, <2>4 DEF TypeOK
<1>6. InHand'
  <2> SUFFICES ASSUME NEW o \in Consumers
               PROVE  /\ At(o, "delete")' =>
                           con'[o].cur \in Messages /\ Processed(con[o].cur)'
                      /\ ~At(o, "delete")' => con'[o].cur = NoMessage
      BY DEF InHand
  <2>1. CASE o = k
        BY <1>3, <2>1 DEF At
  <2>2. CASE o # k
    <3>1. At(o, "delete") => con[o].cur \in Messages /\ Processed(con[o].cur)
          BY DEF InHand
    <3>2. ~At(o, "delete") => con[o].cur = NoMessage
          BY DEF InHand
    <3> QED
      BY <1>1, <1>3, <2>2, <3>1, <3>2 DEF At, Processed
  <2> QED
    BY <2>1, <2>2
<1>7. \A o \in Consumers : \A e \in con[o].batch :
        e \in Delivery /\ e.receipt \in Nat /\ e.receipt <= receives[e.id]
      BY DEF TypeOK, Locals, Delivery, ReceiptsAreGiven
<1>8. ReceiptsAreGiven'
  <2> SUFFICES ASSUME NEW o \in Consumers, NEW e \in con'[o].batch
               PROVE  e.receipt <= receives'[e.id]
      BY DEF ReceiptsAreGiven
  <2>1. CASE o = k
        BY <1>1, <1>2, <1>3, <1>4, <2>1
  <2>2. CASE o # k
    <3>1. e \in con[o].batch /\ e.id \in Messages
          BY <1>3, <1>7, <2>2 DEF Delivery
    <3> QED
      BY <1>2, <1>7, <3>1
  <2> QED
    BY <2>1, <2>2
<1>9. ReceiptsAreUnique'
  <2> SUFFICES ASSUME NEW o \in Consumers, NEW p \in Consumers,
                      NEW e \in con'[o].batch, NEW d \in con'[p].batch,
                      e.id = d.id, o = p \/ e.receipt = d.receipt
               PROVE  o = p /\ e = d
      BY DEF ReceiptsAreUnique
  <2>1. CASE o = k /\ p = k
        BY <1>3, <1>4, <2>1
  <2>2. CASE o # k /\ p # k
        BY <1>3, <2>2 DEF ReceiptsAreUnique
  <2>3. CASE o = k /\ p # k
        BY <1>1, <1>2, <1>3, <1>4, <1>7, <2>3
  <2>4. CASE o # k /\ p = k
        BY <1>1, <1>2, <1>3, <1>4, <1>7, <2>4
  <2> QED
    BY <2>1, <2>2, <2>3, <2>4
<1>10. ASSUME NEW m \in Messages, NEW r
       PROVE  Held(m, r)' => Held(m, r) \/ (m \in M /\ r = receives[m] + 1)
  <2> SUFFICES ASSUME Held(m, r)'
               PROVE  Held(m, r) \/ (m \in M /\ r = receives[m] + 1)
      OBVIOUS
  <2>1. PICK o \in Consumers :
          [id |-> m, receipt |-> r] \in con'[o].batch /\ con'[o].cur # m
        BY DEF Held
  <2>2. CASE o = k
        BY <1>3, <1>4, <2>1, <2>2
  <2>3. CASE o # k
        BY <1>3, <2>1, <2>3 DEF Held
  <2> QED
    BY <2>2, <2>3
<1>11. Budget'
  <2> SUFFICES ASSUME NEW m \in Messages
               PROVE  sends'[m] + Cardinality(Pending(m)') <= receives'[m]
      BY DEF Budget
  <2>1. CASE m \in M
    <3>1. Pending(m)' \subseteq Pending(m) \cup {receives[m] + 1}
          BY <1>10 DEF Pending
    <3> QED
      BY <1>1, <1>2, <1>5, <2>1, <3>1, BudgetGranted
  <2>2. CASE m \notin M
    <3>1. Pending(m)' \subseteq Pending(m)
          BY <1>10, <2>2 DEF Pending
    <3> QED
      BY <1>1, <1>2, <1>5, <2>2, <3>1, BudgetKept
  <2> QED
    BY <2>1, <2>2
<1>12. NothingIsLost'
       BY <1>1 DEF NothingIsLost, Processed
<1> QED
  BY <1>5, <1>6, <1>8, <1>9, <1>11, <1>12

-----------------------------------------------------------------------------
LEMMA Stuttering == ASSUME IInv, UNCHANGED vars PROVE IInv'
<1>1. Budget'
      BY DEF IInv, Budget, Pending, Held, vars
<1> QED
  BY <1>1 DEF IInv, TypeOK, InHand, ReceiptsAreGiven, ReceiptsAreUnique,
              NothingIsLost, Processed, At, vars

(* IInv holds at the start, and no delivery, failure or death ends it.     *)
THEOREM Invariance == Spec => []IInv
<1>1. ASSUME IInv, Next PROVE IInv'
  <2>1. ASSUME NEW k \in Consumers, Poll(k) PROVE IInv'
        BY <1>1, <2>1, ReceiveStep DEF Poll
  <2>2. ASSUME NEW k \in Consumers, Work(k) PROVE IInv'
        BY <1>1, <2>2, ProcessStep, DeleteStep DEF Work
  <2> QED
    BY <1>1, <2>1, <2>2, QueueStep, DieStep DEF Next
<1>2. IInv /\ [Next]_vars => IInv'
      BY <1>1, Stuttering
<1> QED
  BY InitIInv, <1>2, PTL DEF Spec

(* The types, for any number of replicas: no message is delivered more     *)
(* often than the redrive policy allows, and only a queued one is visible. *)
THEOREM TypeCorrect == Spec => []TypeOK
<1>1. IInv => TypeOK
      BY DEF IInv
<1> QED
  BY <1>1, Invariance, PTL

(* No failure, death or old receipt has a message deleted unprocessed.     *)
THEOREM NoMessageIsLost == Spec => []NothingIsLost
<1>1. IInv => NothingIsLost
      BY DEF IInv
<1> QED
  BY <1>1, Invariance, PTL

(* A mail goes out at most once per delivery of its message, and so at     *)
(* most as often as the redrive policy allows deliveries.                  *)
THEOREM MailsAreBounded == Spec => []DuplicatesAreBounded
<1>1. IInv => DuplicatesAreBounded
  <2> SUFFICES ASSUME IInv, NEW m \in Messages
               PROVE  sends[m] <= receives[m] /\ receives[m] <= MaxReceive
      BY DEF DuplicatesAreBounded
  <2>1. sends[m] \in Nat /\ receives[m] \in 0 .. MaxReceive
        BY DEF IInv, TypeOK
  <2>2. sends[m] + Cardinality(Pending(m)) <= receives[m]
        BY DEF IInv, Budget
  <2>3. Cardinality(Pending(m)) \in Nat
        BY PendingIsFinite
  <2> QED
    BY <2>1, <2>2, <2>3, QueueAssumption
<1> QED
  BY <1>1, Invariance, PTL
=============================================================================
