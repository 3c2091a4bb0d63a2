-------------------------- MODULE WebLists_proofs ---------------------------
(***************************************************************************)
(* What the lists of the API promise to the pages that walk them, and what *)
(* the pages that list tickets make of it: the queue, the board and the    *)
(* reports.                                                                *)
(*                                                                         *)
(* A page of rows is in order, comes after its cursor, is no longer than   *)
(* its limit, and leaves out no row before its next cursor, as long as the *)
(* row of the cursor it was read from is still in the list.  A row that    *)
(* leaves the list takes the first row after it along: this is why the     *)
(* invariants of the walks below say where the rows were, and promise a    *)
(* row only when none moved.                                               *)
(***************************************************************************)
EXTENDS WebPages, FiniteSetTheorems, SequenceTheorems, TLAPS

(* A non-empty set of numbers has a least one. *)
LEMMA LeastIsLeast ==
  ASSUME NEW S, S \subseteq Nat, S # {}
  PROVE  Least(S) \in S /\ \A u \in S : Least(S) <= u
<1> DEFINE R == {p \in Nat \X Nat : p[1] < p[2]}
<1>1. IsWellFoundedOn(R, Nat)
  BY NatLessThanWellFounded DEF OpToRel
<1>2. PICK x \in S : \A y \in S : ~ (<<y, x>> \in R)
  BY <1>1, WFMin
<1>3. \A y \in S : y \in Nat
  OBVIOUS
<1>4. ASSUME NEW y \in S, y < x
      PROVE  FALSE
  <2>1. <<y, x>> \in Nat \X Nat /\ <<y, x>>[1] = y /\ <<y, x>>[2] = x
    BY <1>3
  <2>2. <<y, x>> \in R
    BY <2>1, <1>4
  <2> QED BY <1>2, <2>2
<1>5. \A y \in S : x <= y
  BY <1>3, <1>4
<1> HIDE DEF R
<1> QED BY <1>5 DEF Least

(* A smaller set has fewer elements. *)
LEMMA StrictSubset ==
  ASSUME NEW S, IsFiniteSet(S), NEW T, T \subseteq S, NEW x \in S, x \notin T
  PROVE  /\ IsFiniteSet(T)
         /\ Cardinality(T) \in Nat /\ Cardinality(S) \in Nat
         /\ Cardinality(T) < Cardinality(S)
<1>1. /\ IsFiniteSet(T) /\ Cardinality(T) <= Cardinality(S)
      /\ Cardinality(S) = Cardinality(T) => S = T
  BY FS_Subset
<1>2. Cardinality(T) \in Nat /\ Cardinality(S) \in Nat
  BY <1>1, FS_CardinalityType
<1> QED BY <1>1, <1>2

(* A non-empty finite set of numbers has a greatest one. *)
LEMMA GreatestExists ==
  ASSUME NEW S, S \subseteq Nat, S # {}, IsFiniteSet(S)
  PROVE  \E m \in S : \A u \in S : u <= m
<1> DEFINE above(t) == {u \in S : t < u}
           D == {Cardinality(above(t)) : t \in S}
<1>1. \A t \in S : IsFiniteSet(above(t)) /\ Cardinality(above(t)) \in Nat
  BY FS_Subset, FS_CardinalityType
<1>2. D \subseteq Nat /\ D # {}
  BY <1>1
<1>0. \A t \in S : t \in Nat
  OBVIOUS
<1>3. PICK m \in S : Cardinality(above(m)) = Least(D)
  BY <1>2, LeastIsLeast
<1>4. ASSUME NEW u \in S, m < u
      PROVE  FALSE
  <2>0. ~ (u < u) /\ \A w \in S : u < w => m < w
    BY <1>0, <1>4
  <2>1. above(u) \subseteq above(m) /\ u \in above(m) /\ u \notin above(u)
    BY <1>4, <2>0
  <2>2. Cardinality(above(u)) < Cardinality(above(m))
    BY <2>1, <1>1, StrictSubset
  <2>3. Least(D) <= Cardinality(above(u))
    BY <1>2, LeastIsLeast
  <2> HIDE DEF above
  <2> QED BY <2>2, <2>3, <1>1, <1>3
<1> QED BY <1>4

-----------------------------------------------------------------------------
(* Ordered lists the elements of its set in increasing order. *)
LEMMA OrderedExists ==
  ASSUME NEW S, S \subseteq Nat, IsFiniteSet(S)
  PROVE  \E ids \in [1 .. Cardinality(S) -> S] : Increasing(ids)
<1> DEFINE n == Cardinality(S)
           upTo(t) == {u \in S : u <= t}
           rank == [t \in S |-> Cardinality(upTo(t))]
<1>0. \A t \in S : t \in Nat
  OBVIOUS
<1>1. n \in Nat /\ IsFiniteSet(1 .. n) /\ Cardinality(1 .. n) = n
  BY FS_CardinalityType, FS_Interval
<1>2. ASSUME NEW t \in S
      PROVE  rank[t] \in 1 .. n
  <2>1. upTo(t) \subseteq S /\ t \in upTo(t)
    OBVIOUS
  <2>2. /\ IsFiniteSet(upTo(t)) /\ Cardinality(upTo(t)) <= n
        /\ Cardinality(upTo(t)) \in Nat /\ Cardinality(upTo(t)) # 0
    BY <2>1, FS_Subset, FS_CardinalityType, FS_EmptySet
  <2> QED BY <1>1, <2>2
<1>3. ASSUME NEW t \in S, NEW v \in S, t < v
      PROVE  rank[t] < rank[v]
  <2>0. t \in Nat /\ v \in Nat /\ v <= v /\ ~ (v <= t)
    BY <1>0, <1>3
  <2>3. \A w \in S : w <= t => w <= v
    BY <1>0, <1>3
  <2>1. upTo(t) \subseteq upTo(v) /\ v \in upTo(v) /\ v \notin upTo(t)
    BY <2>0, <2>3
  <2>2. IsFiniteSet(upTo(v))
    BY FS_Subset
  <2> QED BY <2>1, <2>2, StrictSubset
<1> HIDE DEF rank, n
<1>4. rank \in Injection(S, 1 .. n)
  <2>1. rank \in [S -> 1 .. n]
    BY <1>2 DEF rank
  <2>2. \A t, v \in S : rank[t] = rank[v] => t = v
    <3> SUFFICES ASSUME NEW t \in S, NEW v \in S, t # v PROVE rank[t] # rank[v]
      OBVIOUS
    <3>1. t < v \/ v < t
      OBVIOUS
    <3>2. rank[t] \in Nat /\ rank[v] \in Nat
      BY <1>1, <1>2
    <3> QED BY <3>1, <3>2, <1>3
  <2> QED BY <2>1, <2>2 DEF Injection, IsInjective
<1>5. rank \in Surjection(S, 1 .. n)
  BY <1>1, <1>4, FS_Injection DEF n
<1> DEFINE ids == [i \in 1 .. n |-> CHOOSE t \in S : rank[t] = i]
<1>6. \A i \in 1 .. n : ids[i] \in S /\ rank[ids[i]] = i
  BY <1>5 DEF Surjection
<1>8. ids \in [1 .. n -> S] /\ DOMAIN ids = 1 .. n
  BY <1>6
<1> HIDE DEF ids
<1>7. ASSUME NEW i \in 1 .. n, NEW j \in 1 .. n, i < j
      PROVE  ids[i] < ids[j]
  <2>1. ids[i] \in Nat /\ ids[j] \in Nat
    BY <1>0, <1>6
  <2>4. ids[i] # ids[j]
    BY <1>6, <1>7
  <2>2. ~ (rank[ids[j]] < rank[ids[i]])
    BY <1>6, <1>7, <1>1
  <2>3. ~ (ids[j] < ids[i])
    BY <2>2, <1>6, <1>3
  <2> QED BY <2>1, <2>3, <2>4
<1>9. Increasing(ids)
  BY <1>7, <1>8 DEF Increasing
<1> QED BY <1>8, <1>9 DEF n

(* What Ordered returns: each element of the set once, in order. *)
LEMMA OrderedProperties ==
  ASSUME NEW S, S \subseteq Nat, IsFiniteSet(S)
  PROVE  /\ Ordered(S) \in Seq(S)
         /\ Len(Ordered(S)) = Cardinality(S)
         /\ Increasing(Ordered(S))
         /\ \A t \in S : \E i \in DOMAIN Ordered(S) : Ordered(S)[i] = t
<1> DEFINE n == Cardinality(S)
           ids == Ordered(S)
<1>1. n \in Nat /\ IsFiniteSet(1 .. n) /\ Cardinality(1 .. n) = n
  BY FS_CardinalityType, FS_Interval
<1>2. ids \in [1 .. n -> S] /\ Increasing(ids)
  BY OrderedExists DEF Ordered
<1> HIDE DEF ids, n
<1>3. ids \in Seq(S) /\ Len(ids) = n /\ DOMAIN ids = 1 .. n
  BY <1>1, <1>2
<1>4. ids \in Injection(1 .. n, S)
  <2>1. \A i, j \in 1 .. n : ids[i] = ids[j] => i = j
    <3> SUFFICES ASSUME NEW i \in 1 .. n, NEW j \in 1 .. n, i # j PROVE ids[i] # ids[j]
      OBVIOUS
    <3>1. i < j \/ j < i
      OBVIOUS
    <3>2. ids[i] \in Nat /\ ids[j] \in Nat
      BY <1>2
    <3> QED BY <3>1, <3>2, <1>2, <1>3 DEF Increasing
  <2> QED BY <1>2, <2>1 DEF Injection, IsInjective
<1>5. ids \in Surjection(1 .. n, S)
  BY <1>1, <1>4, FS_Injection DEF n
<1>6. \A t \in S : \E i \in 1 .. n : ids[i] = t
  BY <1>5 DEF Surjection
<1> QED BY <1>2, <1>3, <1>6 DEF ids, n

-----------------------------------------------------------------------------
(* What follows the cursor comes after it; all of it, if the cursor is     *)
(* there to be skipped.                                                    *)
LEMMA AfterProperties ==
  ASSUME NEW S, S \subseteq Nat \ {0}, NEW cursor \in Nat
  PROVE  /\ After(S, cursor) \subseteq S
         /\ \A t \in After(S, cursor) : cursor < t
         /\ cursor \in S \cup {NoCursor} => After(S, cursor) = {t \in S : cursor < t}
<1> DEFINE from == {t \in S : cursor <= t}
<1>0. \A t \in S : t \in Nat /\ 0 < t
  OBVIOUS
<1>1. CASE cursor = NoCursor
  BY <1>0, <1>1 DEF After, NoCursor
<1>2. CASE cursor # NoCursor /\ from = {}
  <2>1. After(S, cursor) = {}
    BY <1>2 DEF After
  <2>2. cursor \notin S \cup {NoCursor}
    BY <1>2
  <2> QED BY <2>1, <2>2
<1>3. CASE cursor # NoCursor /\ from # {}
  <2>1. After(S, cursor) = from \ {Least(from)}
    BY <1>3 DEF After
  <2> DEFINE least == Least(from)
  <2>2. least \in from /\ \A u \in from : least <= u
    BY <1>3, LeastIsLeast
  <2>3. from \subseteq S /\ \A t \in S : t \in from <=> cursor <= t
    OBVIOUS
  <2> HIDE DEF from, least
  <2>4. \A t \in from : t # least => cursor < t
    BY <2>2, <2>3, <1>0
  <2>5. cursor \in S \cup {NoCursor} => least = cursor
    BY <2>2, <2>3, <1>0, <1>3
  <2>6. \A t \in S : cursor < t => t \in from /\ t # cursor
    BY <2>3, <1>0
  <2>7. cursor \in S \cup {NoCursor} => from \ {least} = {t \in S : cursor < t}
    BY <2>3, <2>4, <2>5, <2>6
  <2> QED BY <2>1, <2>3, <2>4, <2>7 DEF least
<1> QED BY <1>1, <1>2, <1>3

(* The first elements of a set are no more than the limit, and all of them *)
(* if they are fewer.                                                      *)
LEMMA TakeProperties ==
  ASSUME NEW S, S \subseteq Nat, IsFiniteSet(S), NEW limit \in Nat \ {0}
  PROVE  /\ Take(S, limit) \subseteq S /\ IsFiniteSet(Take(S, limit))
         /\ Cardinality(Take(S, limit)) \in 0 .. limit
         /\ Cardinality(Take(S, limit)) < limit => Take(S, limit) = S
         /\ \A t \in Take(S, limit), u \in S : u < t => u \in Take(S, limit)
<1> DEFINE below(t) == {u \in S : u < t}
           T == Take(S, limit)
<1>0. \A t \in S : t \in Nat
  OBVIOUS
<1>1. \A t \in S : /\ IsFiniteSet(below(t)) /\ Cardinality(below(t)) \in Nat
                   /\ t \in T <=> Cardinality(below(t)) < limit
  BY FS_Subset, FS_CardinalityType DEF Take
<1>2. T \subseteq S
  BY DEF Take
<1>3. IsFiniteSet(T) /\ Cardinality(T) \in Nat
  BY <1>2, FS_Subset, FS_CardinalityType
<1> HIDE DEF T
<1>4. \A t \in T, u \in S : u < t => u \in T
  <2> SUFFICES ASSUME NEW t \in T, NEW u \in S, u < t
               PROVE  u \in T
    OBVIOUS
  <2>0. \A w \in S : w < u => w < t
    BY <1>0, <1>2
  <2>1. below(u) \subseteq below(t) /\ t \in S
    BY <1>2, <2>0
  <2>2. Cardinality(below(u)) <= Cardinality(below(t))
    BY <1>1, <2>1, FS_Subset
  <2> HIDE DEF below
  <2> QED BY <1>1, <2>1, <2>2
<1>5. Cardinality(T) <= limit
  <2>1. CASE T = {}
    BY <2>1, FS_EmptySet
  <2>2. CASE T # {}
    <3>1. PICK m \in T : \A u \in T : u <= m
      BY <1>0, <1>2, <1>3, <2>2, GreatestExists
    <3>2. m \in S /\ Cardinality(below(m)) < limit
      BY <1>1, <1>2
    <3>3. \A u \in T : u < m \/ u = m
      BY <3>1, <1>0, <1>2
    <3>4. T \subseteq below(m) \cup {m}
      BY <3>3, <1>2
    <3>5. m \notin below(m)
      BY <3>2, <1>0
    <3> HIDE DEF below
    <3>6. /\ IsFiniteSet(below(m) \cup {m})
          /\ Cardinality(below(m) \cup {m}) = Cardinality(below(m)) + 1
      BY <3>2, <3>5, <1>1, FS_AddElement
    <3>7. Cardinality(T) <= Cardinality(below(m) \cup {m})
      BY <3>4, <3>6, FS_Subset
    <3> QED BY <3>2, <3>6, <3>7, <1>1, <1>3
  <2> QED BY <2>1, <2>2
<1>6. ASSUME Cardinality(T) < limit
      PROVE  T = S
  <2> SUFFICES ASSUME S \ T # {} PROVE FALSE
    BY <1>2
  <2>1. S \ T \subseteq Nat
    BY <1>0
  <2>2. /\ Least(S \ T) \in S \ T
        /\ \A u \in S \ T : Least(S \ T) <= u
    BY <2>1, LeastIsLeast
  <2> DEFINE t == Least(S \ T)
  <2> HIDE DEF t
  <2>3. t \in S /\ t \notin T /\ \A u \in S : u \notin T => t <= u
    BY <2>2 DEF t
  <2>4. \A u \in S : u < t => u \in T
    BY <2>3, <1>0
  <2>5. below(t) \subseteq T
    BY <2>4
  <2>6. Cardinality(below(t)) <= Cardinality(T)
    BY <2>5, <1>3, FS_Subset
  <2> HIDE DEF below
  <2> QED BY <2>3, <2>6, <1>1, <1>3, <1>6
<1> QED BY <1>2, <1>3, <1>4, <1>5, <1>6 DEF T

-----------------------------------------------------------------------------
(* The ids of a page, and the cursor of the next one. *)
PageIds(S, cursor, limit) == Ordered(Take(After(S, cursor), limit))

(* A page that is full has its last row as its next cursor. *)
NextCursor(ids, limit) == IF Len(ids) = limit THEN ids[Len(ids)] ELSE NoCursor

(* A page is in order, after its cursor and within its limit; it stops at  *)
(* the next cursor, and leaves nothing out before it if its own cursor is  *)
(* still in the list.                                                      *)
PageIdsOK(S, cursor, limit, ids, next) ==
  /\ ids \in Seq(S) /\ Len(ids) <= limit /\ Increasing(ids)
  /\ \A i \in DOMAIN ids : cursor < ids[i]
  /\ next \in S \cup {NoCursor}
  /\ next # NoCursor => /\ cursor < next /\ ids # <<>>
                       /\ next = ids[Len(ids)]
                       /\ \A i \in DOMAIN ids : ids[i] <= next
  /\ cursor \in S \cup {NoCursor} =>
       \A t \in S : cursor < t /\ (next = NoCursor \/ t <= next) =>
                    \E i \in DOMAIN ids : ids[i] = t

(* A page has what PageIdsOK says, for every set, cursor and limit. *)
LEMMA PageIdsProperties ==
  ASSUME NEW S, S \subseteq Nat \ {0}, IsFiniteSet(S),
         NEW cursor \in Nat, NEW limit \in Nat \ {0}
  PROVE  PageIdsOK(S, cursor, limit, PageIds(S, cursor, limit),
                   NextCursor(PageIds(S, cursor, limit), limit))
<1> DEFINE ids == PageIds(S, cursor, limit)
           next == NextCursor(ids, limit)
<1> DEFINE A == After(S, cursor)
           T == Take(A, limit)
<1>0. \A t \in S : t \in Nat /\ 0 < t
  OBVIOUS
<1>1. /\ A \subseteq S /\ \A t \in A : cursor < t
      /\ cursor \in S \cup {NoCursor} => A = {t \in S : cursor < t}
  BY AfterProperties
<1>2. A \subseteq Nat /\ IsFiniteSet(A)
  BY <1>0, <1>1, FS_Subset
<1> HIDE DEF A
<1>3. /\ T \subseteq A /\ IsFiniteSet(T) /\ Cardinality(T) \in 0 .. limit
      /\ Cardinality(T) < limit => T = A
      /\ \A t \in T, u \in A : u < t => u \in T
  BY <1>2, TakeProperties
<1> HIDE DEF T, ids, next
<1>4. T \subseteq Nat
  BY <1>2, <1>3
<1>5. /\ ids \in Seq(T) /\ Len(ids) = Cardinality(T) /\ Increasing(ids)
      /\ \A t \in T : \E i \in DOMAIN ids : ids[i] = t
  BY <1>3, <1>4, OrderedProperties DEF ids, PageIds, T, A
<1>6. /\ DOMAIN ids = 1 .. Len(ids) /\ Len(ids) \in Nat
      /\ \A i \in DOMAIN ids : ids[i] \in T /\ ids[i] \in S /\ ids[i] \in Nat
  <2>1. DOMAIN ids = 1 .. Len(ids) /\ Len(ids) \in Nat
    BY <1>5, LenProperties
  <2>2. \A i \in DOMAIN ids : ids[i] \in T
    BY <2>1, <1>5, ElementOfSeq
  <2> QED BY <2>1, <2>2, <1>0, <1>1, <1>3
<1>7. ids \in Seq(S)
  BY <1>1, <1>3, <1>5, SeqMonotonic
<1>8. \A i \in DOMAIN ids : cursor < ids[i]
  BY <1>1, <1>3, <1>6
<1>9. ASSUME next # NoCursor
      PROVE  /\ next \in T /\ ids # <<>> /\ next = ids[Len(ids)]
             /\ Len(ids) \in DOMAIN ids
             /\ \A i \in DOMAIN ids : ids[i] <= next
  <2>5. Len(ids) = limit /\ next = ids[Len(ids)]
    BY <1>9 DEF NextCursor, next
  <2>1. Len(ids) = limit /\ next = ids[Len(ids)] /\ Len(ids) \in DOMAIN ids
    BY <2>5, <1>6
  <2>2. ids # <<>>
    BY <2>1
  <2>3. \A i \in DOMAIN ids : i = Len(ids) \/ i < Len(ids)
    BY <1>6
  <2>4. \A i \in DOMAIN ids : ids[i] <= next
    BY <2>1, <2>3, <1>5, <1>6 DEF Increasing
  <2> QED BY <2>1, <2>2, <2>4, <1>6
<1>10. ASSUME cursor \in S \cup {NoCursor},
              NEW t \in S, cursor < t, next = NoCursor \/ t <= next
       PROVE  \E i \in DOMAIN ids : ids[i] = t
  <2>1. t \in A
    BY <1>1, <1>10
  <2>2. CASE next = NoCursor
    <3>1. Len(ids) # limit
      <4> SUFFICES ASSUME Len(ids) = limit PROVE FALSE
        OBVIOUS
      <4>1. Len(ids) \in DOMAIN ids
        BY <1>6
      <4>2. ids[Len(ids)] = 0
        BY <2>2 DEF next, NextCursor, NoCursor
      <4> QED BY <4>1, <4>2, <1>0, <1>6
    <3>2. T = A
      BY <3>1, <1>3, <1>5
    <3> QED BY <2>1, <3>2, <1>5
  <2>3. CASE next # NoCursor
    <3>1. next \in T /\ next \in Nat /\ t \in Nat
      BY <1>9, <1>4, <1>0, <2>3
    <3>2. t < next \/ t = next
      BY <3>1, <1>10, <2>3
    <3>3. t \in T
      BY <3>1, <3>2, <2>1, <1>3
    <3> QED BY <3>3, <1>5
  <2> QED BY <2>2, <2>3
<1>11. next \in S \cup {NoCursor}
  BY <1>9, <1>1, <1>3
<1>12. next # NoCursor => cursor < next
  BY <1>9, <1>8
<1>13. Len(ids) <= limit
  BY <1>3, <1>5
<1> HIDE DEF PageIds
<1>14. PageIdsOK(S, cursor, limit, ids, next)
  BY <1>5, <1>7, <1>8, <1>9, <1>10, <1>11, <1>12, <1>13 DEF PageIdsOK
<1> QED BY <1>14 DEF ids, next

-----------------------------------------------------------------------------
(* Rows *)

(* The cursors a page may be asked for. *)
Cursors == Tickets \cup {NoCursor}

(* Rows are listed in the order of their tickets, none of them twice. *)
InOrder(rows) == \A i, j \in DOMAIN rows : i < j => rows[i].id < rows[j].id

(* The rows before a cursor, those after it, and whether one of them is    *)
(* t's.                                                                    *)
UpTo(rows, cursor) == \A i \in DOMAIN rows : rows[i].id <= cursor

Beyond(rows, cursor) == \A i \in DOMAIN rows : cursor < rows[i].id

Has(rows, t) == \E i \in DOMAIN rows : rows[i].id = t

(* The rows of the tickets. *)
RowOK == row \in [Tickets -> Ticket]

(* A row as an answer carries it. *)
LEMMA RowType ==
  ASSUME RowOK, NEW t \in Tickets
  PROVE  Row(t) \in Rows /\ Row(t).id = t /\ Row(t).status = row[t].status
         /\ Row(t).version = row[t].version
BY DEF RowOK, Row, Rows, Ticket

(* An empty list holds nothing, in order. *)
LEMMA NoRows ==
  /\ <<>> \in Seq(Rows) /\ InOrder(<<>>)
  /\ \A cursor : UpTo(<<>>, cursor)
  /\ \A t : ~ Has(<<>>, t)
<1>1. DOMAIN <<>> = {}
  OBVIOUS
<1> QED BY <1>1 DEF InOrder, UpTo, Has

(* Facts about the elements of a list of rows, for the provers. *)
LEMMA RowsOfSeq ==
  ASSUME NEW rows \in Seq(Rows), NEW i \in DOMAIN rows
  PROVE  rows[i] \in Rows /\ rows[i].id \in Tickets /\ rows[i].id \in Nat
<1>1. rows[i] \in Rows
  BY LenProperties, ElementOfSeq
<1> QED BY <1>1, ApiAssumption DEF Rows

(* Cursors are numbers. *)
LEMMA CursorType == Cursors \subseteq Nat /\ NoCursor \in Cursors
BY ApiAssumption DEF Cursors, NoCursor

(* What a page of the tickets in S promises: it is what PageIdsOK says,    *)
(* with the rows as they are.                                              *)
PageOK(S, cursor, limit, page) ==
  /\ page \in [items : Seq(Rows), nextCursor : Cursors]
  /\ InOrder(page.items) /\ Beyond(page.items, cursor)
  /\ \A i \in DOMAIN page.items :
       page.items[i].id \in S /\ page.items[i] = Row(page.items[i].id)
  /\ page.nextCursor \in S \cup {NoCursor}
  /\ page.nextCursor # NoCursor <=> Len(page.items) = limit
  /\ page.nextCursor # NoCursor =>
       cursor < page.nextCursor /\ UpTo(page.items, page.nextCursor)
  /\ cursor \in S \cup {NoCursor} =>
       \A t \in S :
         cursor < t /\ (page.nextCursor = NoCursor \/ t <= page.nextCursor)
           => Has(page.items, t)

(* Page keeps the promise. *)
LEMMA PageProperties ==
  ASSUME RowOK, NEW S, S \subseteq Tickets, NEW cursor \in Cursors,
         NEW limit \in Nat \ {0}
  PROVE  PageOK(S, cursor, limit, Page(S, cursor, limit))
<1> DEFINE page == Page(S, cursor, limit)
           ids == PageIds(S, cursor, limit)
           next == NextCursor(ids, limit)
<1>0. S \subseteq Nat \ {0} /\ IsFiniteSet(S) /\ cursor \in Nat
  BY ApiAssumption, FS_Subset, CursorType
<1>1. /\ ids \in Seq(S) /\ Len(ids) <= limit /\ Increasing(ids)
      /\ \A i \in DOMAIN ids : cursor < ids[i]
      /\ next \in S \cup {NoCursor}
      /\ next # NoCursor => /\ cursor < next /\ ids # <<>>
                           /\ next = ids[Len(ids)]
                           /\ \A i \in DOMAIN ids : ids[i] <= next
      /\ cursor \in S \cup {NoCursor} =>
           \A t \in S : cursor < t /\ (next = NoCursor \/ t <= next) =>
                        \E i \in DOMAIN ids : ids[i] = t
  <2>1. PageIdsOK(S, cursor, limit, ids, next)
    BY <1>0, PageIdsProperties
  <2> HIDE DEF ids, next
  <2> QED BY <2>1 DEF PageIdsOK
<1>2. page = [items |-> [i \in DOMAIN ids |-> Row(ids[i])], nextCursor |-> next]
  BY DEF Page, PageIds, NextCursor
<1>3. next # NoCursor <=> Len(ids) = limit
  <2>1. Len(ids) = limit => Len(ids) \in DOMAIN ids /\ ids[Len(ids)] \in S
    BY <1>1, LenProperties, ElementOfSeq
  <2> QED BY <2>1, <1>0 DEF next, NextCursor, NoCursor
<1> HIDE DEF ids, next
<1>4. /\ DOMAIN ids = 1 .. Len(ids) /\ Len(ids) \in Nat
      /\ \A i \in DOMAIN ids : ids[i] \in S /\ ids[i] \in Tickets
  <2>1. DOMAIN ids = 1 .. Len(ids) /\ Len(ids) \in Nat
    BY <1>1, LenProperties
  <2>2. \A i \in DOMAIN ids : ids[i] \in S
    BY <2>1, <1>1, ElementOfSeq
  <2> QED BY <2>1, <2>2
<1> DEFINE items == [i \in DOMAIN ids |-> Row(ids[i])]
<1>5. page.items = items /\ page.nextCursor = next
  BY <1>2
<1>6. /\ DOMAIN items = DOMAIN ids
      /\ \A i \in DOMAIN ids : items[i] = Row(ids[i]) /\ items[i].id = ids[i]
                             /\ items[i] \in Rows
  BY <1>4, RowType
<1>7. items \in [1 .. Len(ids) -> Rows]
  BY <1>4, <1>6
<1> HIDE DEF items, page
<1>8. items \in Seq(Rows) /\ Len(items) = Len(ids)
  BY <1>4, <1>7
<1>9. page \in [items : Seq(Rows), nextCursor : Cursors]
  BY <1>1, <1>2, <1>8 DEF Cursors, items
<1>10. InOrder(items)
  BY <1>1, <1>6 DEF InOrder, Increasing
<1>11. Beyond(items, cursor)
  BY <1>1, <1>6 DEF Beyond
<1>12. next # NoCursor => cursor < next /\ UpTo(items, next)
  BY <1>1, <1>6 DEF UpTo
<1>13. ASSUME cursor \in S \cup {NoCursor}, NEW t \in S, cursor < t,
              next = NoCursor \/ t <= next
       PROVE  Has(items, t)
  <2>1. PICK i \in DOMAIN ids : ids[i] = t
    BY <1>1, <1>13
  <2> QED BY <2>1, <1>6 DEF Has
<1>14. \A i \in DOMAIN items : items[i].id \in S /\ items[i] = Row(items[i].id)
  BY <1>4, <1>6
<1>15. PageOK(S, cursor, limit, page)
  BY <1>1, <1>3, <1>5, <1>8, <1>9, <1>10, <1>11, <1>12, <1>13, <1>14 DEF PageOK
<1> QED BY <1>15 DEF page

(* What a page that is appended to those before it makes of the list. *)
LEMMA AppendPage ==
  ASSUME NEW rows \in Seq(Rows), NEW items \in Seq(Rows), NEW cursor \in Nat,
         InOrder(rows), InOrder(items), UpTo(rows, cursor), Beyond(items, cursor)
  PROVE  /\ rows \o items \in Seq(Rows)
         /\ InOrder(rows \o items)
         /\ \A next \in Nat : cursor <= next /\ UpTo(items, next) => UpTo(rows \o items, next)
<1> DEFINE all == rows \o items
           m == Len(rows)
           n == Len(items)
<1>1. /\ all \in Seq(Rows) /\ Len(all) = m + n /\ m \in Nat /\ n \in Nat
      /\ \A k \in 1 .. m + n : all[k] = IF k <= m THEN rows[k] ELSE items[k - m]
  BY ConcatProperties, LenProperties
<1>2. DOMAIN all = 1 .. m + n /\ DOMAIN rows = 1 .. m /\ DOMAIN items = 1 .. n
  BY <1>1, LenProperties
<1>3. /\ \A k \in 1 .. m : rows[k] \in Rows /\ rows[k].id \in Nat
      /\ \A k \in 1 .. n : items[k] \in Rows /\ items[k].id \in Nat
  <2>1. \A r \in Rows : r.id \in Nat
    BY ApiAssumption DEF Rows
  <2> QED BY <2>1, ElementOfSeq
<1> HIDE DEF all, m, n
<1>4. ASSUME NEW i \in 1 .. m + n, NEW j \in 1 .. m + n, i < j
      PROVE  all[i].id < all[j].id
  <2>1. CASE j <= m
    <3>1. i \in 1 .. m /\ j \in 1 .. m /\ i <= m
      BY <2>1, <1>1, <1>4
    <3> QED BY <3>1, <2>1, <1>1, <1>2, <1>4 DEF InOrder
  <2>2. CASE i <= m /\ m < j
    <3>1. i \in 1 .. m /\ j - m \in 1 .. n /\ ~ (j <= m)
      BY <2>2, <1>1
    <3>2. all[i] = rows[i] /\ all[j] = items[j - m]
      BY <3>1, <2>2, <1>1
    <3>3. rows[i].id <= cursor /\ cursor < items[j - m].id
      BY <3>1, <1>2 DEF UpTo, Beyond
    <3> QED BY <3>1, <3>2, <3>3, <1>3
  <2>3. CASE m < i
    <3>1. i - m \in 1 .. n /\ j - m \in 1 .. n /\ ~ (j <= m) /\ ~ (i <= m) /\ i - m < j - m
      BY <2>3, <1>1, <1>4
    <3> QED BY <3>1, <1>1, <1>2 DEF InOrder
  <2> QED BY <2>1, <2>2, <2>3, <1>1
<1>5. ASSUME NEW next \in Nat, cursor <= next, UpTo(items, next),
             NEW k \in 1 .. m + n
      PROVE  all[k].id <= next
  <2>1. CASE k <= m
    <3>1. k \in 1 .. m
      BY <2>1, <1>1
    <3>2. rows[k].id <= cursor
      BY <3>1, <1>2 DEF UpTo
    <3> QED BY <3>1, <3>2, <2>1, <1>1, <1>3, <1>5
  <2>2. CASE m < k
    <3>1. k - m \in 1 .. n /\ ~ (k <= m)
      BY <2>2, <1>1
    <3> QED BY <3>1, <1>1, <1>2, <1>5 DEF UpTo
  <2> QED BY <2>1, <2>2, <1>1
<1> QED BY <1>1, <1>2, <1>4, <1>5 DEF InOrder, UpTo, all

(* A list with a page appended holds the rows of both. *)
LEMMA AppendHas ==
  ASSUME NEW rows \in Seq(Rows), NEW items \in Seq(Rows)
  PROVE  /\ \A k \in DOMAIN (rows \o items) :
              \/ \E i \in DOMAIN rows : (rows \o items)[k] = rows[i]
              \/ \E i \in DOMAIN items : (rows \o items)[k] = items[i]
         /\ \A t : Has(rows \o items, t) <=> Has(rows, t) \/ Has(items, t)
<1> DEFINE all == rows \o items
           m == Len(rows)
           n == Len(items)
<1>1. /\ all \in Seq(Rows) /\ Len(all) = m + n /\ m \in Nat /\ n \in Nat
      /\ \A k \in 1 .. m + n : all[k] = IF k <= m THEN rows[k] ELSE items[k - m]
  BY ConcatProperties, LenProperties
<1>2. DOMAIN all = 1 .. m + n /\ DOMAIN rows = 1 .. m /\ DOMAIN items = 1 .. n
  BY <1>1, LenProperties
<1> HIDE DEF all, m, n
<1>3. ASSUME NEW k \in 1 .. m + n
      PROVE  \/ \E i \in 1 .. m : all[k] = rows[i]
             \/ \E i \in 1 .. n : all[k] = items[i]
  <2>1. CASE k <= m
    <3>1. k \in 1 .. m /\ all[k] = rows[k]
      BY <2>1, <1>1
    <3> QED BY <3>1
  <2>2. CASE ~ (k <= m)
    <3>1. k - m \in 1 .. n /\ all[k] = items[k - m]
      BY <2>2, <1>1
    <3> QED BY <3>1
  <2> QED BY <2>1, <2>2
<1>4. \A i \in 1 .. m : i \in 1 .. m + n /\ all[i] = rows[i]
  BY <1>1
<1>5. \A i \in 1 .. n : i + m \in 1 .. m + n /\ all[i + m] = items[i]
  <2> SUFFICES ASSUME NEW i \in 1 .. n
               PROVE  i + m \in 1 .. m + n /\ all[i + m] = items[i]
    OBVIOUS
  <2>1. i + m \in 1 .. m + n /\ ~ (i + m <= m) /\ i + m - m = i
    BY <1>1
  <2> QED BY <2>1, <1>1
<1>6. ASSUME NEW t
      PROVE  Has(all, t) <=> Has(rows, t) \/ Has(items, t)
  <2>1. Has(all, t) => Has(rows, t) \/ Has(items, t)
    BY <1>2, <1>3 DEF Has
  <2>2. Has(rows, t) => Has(all, t)
    BY <1>2, <1>4 DEF Has
  <2>3. Has(items, t) => Has(all, t)
    BY <1>2, <1>5 DEF Has
  <2> QED BY <2>1, <2>2, <2>3
<1> QED BY <1>2, <1>3, <1>6 DEF all

(* A list that holds a ticket in no two places holds it once or not at all. *)
LEMMA Once ==
  ASSUME NEW rows \in Seq(Rows), NEW t,
         \A i, j \in DOMAIN rows : rows[i].id = t /\ rows[j].id = t => i = j
  PROVE  Cardinality({i \in DOMAIN rows : rows[i].id = t}) = IF Has(rows, t) THEN 1 ELSE 0
<1> DEFINE places == {i \in DOMAIN rows : rows[i].id = t}
<1>1. CASE Has(rows, t)
  <2>1. PICK i \in DOMAIN rows : rows[i].id = t
    BY <1>1 DEF Has
  <2>2. places = {i}
    BY <2>1
  <2> QED BY <2>2, <1>1, FS_Singleton
<1>2. CASE ~ Has(rows, t)
  <2>1. places = {}
    BY <1>2 DEF Has
  <2> QED BY <2>1, <1>2, FS_EmptySet
<1> QED BY <1>1, <1>2

(* A row that is in an ordered list is at one place of it. *)
LEMMA InOrderOnce ==
  ASSUME NEW rows \in Seq(Rows), InOrder(rows), NEW i \in DOMAIN rows, NEW j \in DOMAIN rows,
         rows[i].id = rows[j].id
  PROVE  i = j
<1> SUFFICES ASSUME i # j PROVE FALSE
  OBVIOUS
<1>1. i < j \/ j < i
  BY LenProperties
<1>2. rows[i].id \in Nat /\ rows[j].id \in Nat
  BY RowsOfSeq
<1>3. rows[i].id < rows[j].id \/ rows[j].id < rows[i].id
  BY <1>1 DEF InOrder
<1> QED BY <1>2, <1>3

(* So a ticket is counted once, or not at all. *)
LEMMA OnceInOrder ==
  ASSUME NEW rows \in Seq(Rows), InOrder(rows), NEW t
  PROVE  Cardinality({i \in DOMAIN rows : rows[i].id = t}) = IF Has(rows, t) THEN 1 ELSE 0
<1>1. \A i, j \in DOMAIN rows : rows[i].id = t /\ rows[j].id = t => i = j
  BY InOrderOnce
<1> QED BY <1>1, Once

(* Two lists in order, of which one holds t at most. *)
LEMMA OnceInEither ==
  ASSUME NEW rows \in Seq(Rows), NEW items \in Seq(Rows), InOrder(rows), InOrder(items),
         NEW t, ~ (Has(rows, t) /\ Has(items, t))
  PROVE  LET all == rows \o items
         IN Cardinality({i \in DOMAIN all : all[i].id = t}) = IF Has(all, t) THEN 1 ELSE 0
<1> DEFINE all == rows \o items
           m == Len(rows)
           n == Len(items)
<1>1. /\ all \in Seq(Rows) /\ Len(all) = m + n /\ m \in Nat /\ n \in Nat
      /\ \A k \in 1 .. m + n : all[k] = IF k <= m THEN rows[k] ELSE items[k - m]
  BY ConcatProperties, LenProperties
<1>2. DOMAIN all = 1 .. m + n /\ DOMAIN rows = 1 .. m /\ DOMAIN items = 1 .. n
  BY <1>1, LenProperties
<1> HIDE DEF all, m, n
<1>3. ASSUME NEW i \in 1 .. m + n, NEW j \in 1 .. m + n, all[i].id = t, all[j].id = t
      PROVE  i = j
  <2>1. \A k \in 1 .. m + n :
          /\ k <= m => k \in DOMAIN rows /\ all[k] = rows[k]
          /\ ~ (k <= m) => k - m \in DOMAIN items /\ all[k] = items[k - m]
    BY <1>1, <1>2
  <2>2. (i <= m) <=> (j <= m)
    BY <2>1, <1>3 DEF Has
  <2>3. CASE i <= m
    BY <2>1, <2>2, <2>3, <1>3, InOrderOnce
  <2>4. CASE ~ (i <= m)
    <3>1. i - m = j - m
      BY <2>1, <2>2, <2>4, <1>3, InOrderOnce
    <3> QED BY <3>1, <1>1
  <2> QED BY <2>3, <2>4
<1>4. Cardinality({i \in DOMAIN all : all[i].id = t}) = IF Has(all, t) THEN 1 ELSE 0
  <2>1. \A i, j \in DOMAIN all : all[i].id = t /\ all[j].id = t => i = j
    BY <1>2, <1>3
  <2>2. all \in Seq(Rows)
    BY <1>1
  <2> QED BY <2>1, <2>2, Once
<1> QED BY <1>4 DEF all

(* A list in order of tickets of S is no longer than S, and holds all of S *)
(* if it is as long.                                                       *)
LEMMA LongEnough ==
  ASSUME NEW rows \in Seq(Rows), InOrder(rows), NEW S, S \subseteq Tickets,
         \A i \in DOMAIN rows : rows[i].id \in S
  PROVE  /\ Cardinality(S) \in Nat /\ Len(rows) \in Nat
         /\ Len(rows) <= Cardinality(S)
         /\ Len(rows) = Cardinality(S) => \A t \in S : Has(rows, t)
<1> DEFINE n == Len(rows)
           id == [i \in 1 .. n |-> rows[i].id]
<1>1. DOMAIN rows = 1 .. n /\ n \in Nat
  BY LenProperties
<1> HIDE DEF n
<1>2. /\ IsFiniteSet(S) /\ Cardinality(S) \in Nat
      /\ IsFiniteSet(1 .. n) /\ Cardinality(1 .. n) = n
  <2>1. IsFiniteSet(S) /\ Cardinality(S) \in Nat
    BY ApiAssumption, FS_Subset, FS_CardinalityType
  <2>2. IsFiniteSet(1 .. n) /\ Cardinality(1 .. n) = n
    BY <1>1, FS_Interval
  <2> QED BY <2>1, <2>2
<1>0. \A t \in S : t \in Nat
  BY ApiAssumption
<1>3. id \in Injection(1 .. n, S)
  <2>1. id \in [1 .. n -> S]
    BY <1>1
  <2>2. \A i, j \in 1 .. n : id[i] = id[j] => i = j
    <3> SUFFICES ASSUME NEW i \in 1 .. n, NEW j \in 1 .. n, i # j
                 PROVE  id[i] # id[j]
      OBVIOUS
    <3>1. i < j \/ j < i
      OBVIOUS
    <3>2. rows[i].id < rows[j].id \/ rows[j].id < rows[i].id
      BY <3>1, <1>1 DEF InOrder
    <3>3. rows[i].id \in Nat /\ rows[j].id \in Nat
      BY <1>0, <1>1
    <3> QED BY <3>2, <3>3
  <2> QED BY <2>1, <2>2 DEF Injection, IsInjective
<1>4. /\ Cardinality(1 .. n) <= Cardinality(S)
      /\ Cardinality(1 .. n) = Cardinality(S) => id \in Surjection(1 .. n, S)
  BY <1>2, <1>3, FS_Injection
<1>5. id \in Surjection(1 .. n, S) => \A t \in S : Has(rows, t)
  BY <1>1 DEF Surjection, Has
<1> QED BY <1>1, <1>2, <1>4, <1>5 DEF n

-----------------------------------------------------------------------------
(* What a step may do to the tickets: a version never goes down, and a     *)
(* status only goes from abierto to en_progreso to resuelto.               *)

(* The types of the API. *)
ApiTypeOK ==
  /\ RowOK /\ made \subseteq Tickets /\ role \in Roles
  /\ changes \in Nat /\ faults \in 0 .. MaxFaults

(* How a status may change. *)
Later(status, next) == status = next \/ status = "abierto" \/ next = "resuelto"

(* What comes later is an order of the statuses. *)
LEMMA LaterIsAnOrder ==
  \A a, b, c \in TicketStatus :
    /\ Later(a, a)
    /\ Later(a, b) /\ Later(b, c) => Later(a, c)
    /\ Later(a, b) /\ Later(b, a) => a = b
BY DEF Later, TicketStatus

(* Versions only grow, and no status goes back. *)
RowsEvolve ==
  \A t \in Tickets :
    /\ row[t].version <= row'[t].version
    /\ Later(row[t].status, row'[t].status)

(* What any step does to the API. *)
ApiStep ==
  ApiTypeOK' /\ RowsEvolve /\ made \subseteq made' /\ role' = role /\ faults <= faults'

(* The fields of a row. *)
LEMMA RowFields ==
  ASSUME RowOK, NEW t \in Tickets
  PROVE  /\ row[t] \in Ticket /\ row[t].version \in Nat /\ row[t].status \in TicketStatus
         /\ row[t].assignee \in {Me, Other, NoUser} /\ row[t].level \in 0 .. MAX_LEVEL
BY DEF RowOK, Ticket

(* Rows that stay as they are have evolved. *)
LEMMA ApiStutters ==
  ASSUME ApiTypeOK, UNCHANGED <<row, made, role>>,
         changes' \in Nat, faults' \in 0 .. MaxFaults, faults <= faults'
  PROVE  ApiStep
<1>1. RowsEvolve
  BY RowFields DEF RowsEvolve, Later, ApiTypeOK
<1> QED BY <1>1 DEF ApiStep, ApiTypeOK, RowOK

(* A step that leaves the API alone. *)
LEMMA ApiUnchanged ==
  ASSUME ApiTypeOK, UNCHANGED apiVars
  PROVE  ApiStep
<1>1. faults <= faults'
  BY ApiAssumption DEF ApiTypeOK, apiVars
<1> QED BY <1>1, ApiStutters DEF ApiTypeOK, apiVars

(* A fault is counted, within its bound. *)
LEMMA FaultStep ==
  ASSUME ApiTypeOK, Fault
  PROVE  faults' \in 0 .. MaxFaults /\ faults < faults'
BY ApiAssumption DEF ApiTypeOK, Fault

(* A step that only fails. *)
LEMMA ApiFault ==
  ASSUME ApiTypeOK, Fault, UNCHANGED <<row, made, role, changes>>
  PROVE  ApiStep
<1>1. faults' \in 0 .. MaxFaults /\ faults <= faults' /\ changes' \in Nat
  BY FaultStep DEF ApiTypeOK
<1> QED BY <1>1, ApiStutters

(* A change that respects the order of the statuses. *)
LEMMA ChangedStep ==
  ASSUME ApiTypeOK, NEW t \in Tickets, NEW status \in TicketStatus,
         NEW assignee \in {Me, Other, NoUser},
         Later(row[t].status, status), Changed(t, status, assignee)
  PROVE  RowOK' /\ RowsEvolve
<1>1. row[t] \in Ticket /\ row[t].version \in Nat
  BY RowFields DEF ApiTypeOK
<1> DEFINE new == [version |-> row[t].version + 1, status |-> status,
                   assignee |-> assignee, level |-> row[t].level]
<1>2. row' = [row EXCEPT ![t] = new]
  BY <1>1 DEF Changed, ApiTypeOK, RowOK, Ticket
<1>3. new \in Ticket /\ new.version = row[t].version + 1 /\ new.status = status
  <2>1. row[t].level \in 0 .. MAX_LEVEL /\ row[t].version + 1 \in Nat
    BY <1>1, RowFields DEF ApiTypeOK
  <2> QED BY <2>1 DEF Ticket
<1> HIDE DEF new
<1>4. RowOK'
  BY <1>2, <1>3 DEF ApiTypeOK, RowOK, new
<1>5. ASSUME NEW u \in Tickets
      PROVE  row[u].version <= row'[u].version /\ Later(row[u].status, row'[u].status)
  <2>1. CASE u = t
    <3>1. row'[u] = new
      BY <2>1, <1>2 DEF ApiTypeOK, RowOK, new
    <3> QED BY <3>1, <2>1, <1>1, <1>3
  <2>2. CASE u # t
    <3>1. row'[u] = row[u]
      BY <2>2, <1>2 DEF ApiTypeOK, RowOK
    <3>2. row[u].version \in Nat
      BY RowFields DEF ApiTypeOK
    <3> QED BY <3>1, <3>2 DEF Later
  <2> QED BY <2>1, <2>2
<1> QED BY <1>4, <1>5 DEF RowsEvolve

(* A served change, made or not, is such a step. *)
LEMMA ServeChangeStep ==
  ASSUME ApiTypeOK, NEW t \in Tickets, NEW refusals, NEW status \in TicketStatus,
         NEW assignee \in {Me, Other, NoUser}, NEW code,
         refusals = {} => Later(row[t].status, status),
         ServeChange(t, refusals, status, assignee, code)
  PROVE  ApiStep
<1>1. /\ \/ refusals = {} /\ Changed(t, status, assignee)
         \/ UNCHANGED row
      /\ UNCHANGED faults \/ Fault
      /\ UNCHANGED <<made, role>>
      /\ changes' = IF row' = row THEN changes ELSE changes + 1
  BY DEF ServeChange, Decided
<1>2. faults' \in 0 .. MaxFaults /\ faults <= faults'
  BY <1>1, FaultStep, ApiAssumption DEF ApiTypeOK
<1>3. CASE refusals = {} /\ Changed(t, status, assignee)
  <2>1. RowOK' /\ RowsEvolve
    BY <1>3, ChangedStep
  <2>2. changes' \in Nat
    BY <1>1 DEF ApiTypeOK
  <2> QED BY <2>1, <2>2, <1>1, <1>2 DEF ApiStep, ApiTypeOK
<1>4. CASE UNCHANGED row
  BY <1>1, <1>2, <1>4, ApiStutters DEF ApiTypeOK
<1> QED BY <1>1, <1>3, <1>4

(* To hand a ticket over leaves its status alone. *)
LEMMA ServeAssignStep ==
  ASSUME ApiTypeOK, NEW t \in Tickets, NEW expected, NEW code,
         ServeAssign(t, expected, code)
  PROVE  ApiStep
<1>1. row[t].status \in TicketStatus /\ Later(row[t].status, row[t].status)
  BY RowFields DEF ApiTypeOK, Later
<1> QED BY <1>1, ServeChangeStep DEF ServeAssign

(* What canTransition allows only goes on. *)
LEMMA ServeMoveStep ==
  ASSUME ApiTypeOK, NEW t \in Tickets, NEW next \in {"en_progreso", "resuelto"},
         NEW expected, NEW code, ServeMove(t, next, expected, code)
  PROVE  ApiStep
<1>1. row[t].assignee \in {Me, Other, NoUser} /\ next \in TicketStatus
  BY RowFields DEF ApiTypeOK, TicketStatus
<1>2. MoveRefusals(t, next, expected) = {} => <<row[t].status, next>> \in Moves
  <2> SUFFICES ASSUME <<row[t].status, next>> \notin Moves
               PROVE  403 \in MoveRefusals(t, next, expected)
                      \/ 422 \in MoveRefusals(t, next, expected)
    OBVIOUS
  <2> QED BY DEF MoveRefusals
<1>3. <<row[t].status, next>> \in Moves => Later(row[t].status, next)
  BY DEF Moves, Later
<1> QED BY <1>1, <1>2, <1>3, ServeChangeStep DEF ServeMove

(* The changes by others and the worker, and new tickets. *)
LEMMA ElsewhereStep ==
  ASSUME ApiTypeOK, Elsewhere
  PROVE  ApiStep
<1> SUFFICES ASSUME NEW t \in Tickets, OtherChange(t) \/ Raise(t) \/ Create(t)
             PROVE  ApiStep
  BY DEF Elsewhere, ApiTypeOK
<1>2. row[t] \in Ticket /\ row[t].status \in TicketStatus
      /\ row[t].assignee \in {Me, Other, NoUser} /\ row[t].version \in Nat
  BY RowFields DEF ApiTypeOK
<1>3. CASE OtherChange(t)
  <2>1. /\ UNCHANGED <<made, role, faults>>
        /\ \E status \in TicketStatus, a \in {Me, Other, NoUser} :
             Later(row[t].status, status) /\ Changed(t, status, a)
    BY <1>2, <1>3 DEF OtherChange, SomeChange, Later, TicketStatus
  <2>2. RowOK' /\ RowsEvolve
    BY <2>1, ChangedStep
  <2>3. changes' \in Nat
    BY <1>3 DEF OtherChange, ApiTypeOK
  <2> QED BY <2>1, <2>2, <2>3, ApiAssumption DEF ApiStep, ApiTypeOK
<1>4. CASE Raise(t)
  <2>1. PICK level \in row[t].level + 1 .. MAX_LEVEL : row' = [row EXCEPT ![t].level = level]
    BY <1>4 DEF Raise, Raised
  <2>2. UNCHANGED <<made, role, changes, faults>>
    BY <1>4 DEF Raise, Raised
  <2>3. level \in 0 .. MAX_LEVEL
    BY RowFields DEF ApiTypeOK, MAX_LEVEL
  <2>4. row' = [row EXCEPT ![t] = [row[t] EXCEPT !.level = level]]
    BY <2>1 DEF ApiTypeOK, RowOK
  <2>5. /\ [row[t] EXCEPT !.level = level] \in Ticket
        /\ [row[t] EXCEPT !.level = level].version = row[t].version
        /\ [row[t] EXCEPT !.level = level].status = row[t].status
    BY <1>2, <2>3 DEF Ticket
  <2>6. RowOK'
    BY <2>4, <2>5 DEF ApiTypeOK, RowOK
  <2>7. \A u \in Tickets : /\ row'[u].version = row[u].version /\ row'[u].status = row[u].status
                           /\ row[u].version \in Nat
    BY <2>4, <2>5, RowFields DEF ApiTypeOK, RowOK
  <2>8. RowsEvolve
    BY <2>7 DEF RowsEvolve, Later
  <2> QED BY <2>2, <2>6, <2>8, ApiAssumption DEF ApiStep, ApiTypeOK
<1>5. CASE Create(t)
  <2>1. UNCHANGED <<row, role, changes, faults>> /\ made' = made \cup {t}
    BY <1>5 DEF Create
  <2>2. RowsEvolve
    BY <2>1, RowFields DEF RowsEvolve, Later, ApiTypeOK
  <2> QED BY <2>1, <2>2, ApiAssumption DEF ApiStep, ApiTypeOK, RowOK
<1> QED BY <1>3, <1>4, <1>5

-----------------------------------------------------------------------------
(* The queue *)

(* The types of the queue page and its calls. *)
QueueState ==
  [mounted : {TRUE}, filters : Filters, qInput : Searches, tickets : Seq(Rows),
   nextCursor : Cursors, loading : BOOLEAN, loadingMore : BOOLEAN,
   assigningId : Tickets \cup {NoTicket}, shownFor : SUBSET Filters, asked : Filters,
   failed : BOOLEAN, overtaken : BOOLEAN]

ListPage == [code : {200}, items : Seq(Rows), nextCursor : Cursors]

ListCalls ==
  [more : BOOLEAN, filters : Filters, cursor : Cursors,
   answer : ListPage \cup {Pending, [code |-> 500]}]

AssignCalls ==
  [n : Nat, id : Tickets, version : Nat, filters : Filters,
   answer : [code : Codes, row : Rows \cup {NoTicket}] \cup {Pending}]

QueueType == queue \in QueueState /\ lists \subseteq ListCalls /\ assigns \subseteq AssignCalls

(* One call for a list is in flight at most, a reload or a load-more. *)
OneListCall ==
  /\ \A c, d \in lists : c = d
  /\ queue.loading <=> \E c \in lists : ~c.more
  /\ \A c \in lists :
       IF c.more THEN /\ c.cursor = queue.nextCursor /\ c.cursor # NoCursor
                      /\ queue.loadingMore
       ELSE c.cursor = NoCursor /\ c.filters = queue.asked

(* The page in an answer is in order, and after its cursor. *)
PageInOrder(c) ==
  c.answer.code = 200 =>
    /\ InOrder(c.answer.items) /\ Beyond(c.answer.items, c.cursor)
    /\ c.answer.nextCursor # NoCursor =>
         c.cursor < c.answer.nextCursor /\ UpTo(c.answer.items, c.answer.nextCursor)

(* The rows on show are in order, up to the cursor the next page is read   *)
(* from.                                                                   *)
RowsInOrder ==
  /\ InOrder(queue.tickets)
  /\ queue.nextCursor # NoCursor => UpTo(queue.tickets, queue.nextCursor)
  /\ \A c \in lists : PageInOrder(c)

(* The answer to an assignment is a row of its ticket. *)
OwnRows ==
  \A c \in assigns :
    c.answer # Pending /\ c.answer.row # NoTicket => c.answer.row.id = c.id

(* What is on show when nothing loads is what was asked for, and a call    *)
(* for more asks with the filters that are set.                            *)
ShownIsAsked ==
  /\ ~queue.loading /\ ~queue.failed =>
       queue.asked \in queue.shownFor /\ queue.shownFor \subseteq {queue.asked, queue.filters}
  /\ \A c \in lists : c.more => c.filters = queue.filters

(* The page while it is mounted, and the invariant of the queue. *)
QueueOn ==
  /\ QueueType /\ OneListCall /\ RowsInOrder /\ OwnRows /\ ShownIsAsked /\ QueueWaits

QueueInv == QueueOn \/ QueueOff


(* Filters stay filters. *)
LEMMA FilterTypes ==
  /\ INITIAL_FILTERS \in Filters
  /\ \A f \in Filters, sel \in Selections : [f EXCEPT !.sel = sel] \in Filters
  /\ \A f \in Filters, q \in Searches : [f EXCEPT !.q = q] \in Filters
BY QueueAssumption DEF Filters, INITIAL_FILTERS, Searches

(* The calls of the page. *)
LEMMA CallTypes ==
  /\ \A f \in Filters : FirstPageCall(f) \in ListCalls
  /\ \A f \in Filters, cursor \in Cursors : ListCall(TRUE, f, cursor) \in ListCalls
BY CursorType DEF FirstPageCall, ListCall, ListCalls

(* A page that has just been mounted. *)
LEMMA QueueMounts ==
  /\ QueueMount => QueueOn'
  /\ QueueOpened => QueueOn
<1> DEFINE c == FirstPageCall(INITIAL_FILTERS)
<1>2. c \in ListCalls /\ c.more = FALSE /\ c.cursor = NoCursor /\ c.answer = Pending
      /\ c.filters = INITIAL_FILTERS
  BY CallTypes, FilterTypes DEF FirstPageCall, ListCall
<1> HIDE DEF c
<1>3. /\ QueueMounted \in QueueState
      /\ QueueMounted.tickets = <<>> /\ QueueMounted.nextCursor = NoCursor
      /\ QueueMounted.loading = TRUE /\ QueueMounted.loadingMore = FALSE
      /\ QueueMounted.asked = INITIAL_FILTERS /\ QueueMounted.assigningId = NoTicket
  BY CursorType, FilterTypes, NoRows DEF QueueMounted, QueueState, Searches
<1> HIDE DEF QueueMounted
<1>4. ASSUME QueueMount PROVE QueueOn'
  <2>1. queue' = QueueMounted /\ lists' = {c} /\ assigns' = {}
    BY <1>4 DEF QueueMount, c
  <2>2. QueueType' /\ OneListCall' /\ OwnRows' /\ ShownIsAsked' /\ QueueWaits'
    BY <1>2, <1>3, <2>1 DEF QueueType, OneListCall, OwnRows, ShownIsAsked, QueueWaits
  <2>3. RowsInOrder'
    BY <1>2, <1>3, <2>1, NoRows DEF RowsInOrder, PageInOrder, Pending
  <2> QED BY <2>2, <2>3 DEF QueueOn
<1>5. ASSUME QueueOpened PROVE QueueOn
  <2>1. queue = QueueMounted /\ lists = {c} /\ assigns = {}
    BY <1>5 DEF QueueOpened, c
  <2>2. QueueType /\ OneListCall /\ OwnRows /\ ShownIsAsked /\ QueueWaits
    BY <1>2, <1>3, <2>1 DEF QueueType, OneListCall, OwnRows, ShownIsAsked, QueueWaits
  <2>3. RowsInOrder
    BY <1>2, <1>3, <2>1, NoRows DEF RowsInOrder, PageInOrder, Pending
  <2> QED BY <2>2, <2>3 DEF QueueOn
<1> QED BY <1>4, <1>5

(* What a reload leaves, begun on a page q with the rows of the page. *)
LEMMA Reload ==
  ASSUME QueueOn, NEW q \in QueueState, NEW filters \in Filters,
         q.tickets = queue.tickets, q.nextCursor = queue.nextCursor,
         q.loadingMore = queue.loadingMore, q.overtaken = queue.overtaken,
         FetchFirstPage(q, filters)
  PROVE  /\ queue' \in QueueState /\ lists' \subseteq ListCalls
         /\ OneListCall' /\ RowsInOrder' /\ ShownIsAsked'
         /\ queue'.loading => \E c \in lists' : ~c.more
         /\ queue'.loadingMore => queue'.overtaken \/ \E c \in lists' : c.more
         /\ queue'.assigningId = q.assigningId
<1> DEFINE c == FirstPageCall(filters)
           over == queue.overtaken \/ \E d \in lists : d.more
<1>1. lists' = {c}
  BY DEF FetchFirstPage
<1>2. c \in ListCalls /\ c.more = FALSE /\ c.cursor = NoCursor /\ c.answer = Pending
      /\ c.filters = filters
  BY CallTypes DEF FirstPageCall, ListCall
<1>3. queue' = [q EXCEPT !.loading = TRUE, !.asked = filters, !.failed = FALSE,
                         !.overtaken = over]
  BY DEF FetchFirstPage, Reloading
<1>0. over \in BOOLEAN
  OBVIOUS
<1>7. queue.loadingMore => over
  BY DEF QueueOn, QueueWaits
<1> HIDE DEF c, over
<1>4. /\ queue' \in QueueState
      /\ queue'.loading /\ queue'.asked = filters /\ queue'.overtaken = over
      /\ queue'.tickets = queue.tickets /\ queue'.nextCursor = queue.nextCursor
      /\ queue'.loadingMore = queue.loadingMore /\ queue'.assigningId = q.assigningId
  BY <1>0, <1>3 DEF QueueState
<1>5. OneListCall'
  BY <1>1, <1>2, <1>4 DEF OneListCall
<1>6. RowsInOrder'
  BY <1>1, <1>2, <1>4 DEF QueueOn, RowsInOrder, PageInOrder, Pending
<1> QED BY <1>1, <1>2, <1>4, <1>5, <1>6, <1>7 DEF ShownIsAsked

(* Filters change: a reload, with the assign calls left alone. *)
LEMMA FiltersChange ==
  ASSUME QueueOn, NEW q \in QueueState, NEW filters \in Filters,
         q.tickets = queue.tickets, q.nextCursor = queue.nextCursor,
         q.loadingMore = queue.loadingMore, q.overtaken = queue.overtaken,
         q.assigningId = queue.assigningId,
         SetFilters(q, filters), UNCHANGED assigns
  PROVE  QueueOn'
<1> DEFINE p == [q EXCEPT !.filters = filters]
<1>1. /\ p \in QueueState /\ p.tickets = queue.tickets /\ p.nextCursor = queue.nextCursor
      /\ p.loadingMore = queue.loadingMore /\ p.overtaken = queue.overtaken
      /\ p.assigningId = queue.assigningId
  BY DEF QueueState
<1>2. FetchFirstPage(p, filters)
  BY DEF SetFilters
<1> HIDE DEF p
<1>3. /\ queue' \in QueueState /\ lists' \subseteq ListCalls
      /\ OneListCall' /\ RowsInOrder' /\ ShownIsAsked'
      /\ queue'.loading => \E c \in lists' : ~c.more
      /\ queue'.loadingMore => queue'.overtaken \/ \E c \in lists' : c.more
      /\ queue'.assigningId = queue.assigningId
  BY <1>1, <1>2, Reload
<1>4. QueueWaits'
  BY <1>3 DEF QueueOn, QueueWaits
<1> QED BY <1>3, <1>4 DEF QueueOn, QueueType, OwnRows

(* The clicks and keys of the user. *)
LEMMA QueueUserInv ==
  ASSUME QueueOn, QueueUser
  PROVE  QueueOn'
<1>0. queue \in QueueState /\ lists \subseteq ListCalls /\ assigns \subseteq AssignCalls
  BY DEF QueueOn, QueueType
<1>1. ASSUME NEW sel \in Selections, UpdateFilter(sel)
      PROVE  QueueOn'
  <2>1. [queue.filters EXCEPT !.sel = sel] \in Filters
    BY <1>0, FilterTypes DEF QueueState
  <2> QED BY <1>0, <1>1, <2>1, FiltersChange DEF UpdateFilter
<1>2. ASSUME NEW text \in Searches, TypeSearch(text)
      PROVE  QueueOn'
  <2>1. queue' = [queue EXCEPT !.qInput = text] /\ UNCHANGED <<lists, assigns>>
    BY <1>2 DEF TypeSearch
  <2>2. /\ queue' \in QueueState
        /\ \A f \in {"tickets", "nextCursor", "loading", "loadingMore", "assigningId",
                     "filters", "shownFor", "asked", "failed", "overtaken"} : queue'[f] = queue[f]
    BY <1>0, <2>1 DEF QueueState
  <2> QED BY <1>0, <2>1, <2>2
          DEF QueueOn, QueueType, OneListCall, RowsInOrder, PageInOrder, OwnRows,
              ShownIsAsked, QueueWaits
<1>3. CASE ClearFilters
  <2>1. [queue EXCEPT !.qInput = ""] \in QueueState
    BY <1>0 DEF QueueState, Searches
  <2>2. /\ [queue EXCEPT !.qInput = ""].tickets = queue.tickets
        /\ [queue EXCEPT !.qInput = ""].nextCursor = queue.nextCursor
        /\ [queue EXCEPT !.qInput = ""].loadingMore = queue.loadingMore
        /\ [queue EXCEPT !.qInput = ""].overtaken = queue.overtaken
        /\ [queue EXCEPT !.qInput = ""].assigningId = queue.assigningId
    BY <1>0 DEF QueueState
  <2> QED BY <1>3, <2>1, <2>2, FilterTypes, FiltersChange DEF ClearFilters
<1>4. CASE LoadMore
  <2> DEFINE c == ListCall(TRUE, queue.filters, queue.nextCursor)
  <2>1. /\ ~queue.loading /\ queue.nextCursor # NoCursor
        /\ queue' = [queue EXCEPT !.loadingMore = TRUE]
        /\ lists' = lists \cup {c} /\ UNCHANGED assigns /\ ~queue.loadingMore
    BY <1>4 DEF LoadMore, CanLoadMore, TableShown, QueueScreen
  <2>2. /\ c \in ListCalls /\ c.more = TRUE /\ c.cursor = queue.nextCursor
        /\ c.answer = Pending /\ c.filters = queue.filters
    BY <1>0, CallTypes DEF ListCall, QueueState
  <2> HIDE DEF c
  <2>3. /\ queue' \in QueueState
        /\ \A f \in {"tickets", "nextCursor", "loading", "assigningId", "filters",
                     "shownFor", "asked", "failed", "overtaken"} : queue'[f] = queue[f]
    BY <1>0, <2>1 DEF QueueState
  <2>4. OneListCall' /\ ShownIsAsked'
    BY <2>1, <2>2, <2>3 DEF QueueOn, OneListCall, ShownIsAsked
  <2>5. RowsInOrder'
    BY <2>1, <2>2, <2>3 DEF QueueOn, RowsInOrder, PageInOrder, Pending
  <2>6. QueueWaits'
    BY <2>1, <2>2, <2>3 DEF QueueOn, QueueWaits
  <2>7. QueueType' /\ OwnRows'
    BY <1>0, <2>1, <2>2, <2>3 DEF QueueOn, QueueType, OwnRows
  <2> QED BY <2>4, <2>5, <2>6, <2>7 DEF QueueOn
<1>5. ASSUME NEW i \in DOMAIN queue.tickets, HandleAssignMe(queue.tickets[i])
      PROVE  QueueOn'
  <2> DEFINE r == queue.tickets[i]
  <2>1. r \in Rows
    BY <1>0, RowsOfSeq DEF QueueState
  <2> HIDE DEF r
  <2>2. PICK n \in 1 .. MaxAssigns :
          assigns' = assigns \cup {[n |-> n, id |-> r.id, version |-> r.version,
                                   filters |-> queue.filters, answer |-> Pending]}
    BY <1>5 DEF HandleAssignMe, r
  <2>3. queue' = [queue EXCEPT !.assigningId = r.id] /\ UNCHANGED lists
    BY <1>5 DEF HandleAssignMe, r
  <2> DEFINE c == [n |-> n, id |-> r.id, version |-> r.version,
                   filters |-> queue.filters, answer |-> Pending]
  <2>4. c \in AssignCalls /\ c.id = r.id /\ c.answer = Pending
    BY <1>0, <2>1, QueueAssumption DEF QueueState, AssignCalls, Rows
  <2>5. assigns' = assigns \cup {c}
    BY <2>2
  <2> HIDE DEF c
  <2>6. /\ queue' \in QueueState /\ queue'.assigningId = r.id
        /\ \A f \in {"tickets", "nextCursor", "loading", "loadingMore", "filters",
                     "shownFor", "asked", "failed", "overtaken"} : queue'[f] = queue[f]
    BY <1>0, <2>1, <2>3 DEF QueueState, Rows
  <2>7. OneListCall' /\ ShownIsAsked' /\ RowsInOrder'
    BY <2>3, <2>6 DEF QueueOn, OneListCall, ShownIsAsked, RowsInOrder, PageInOrder
  <2>8. QueueWaits'
    BY <2>3, <2>4, <2>5, <2>6 DEF QueueOn, QueueWaits
  <2>9. QueueType' /\ OwnRows'
    BY <1>0, <2>3, <2>4, <2>5, <2>6 DEF QueueOn, QueueType, OwnRows
  <2> QED BY <2>7, <2>8, <2>9 DEF QueueOn
<1> QED BY <1>1, <1>2, <1>3, <1>4, <1>5 DEF QueueUser

(* What a search finds are tickets. *)
LEMMA FoundType ==
  ASSUME ApiTypeOK
  PROVE  \A f : Found(f) \subseteq Tickets
BY ApiAssumption DEF Found, Visible, ApiTypeOK

(* An answer of the API to a call of the page. *)
LEMMA ListAnswerOK ==
  ASSUME ApiTypeOK, NEW c \in ListCalls
  PROVE  /\ ListAnswer(c) \in ListPage
         /\ InOrder(ListAnswer(c).items) /\ Beyond(ListAnswer(c).items, c.cursor)
         /\ ListAnswer(c).nextCursor # NoCursor =>
              /\ c.cursor < ListAnswer(c).nextCursor
              /\ UpTo(ListAnswer(c).items, ListAnswer(c).nextCursor)
<1> DEFINE page == Page(Found(c.filters), c.cursor, QueueLimit)
<1>1. c.cursor \in Cursors
  BY DEF ListCalls
<1>2. /\ page \in [items : Seq(Rows), nextCursor : Cursors]
      /\ InOrder(page.items) /\ Beyond(page.items, c.cursor)
      /\ page.nextCursor # NoCursor =>
           c.cursor < page.nextCursor /\ UpTo(page.items, page.nextCursor)
  <2>1. PageOK(Found(c.filters), c.cursor, QueueLimit, page)
    BY <1>1, FoundType, QueueAssumption, PageProperties DEF ApiTypeOK
  <2> HIDE DEF page
  <2> QED BY <2>1 DEF PageOK
<1> HIDE DEF page
<1>3. ListAnswer(c) = [code |-> 200, items |-> page.items, nextCursor |-> page.nextCursor]
  BY DEF ListAnswer, page
<1> QED BY <1>2, <1>3 DEF ListPage

(* The API answers the call for a list, or fails. *)
LEMMA ServeListInv ==
  ASSUME ApiTypeOK, QueueOn, NEW c \in lists, ServeList(c)
  PROVE  QueueOn' /\ ApiStep
<1>0. queue \in QueueState /\ lists \subseteq ListCalls /\ c \in ListCalls
  BY DEF QueueOn, QueueType
<1>1. lists = {c}
  BY DEF QueueOn, OneListCall
<1>2. PICK answer \in {ListAnswer(c), [code |-> 500]} :
        lists' = {Answered(c, answer)} /\ (UNCHANGED faults \/ Fault)
  BY <1>1 DEF ServeList
<1>3. UNCHANGED <<row, made, role, changes, queue, assigns>>
  BY DEF ServeList
<1> DEFINE d == Answered(c, answer)
<1>4. answer \in ListPage \cup {[code |-> 500]}
  BY <1>0, ListAnswerOK
<1>5. /\ d \in ListCalls /\ d.more = c.more /\ d.cursor = c.cursor /\ d.filters = c.filters
      /\ d.answer = answer
  BY <1>0, <1>4 DEF Answered, ListCalls
<1> HIDE DEF d
<1>6. lists' = {d}
  BY <1>2 DEF d
<1>7. PageInOrder(d)
  <2>1. CASE answer = [code |-> 500]
    BY <1>5, <2>1 DEF PageInOrder
  <2>2. CASE answer = ListAnswer(c)
    BY <1>0, <1>5, <2>2, ListAnswerOK DEF PageInOrder
  <2> QED BY <1>2, <2>1, <2>2
<1>8. OneListCall' /\ RowsInOrder'
  BY <1>1, <1>3, <1>5, <1>6, <1>7
     DEF QueueOn, OneListCall, RowsInOrder, PageInOrder
<1>9. QueueWaits'
  BY <1>1, <1>3, <1>5, <1>6 DEF QueueOn, QueueWaits
<1>10. QueueType' /\ OwnRows' /\ ShownIsAsked'
  BY <1>3, <1>5, <1>6 DEF QueueOn, QueueType, OwnRows, ShownIsAsked
<1>11. ApiStep
  <2>1. CASE UNCHANGED faults
    BY <1>3, <2>1, ApiUnchanged DEF apiVars
  <2>2. CASE Fault
    BY <1>3, <2>2, ApiFault
  <2> QED BY <1>2, <2>1, <2>2
<1> QED BY <1>8, <1>9, <1>10, <1>11 DEF QueueOn

(* A call of assigns is replaced by one with an answer that is its own. *)
LEMMA AssignAnswered ==
  ASSUME QueueOn, NEW c \in assigns, NEW d \in AssignCalls, d.id = c.id,
         d.answer # Pending /\ d.answer.row # NoTicket => d.answer.row.id = d.id,
         assigns' = (assigns \ {c}) \cup {d}, UNCHANGED <<queue, lists>>
  PROVE  QueueOn'
<1>1. QueueType' /\ OneListCall' /\ RowsInOrder' /\ ShownIsAsked'
  BY DEF QueueOn, QueueType, OneListCall, RowsInOrder, PageInOrder, ShownIsAsked
<1>2. OwnRows'
  BY DEF QueueOn, OwnRows
<1>3. QueueWaits'
  <2>1. ASSUME queue.assigningId # NoTicket
        PROVE  \E x \in assigns' : x.id = queue.assigningId
    <3>1. PICK x \in assigns : x.id = queue.assigningId
      BY <2>1 DEF QueueOn, QueueWaits
    <3> QED BY <3>1
  <2> QED BY <2>1 DEF QueueOn, QueueWaits
<1> QED BY <1>1, <1>2, <1>3 DEF QueueOn

(* The API serves an assignment. *)
LEMMA ServeQueueAssignInv ==
  ASSUME ApiTypeOK, QueueOn, NEW c \in assigns, ServeQueueAssign(c)
  PROVE  QueueOn' /\ ApiStep
<1>0. c \in AssignCalls
  BY DEF QueueOn, QueueType
<1>1. PICK code \in Codes :
        /\ ServeAssign(c.id, c.version, code)
        /\ assigns' = (assigns \ {c}) \cup {Answered(c, [code |-> code, row |-> NoTicket])}
  BY DEF ServeQueueAssign
<1>2. c.id \in Tickets
  BY <1>0 DEF AssignCalls
<1>3. ApiStep
  BY <1>1, <1>2, ServeAssignStep
<1> DEFINE d == Answered(c, [code |-> code, row |-> NoTicket])
<1>4. /\ d \in AssignCalls /\ d.id = c.id
      /\ d.answer = [code |-> code, row |-> NoTicket]
  BY <1>0 DEF AssignCalls, Answered
<1> HIDE DEF d
<1>5. assigns' = (assigns \ {c}) \cup {d} /\ UNCHANGED <<queue, lists>>
  BY <1>1 DEF d, ServeQueueAssign
<1> QED BY <1>3, <1>4, <1>5, AssignAnswered

(* The API reads the row of its answer. *)
LEMMA ReadAssignedInv ==
  ASSUME ApiTypeOK, QueueOn, NEW c \in assigns, ReadAssigned(c)
  PROVE  QueueOn' /\ ApiStep
<1>0. c \in AssignCalls
  BY DEF QueueOn, QueueType
<1>1. c.id \in Tickets /\ c.answer \in [code : Codes, row : Rows \cup {NoTicket}]
  BY <1>0 DEF AssignCalls, ReadAssigned, InAnswer
<1>2. Row(c.id) \in Rows /\ Row(c.id).id = c.id
  BY <1>1, RowType DEF ApiTypeOK
<1> DEFINE d == [c EXCEPT !.answer.row = Row(c.id)]
<1>3. [c.answer EXCEPT !.row = Row(c.id)] \in [code : Codes, row : Rows \cup {NoTicket}]
      /\ [c.answer EXCEPT !.row = Row(c.id)].row = Row(c.id)
  BY <1>1, <1>2
<1>4. d \in AssignCalls /\ d.id = c.id /\ d.answer.row = Row(c.id)
  BY <1>0, <1>3 DEF AssignCalls
<1> HIDE DEF d
<1>5. assigns' = (assigns \ {c}) \cup {d} /\ UNCHANGED <<queue, lists>>
  BY DEF ReadAssigned, d
<1>6. ApiStep
  BY ApiUnchanged DEF ReadAssigned
<1> QED BY <1>2, <1>4, <1>5, <1>6, AssignAnswered

(* An answer with rows: a reload replaces those on show, a load-more       *)
(* appends to them.                                                        *)
LEMMA ListArrivesInv ==
  ASSUME QueueOn, NEW c \in lists, ListArrives(c)
  PROVE  QueueOn'
<1>0. queue \in QueueState /\ c \in ListCalls
  BY DEF QueueOn, QueueType
<1>1. lists = {c} /\ lists' = {} /\ UNCHANGED assigns /\ queue' = Applied(c)
      /\ c.answer # Pending
  BY DEF QueueOn, OneListCall, ListArrives
<1>2. /\ c.more => /\ ~queue.loading /\ c.cursor = queue.nextCursor /\ c.cursor # NoCursor
                   /\ queue.loadingMore
      /\ ~c.more => queue.loading /\ c.filters = queue.asked
  BY <1>1 DEF QueueOn, OneListCall
<1>3. CASE c.answer.code # 200
  <2> DEFINE failed == queue.failed \/ ~c.more
  <2>0. failed \in BOOLEAN /\ (~c.more => failed) /\ (queue.failed => failed)
    OBVIOUS
  <2>1. queue' = IF c.more THEN [queue EXCEPT !.failed = failed, !.loadingMore = FALSE]
                 ELSE [queue EXCEPT !.failed = failed, !.loading = FALSE]
    BY <1>0, <1>1, <1>3 DEF Applied, Finished, QueueState
  <2> HIDE DEF failed
  <2>2. /\ queue' \in QueueState
        /\ \A f \in {"tickets", "nextCursor", "assigningId", "shownFor", "asked",
                     "filters", "overtaken"} : queue'[f] = queue[f]
        /\ queue'.failed = failed
        /\ c.more => queue'.loading = queue.loading /\ queue'.loadingMore = FALSE
        /\ ~c.more => queue'.loading = FALSE /\ queue'.loadingMore = queue.loadingMore
    <3>1. CASE c.more
      <4>1. queue' = [queue EXCEPT !.failed = failed, !.loadingMore = FALSE]
        BY <2>1, <3>1
      <4> QED BY <1>0, <2>0, <3>1, <4>1 DEF QueueState
    <3>2. CASE ~c.more
      <4>1. queue' = [queue EXCEPT !.failed = failed, !.loading = FALSE]
        BY <2>1, <3>2
      <4> QED BY <1>0, <2>0, <3>2, <4>1 DEF QueueState
    <3> QED BY <3>1, <3>2
  <2>3. OneListCall' /\ RowsInOrder'
    BY <1>1, <1>2, <2>2 DEF QueueOn, OneListCall, RowsInOrder
  <2>4. ShownIsAsked'
    BY <1>1, <1>2, <2>0, <2>2 DEF QueueOn, ShownIsAsked
  <2>5. QueueWaits'
    BY <1>1, <1>2, <2>2 DEF QueueOn, QueueWaits
  <2>6. QueueType' /\ OwnRows'
    BY <1>1, <2>2 DEF QueueOn, QueueType, OwnRows
  <2> QED BY <2>3, <2>4, <2>5, <2>6 DEF QueueOn
<1>4. CASE c.answer.code = 200
  <2> DEFINE items == c.answer.items
             next == c.answer.nextCursor
  <2>1. c.answer \in ListPage /\ items \in Seq(Rows) /\ next \in Cursors
    BY <1>0, <1>4 DEF ListCalls, ListPage, Pending
  <2>2. /\ InOrder(items) /\ Beyond(items, c.cursor)
        /\ next # NoCursor => c.cursor < next /\ UpTo(items, next)
    BY <1>4 DEF QueueOn, RowsInOrder, PageInOrder
  <2> HIDE DEF items, next
  <2>3. CASE c.more
    <3> DEFINE all == queue.tickets \o items
               shown == queue.shownFor \cup {c.filters}
    <3>0. shown \in SUBSET Filters
      BY <1>0 DEF QueueState, ListCalls
    <3>1. queue' = [queue EXCEPT !.tickets = all, !.nextCursor = next,
                                 !.shownFor = shown, !.loadingMore = FALSE]
      BY <1>0, <1>1, <1>4, <2>3 DEF Applied, Finished, WithPage, QueueState, items, next
    <3>2. queue.tickets \in Seq(Rows) /\ InOrder(queue.tickets)
          /\ UpTo(queue.tickets, c.cursor) /\ c.cursor \in Nat
      BY <1>0, <1>2, <2>3, CursorType DEF QueueOn, RowsInOrder, QueueState
    <3>3. /\ all \in Seq(Rows) /\ InOrder(all)
          /\ \A n \in Nat : c.cursor <= n /\ UpTo(items, n) => UpTo(all, n)
      BY <2>1, <2>2, <3>2, AppendPage
    <3> HIDE DEF all, shown
    <3>4. next \in Nat /\ (next # NoCursor => UpTo(all, next))
      BY <2>1, <2>2, <3>2, <3>3, CursorType
    <3>5. /\ queue' \in QueueState
          /\ \A f \in {"loading", "assigningId", "filters", "asked",
                       "failed", "overtaken"} : queue'[f] = queue[f]
          /\ queue'.tickets = all /\ queue'.nextCursor = next /\ queue'.loadingMore = FALSE
          /\ queue'.shownFor = shown
      BY <1>0, <2>1, <3>0, <3>1, <3>3 DEF QueueState
    <3>6. OneListCall' /\ RowsInOrder'
      BY <1>1, <1>2, <2>3, <3>3, <3>4, <3>5 DEF QueueOn, OneListCall, RowsInOrder
    <3>9. ShownIsAsked'
      BY <1>1, <1>2, <2>3, <3>5 DEF QueueOn, ShownIsAsked, shown
    <3>7. QueueWaits'
      BY <1>1, <1>2, <2>3, <3>5 DEF QueueOn, QueueWaits
    <3>8. QueueType' /\ OwnRows'
      BY <1>1, <3>5 DEF QueueOn, QueueType, OwnRows
    <3> QED BY <3>6, <3>7, <3>8, <3>9 DEF QueueOn
  <2>4. CASE ~c.more
    <3>1. queue' = [queue EXCEPT !.tickets = items, !.nextCursor = next,
                                 !.shownFor = {c.filters}, !.loading = FALSE]
      BY <1>0, <1>1, <1>4, <2>4 DEF Applied, Finished, WithPage, QueueState, items, next
    <3>2. /\ queue' \in QueueState
          /\ \A f \in {"loadingMore", "assigningId", "filters", "asked",
                       "failed", "overtaken"} : queue'[f] = queue[f]
          /\ queue'.tickets = items /\ queue'.nextCursor = next /\ queue'.loading = FALSE
          /\ queue'.shownFor = {c.filters}
      <4>1. {c.filters} \in SUBSET Filters
        BY <1>0 DEF ListCalls
      <4> QED BY <1>0, <2>1, <3>1, <4>1 DEF QueueState
    <3>3. OneListCall' /\ RowsInOrder' /\ ShownIsAsked'
      BY <1>1, <1>2, <2>2, <2>4, <3>2
         DEF QueueOn, OneListCall, RowsInOrder, ShownIsAsked
    <3>4. QueueWaits'
      BY <1>1, <2>4, <3>2 DEF QueueOn, QueueWaits
    <3>5. QueueType' /\ OwnRows'
      BY <1>1, <3>2 DEF QueueOn, QueueType, OwnRows
    <3> QED BY <3>3, <3>4, <3>5 DEF QueueOn
  <2> QED BY <2>3, <2>4
<1> QED BY <1>3, <1>4


(* Rows that are replaced by rows of the same tickets stay in order. *)
LEMMA ReplaceInOrder ==
  ASSUME NEW rows \in Seq(Rows), NEW r \in Rows, InOrder(rows)
  PROVE  LET new == [i \in DOMAIN rows |-> IF rows[i].id = r.id THEN r ELSE rows[i]]
         IN /\ new \in Seq(Rows) /\ InOrder(new)
            /\ \A next : UpTo(rows, next) => UpTo(new, next)
<1> DEFINE new == [i \in DOMAIN rows |-> IF rows[i].id = r.id THEN r ELSE rows[i]]
<1>1. DOMAIN rows = 1 .. Len(rows) /\ Len(rows) \in Nat
  BY LenProperties
<1>2. \A i \in DOMAIN rows : rows[i] \in Rows
  BY RowsOfSeq
<1>3. new \in [1 .. Len(rows) -> Rows]
  BY <1>1, <1>2
<1>4. new \in Seq(Rows)
  BY <1>1, <1>3
<1>5. DOMAIN new = DOMAIN rows /\ \A i \in DOMAIN rows : new[i].id = rows[i].id
  OBVIOUS
<1> HIDE DEF new
<1>6. InOrder(new) /\ \A next : UpTo(rows, next) => UpTo(new, next)
  BY <1>5 DEF InOrder, UpTo
<1> QED BY <1>4, <1>6 DEF new

(* The answer to an assignment replaces a row, or reloads after a          *)
(* conflict.                                                               *)
LEMMA AssignArrivesInv ==
  ASSUME QueueOn, NEW c \in assigns, AssignArrives(c)
  PROVE  QueueOn'
<1>0. queue \in QueueState /\ c \in AssignCalls
  BY DEF QueueOn, QueueType
<1> DEFINE q == [queue EXCEPT !.assigningId = NoTicket]
<1>1. /\ q \in QueueState /\ q.assigningId = NoTicket
      /\ \A f \in {"tickets", "nextCursor", "loading", "loadingMore", "filters",
                   "shownFor", "asked", "failed", "overtaken"} : q[f] = queue[f]
  BY <1>0 DEF QueueState
<1>2. /\ assigns' = assigns \ {c}
      /\ c.answer \in [code : Codes, row : Rows \cup {NoTicket}] /\ ~ InAnswer(c)
      /\ \/ /\ c.answer.code = 200
            /\ queue' = [q EXCEPT !.tickets =
                 [i \in DOMAIN @ |-> IF @[i].id = c.id THEN c.answer.row ELSE @[i]]]
            /\ UNCHANGED lists
         \/ c.answer.code = 409 /\ FetchFirstPage(q, c.filters)
         \/ queue' = q /\ UNCHANGED lists
  BY <1>0 DEF AssignArrives, AssignCalls
<1> HIDE DEF q
<1>3. OwnRows' /\ assigns' \subseteq AssignCalls
  BY <1>2 DEF QueueOn, OwnRows, QueueType
<1>4. CASE c.answer.code = 409 /\ FetchFirstPage(q, c.filters)
  <2>1. c.filters \in Filters
    BY <1>0 DEF AssignCalls
  <2>2. /\ queue' \in QueueState /\ lists' \subseteq ListCalls
        /\ OneListCall' /\ RowsInOrder' /\ ShownIsAsked'
        /\ queue'.loading => \E x \in lists' : ~x.more
        /\ queue'.loadingMore => queue'.overtaken \/ \E x \in lists' : x.more
        /\ queue'.assigningId = NoTicket
    BY <1>1, <1>4, <2>1, Reload
  <2> QED BY <1>3, <2>2 DEF QueueOn, QueueType, QueueWaits
<1>5. CASE queue' = q /\ UNCHANGED lists
  BY <1>1, <1>3, <1>5
     DEF QueueOn, QueueType, OneListCall, RowsInOrder, PageInOrder, ShownIsAsked, QueueWaits
<1>6. CASE /\ c.answer.code = 200
           /\ queue' = [q EXCEPT !.tickets =
                [i \in DOMAIN @ |-> IF @[i].id = c.id THEN c.answer.row ELSE @[i]]]
           /\ UNCHANGED lists
  <2> DEFINE r == c.answer.row
             rows == queue.tickets
             new == [i \in DOMAIN rows |-> IF rows[i].id = r.id THEN r ELSE rows[i]]
  <2>1. c.answer # Pending /\ r # NoTicket
    BY <1>2, <1>6 DEF InAnswer, AssignArrives
  <2>2. r \in Rows /\ r.id = c.id
    BY <1>2, <2>1 DEF QueueOn, OwnRows
  <2>3. rows \in Seq(Rows) /\ InOrder(rows) /\ q.tickets = rows
    BY <1>0, <1>1 DEF QueueOn, RowsInOrder, QueueState
  <2>4. queue' = [q EXCEPT !.tickets = new]
    BY <1>1, <1>6, <2>2, <2>3 DEF QueueState
  <2> HIDE DEF r, rows
  <2>5. /\ new \in Seq(Rows) /\ InOrder(new)
        /\ \A next : UpTo(rows, next) => UpTo(new, next)
    BY <2>2, <2>3, ReplaceInOrder
  <2> HIDE DEF new
  <2>6. /\ queue' \in QueueState /\ queue'.tickets = new /\ queue'.assigningId = NoTicket
        /\ \A f \in {"nextCursor", "loading", "loadingMore", "filters",
                     "shownFor", "asked", "failed", "overtaken"} : queue'[f] = queue[f]
    BY <1>1, <2>4, <2>5 DEF QueueState
  <2>7. RowsInOrder'
    BY <1>6, <2>5, <2>6 DEF QueueOn, RowsInOrder, PageInOrder, rows
  <2>8. OneListCall' /\ ShownIsAsked' /\ QueueWaits'
    BY <1>6, <2>6 DEF QueueOn, OneListCall, ShownIsAsked, QueueWaits
  <2> QED BY <1>3, <1>6, <2>6, <2>7, <2>8 DEF QueueOn, QueueType
<1> QED BY <1>2, <1>4, <1>5, <1>6

(* Every step of the page preserves its invariant, and changes the tickets *)
(* as the API lets it.                                                     *)
LEMMA QueueStepInv ==
  ASSUME ApiTypeOK, QueueInv, QueueStep
  PROVE  QueueOn /\ QueueOn' /\ ApiStep
<1>1. CASE QueueOff
  BY <1>1 DEF QueueOff, QueueNotMounted, QueueStep, QueueUser, QueueArrival, Debounce,
              QueueServe
<1>2. CASE QueueOn
  <2>0. queue \in QueueState
    BY <1>2 DEF QueueOn, QueueType
  <2>1. CASE QueueUser /\ UNCHANGED apiVars
    BY <1>2, <2>1, QueueUserInv, ApiUnchanged DEF QueueInv
  <2>2. CASE QueueArrival /\ UNCHANGED apiVars
    <3>1. CASE Debounce
      <4>1. [queue.filters EXCEPT !.q = queue.qInput] \in Filters
        BY <2>0, FilterTypes DEF QueueState
      <4> QED BY <1>2, <2>0, <3>1, <4>1, <2>2, FiltersChange, ApiUnchanged
              DEF Debounce, QueueInv
    <3> QED BY <1>2, <2>2, <3>1, ListArrivesInv, AssignArrivesInv, ApiUnchanged
            DEF QueueArrival, QueueInv
  <2>3. CASE QueueServe
    BY <1>2, <2>3, ServeListInv, ServeQueueAssignInv, ReadAssignedInv
       DEF QueueServe, QueueInv
  <2> QED BY <2>1, <2>2, <2>3 DEF QueueStep
<1> QED BY <1>1, <1>2 DEF QueueInv

(* The page is not touched. *)
LEMMA QueueStays ==
  ASSUME QueueInv, UNCHANGED queueVars
  PROVE  QueueInv'
BY DEF queueVars, QueueInv, QueueOff, QueueOn, QueueType, OneListCall, RowsInOrder,
       PageInOrder, OwnRows, ShownIsAsked, QueueWaits

(* The page is left. *)
LEMMA QueueLeaves ==
  ASSUME QueueUnmount
  PROVE  QueueInv'
BY DEF QueueUnmount, QueueInv, QueueOff

-----------------------------------------------------------------------------
(* The types of the board and its calls. *)
SlaState ==
  [mounted : {TRUE}, tickets : Seq(Rows), loaded : BOOLEAN, assigning : BOOLEAN,
   failed : BOOLEAN]

Walks == [items : Seq(Rows), cursor : Cursors, done : BOOLEAN]

Loads ==
  [on : {TRUE}, awaited : BOOLEAN, walk : [Unresolved -> Walks],
   from : [Tickets -> TicketStatus], there : SUBSET Tickets]

SlaCalls == [on : {TRUE}, id : Tickets, version : Nat, code : Codes \cup {0}]

SlaType ==
  /\ sla \in SlaState
  /\ slaLoad \in Loads \cup {NoLoad}
  /\ slaAssign \in SlaCalls \cup {NoCall}

(* t may have been in the list of s at some instant since it was as in from. *)
WasIn(from, t, s) ==
  t \in Visible /\ Later(from[t], s) /\ Later(s, row[t].status)

(* No ticket moved since the load began. *)
NoneMoved(from) == \A t \in Tickets : from[t] = row[t].status

(* The walk w of the list of s: its rows are in order and were in that     *)
(* list; if none moved, none that was there before its cursor is missing.  *)
WalkInv(from, there, s, w) ==
  /\ InOrder(w.items)
  /\ \A i \in DOMAIN w.items : WasIn(from, w.items[i].id, s)
  /\ w.cursor # NoCursor => WasIn(from, w.cursor, s)
  /\ ~w.done => UpTo(w.items, w.cursor)
  /\ w.done => w.cursor = NoCursor \/ Len(w.items) >= MAX_TICKETS
  /\ NoneMoved(from) =>
       \A t \in WithStatus(s) \cap there :
         t <= w.cursor \/ (w.done /\ w.cursor = NoCursor) => Has(w.items, t)

(* Both walks of a load. *)
LoadInv(load) ==
  /\ load.there \subseteq made
  /\ \A t \in Tickets : Later(load.from[t], row[t].status)
  /\ \A s \in Unresolved : WalkInv(load.from, load.there, s, load.walk[s])

(* What is shown as under way has a call that ends it. *)
SlaWaits ==
  /\ sla.assigning => slaAssign.on \/ (slaLoad.on /\ slaLoad.awaited)
  /\ ~sla.loaded => slaLoad.on \/ sla.failed

(* The board while it is mounted, and its invariant. *)
SlaOn == SlaType /\ (slaLoad.on => LoadInv(slaLoad)) /\ SlaWaits

SlaInv == SlaOn \/ SlaOff

(* The lists of the board are finite sets of tickets. *)
LEMMA WithStatusType ==
  ASSUME ApiTypeOK, NEW s
  PROVE  /\ Visible \subseteq Tickets /\ WithStatus(s) \subseteq Tickets
         /\ \A t : t \in WithStatus(s) <=> t \in Visible /\ row[t].status = s
BY ApiAssumption DEF WithStatus, Visible, ApiTypeOK

(* A load begins. *)
LEMMA NewLoadInv ==
  ASSUME ApiTypeOK, NEW awaited \in BOOLEAN
  PROVE  /\ NewLoad(awaited) \in Loads /\ LoadInv(NewLoad(awaited))
         /\ NewLoad(awaited).on /\ NewLoad(awaited).awaited = awaited
<1> DEFINE w == [items |-> <<>>, cursor |-> NoCursor, done |-> FALSE]
           from == [t \in Tickets |-> row[t].status]
           load == NewLoad(awaited)
<1>1. w \in Walks /\ w.items = <<>> /\ w.cursor = NoCursor /\ w.done = FALSE
  BY NoRows, CursorType DEF Walks
<1>2. /\ from \in [Tickets -> TicketStatus]
      /\ \A t \in Tickets : from[t] = row[t].status /\ row[t].status \in TicketStatus
  BY RowFields DEF ApiTypeOK
<1> HIDE DEF w, from
<1>3. load = [on |-> TRUE, awaited |-> awaited, walk |-> [s \in Unresolved |-> w],
              from |-> from, there |-> made]
  BY DEF NewLoad, w, from
<1> HIDE DEF load
<1>4. load \in Loads /\ load.on /\ load.awaited = awaited
  BY <1>1, <1>2, <1>3 DEF Loads, ApiTypeOK
<1>5. load.from = from /\ load.there = made /\ \A s \in Unresolved : load.walk[s] = w
  BY <1>3
<1>6. ASSUME NEW s \in Unresolved
      PROVE  WalkInv(from, made, s, w)
  <2>1. \A t \in WithStatus(s) : ~ (t <= NoCursor)
    <3>1. \A t \in WithStatus(s) : t \in Tickets
      BY WithStatusType
    <3>2. \A t \in Tickets : t \in Nat /\ t > 0
      BY ApiAssumption
    <3> QED BY <3>1, <3>2 DEF NoCursor
  <2>2. DOMAIN <<>> = {}
    OBVIOUS
  <2> QED BY <1>1, <2>1, <2>2, NoRows DEF WalkInv
<1>7. \A t \in Tickets : Later(from[t], row[t].status)
  BY <1>2 DEF Later
<1> QED BY <1>4, <1>5, <1>6, <1>7 DEF LoadInv, load

(* A round of a walk. *)
LEMMA WalkRound ==
  ASSUME ApiTypeOK, NEW load \in Loads, LoadInv(load),
         NEW s \in Unresolved, ~load.walk[s].done
  PROVE  LET w == load.walk[s]
             new == FetchAllByStatus(w, Page(WithStatus(s), w.cursor, SlaLimit))
         IN new \in Walks /\ WalkInv(load.from, load.there, s, new)
<1> DEFINE from == load.from
           there == load.there
           w == load.walk[s]
<1>0. /\ from \in [Tickets -> TicketStatus] /\ there \subseteq made
      /\ \A t \in Tickets : Later(from[t], row[t].status)
      /\ w \in Walks /\ WalkInv(from, there, s, w) /\ ~w.done
  BY DEF Loads, LoadInv
<1> HIDE DEF from, there, w
<1> DEFINE S == WithStatus(s)
           page == Page(S, w.cursor, SlaLimit)
           items == page.items
           next == page.nextCursor
           all == w.items \o items
           done == next = NoCursor \/ Len(all) >= MAX_TICKETS
           new == FetchAllByStatus(w, page)
<1>1. S \subseteq Tickets /\ \A t : t \in S <=> t \in Visible /\ row[t].status = s
  BY WithStatusType
<1>2. w.items \in Seq(Rows) /\ w.cursor \in Cursors /\ w.cursor \in Nat
  BY <1>0, CursorType DEF Walks
<1> HIDE DEF S
<1>3. PageOK(S, w.cursor, SlaLimit, page)
  BY <1>1, <1>2, SlaAssumption, PageProperties DEF ApiTypeOK
<1> HIDE DEF page
<1>4. /\ items \in Seq(Rows) /\ next \in Cursors /\ next \in Nat
      /\ InOrder(items) /\ Beyond(items, w.cursor)
      /\ \A i \in DOMAIN items : items[i].id \in S
      /\ next \in S \cup {NoCursor}
      /\ next # NoCursor => w.cursor < next /\ UpTo(items, next)
      /\ w.cursor \in S \cup {NoCursor} =>
           \A t \in S : w.cursor < t /\ (next = NoCursor \/ t <= next) => Has(items, t)
  BY <1>3, CursorType DEF PageOK
<1> HIDE DEF items, next
<1>5. /\ all \in Seq(Rows) /\ InOrder(all)
      /\ \A n \in Nat : w.cursor <= n /\ UpTo(items, n) => UpTo(all, n)
  BY <1>0, <1>2, <1>4, AppendPage DEF WalkInv
<1>6. /\ \A k \in DOMAIN all : \/ \E i \in DOMAIN w.items : all[k] = w.items[i]
                              \/ \E i \in DOMAIN items : all[k] = items[i]
      /\ \A t : Has(all, t) <=> Has(w.items, t) \/ Has(items, t)
  BY <1>2, <1>4, AppendHas
<1>7. new = [items |-> all, cursor |-> next, done |-> done]
  BY DEF FetchAllByStatus, items, next
<1> HIDE DEF all, new
<1>8. new \in Walks /\ new.items = all /\ new.cursor = next /\ new.done = done
  BY <1>4, <1>5, <1>7 DEF Walks
<1>9. \A t \in S : WasIn(from, t, s)
  <2> SUFFICES ASSUME NEW t \in S PROVE WasIn(from, t, s)
    OBVIOUS
  <2>1. t \in Visible /\ row[t].status = s /\ t \in Tickets
    BY <1>1
  <2> QED BY <1>0, <2>1, LaterIsAnOrder, RowFields DEF WasIn, ApiTypeOK
<1>10. \A k \in DOMAIN all : WasIn(from, all[k].id, s)
  BY <1>0, <1>4, <1>6, <1>9 DEF WalkInv
<1>11. next # NoCursor => WasIn(from, next, s)
  BY <1>4, <1>9
<1>12. ~done => UpTo(all, next)
  BY <1>2, <1>4, <1>5
<1>13. ASSUME NoneMoved(from), NEW t \in S \cap there, t <= next \/ (done /\ next = NoCursor)
       PROVE  Has(all, t)
  <2>1. w.cursor \in S \cup {NoCursor}
    <3> SUFFICES ASSUME w.cursor # NoCursor PROVE w.cursor \in S
      OBVIOUS
    <3>1. WasIn(from, w.cursor, s) /\ w.cursor \in Tickets
      BY <1>0, <1>2 DEF WalkInv, Cursors
    <3>2. row[w.cursor].status = s
      BY <1>0, <3>1, <1>13, RowFields, LaterIsAnOrder DEF WasIn, NoneMoved, ApiTypeOK,
         Unresolved, TicketStatus
    <3> QED BY <1>0, <3>1, <3>2, <1>1 DEF WasIn
  <2>2. t \in Nat
    BY <1>1, ApiAssumption
  <2>3. CASE t <= w.cursor
    <3>1. Has(w.items, t)
      BY <1>0, <2>3, <1>13 DEF WalkInv, S
    <3> QED BY <3>1, <1>6
  <2>4. CASE w.cursor < t
    BY <2>1, <2>4, <1>4, <1>6, <1>13
  <2> QED BY <2>2, <2>3, <2>4, <1>2
<1>14. WalkInv(from, there, s, new)
  BY <1>0, <1>5, <1>8, <1>10, <1>11, <1>12, <1>13 DEF WalkInv, S
<1> QED BY <1>8, <1>14 DEF new, page, S, w, from, there

(* The rows evolve under a load. *)
LEMMA LoadStays ==
  ASSUME ApiTypeOK, ApiStep, NEW load \in Loads, LoadInv(load)
  PROVE  LoadInv(load)'
<1>1. load.from \in [Tickets -> TicketStatus] /\ load.walk \in [Unresolved -> Walks]
  BY DEF Loads
<1>2. \A t \in Tickets : /\ row[t].status \in TicketStatus /\ row'[t].status \in TicketStatus
                         /\ Later(row[t].status, row'[t].status)
                         /\ load.from[t] \in TicketStatus
                         /\ Later(load.from[t], row[t].status)
  <2>1. row \in [Tickets -> Ticket] /\ row' \in [Tickets -> Ticket]
    BY DEF ApiTypeOK, ApiStep, RowOK
  <2> QED BY <1>1, <2>1 DEF ApiStep, RowsEvolve, LoadInv, Ticket
<1>3. \A t \in Tickets : Later(load.from[t], row'[t].status)
  BY <1>2, LaterIsAnOrder
<1>4. Visible \subseteq Visible' /\ made \subseteq made' /\ load.there \subseteq made
  BY DEF ApiStep, Visible, LoadInv
<1>5. ASSUME NEW s \in Unresolved
      PROVE  WalkInv(load.from, load.there, s, load.walk[s])'
  <2> DEFINE w == load.walk[s]
             from == load.from
             there == load.there
  <2>0. w \in Walks /\ WalkInv(from, there, s, w) /\ s \in TicketStatus
    BY <1>1 DEF LoadInv, Unresolved, TicketStatus
  <2> HIDE DEF w
  <2>1. \A t \in Tickets : WasIn(from, t, s) => WasIn(from, t, s)'
    BY <1>2, <1>4, <2>0, LaterIsAnOrder DEF WasIn
  <2>2. \A i \in DOMAIN w.items : w.items[i].id \in Tickets
    BY <2>0, RowsOfSeq DEF Walks
  <2>3. w.cursor # NoCursor => w.cursor \in Tickets
    BY <2>0 DEF Walks, Cursors
  <2>4. NoneMoved(from)' => /\ NoneMoved(from)
                            /\ WithStatus(s)' \cap there \subseteq WithStatus(s)
    <3> SUFFICES ASSUME NoneMoved(from)'
                 PROVE  NoneMoved(from) /\ WithStatus(s)' \cap there \subseteq WithStatus(s)
      OBVIOUS
    <3>1. \A t \in Tickets : row[t].status = from[t] /\ row'[t].status = from[t]
      BY <1>2, LaterIsAnOrder DEF NoneMoved
    <3>2. \A t \in there : t \in Tickets /\ (t \in Visible' => t \in Visible)
      BY <1>4 DEF ApiTypeOK, ApiStep, Visible
    <3> QED BY <3>1, <3>2 DEF NoneMoved, WithStatus
  <2>5. /\ \A i \in DOMAIN w.items : WasIn(from, w.items[i].id, s)'
        /\ w.cursor # NoCursor => WasIn(from, w.cursor, s)'
    BY <2>0, <2>1, <2>2, <2>3 DEF WalkInv
  <2>6. WalkInv(from, there, s, w)'
    BY <2>0, <2>4, <2>5 DEF WalkInv
  <2> QED BY <2>6 DEF w
<1>6. load.there \subseteq made'
  BY <1>4
<1> QED BY <1>3, <1>5, <1>6 DEF LoadInv

(* What the load and the assignment are while they are under way. *)
LEMMA LoadTypes ==
  ASSUME SlaType
  PROVE  /\ slaLoad.on \in BOOLEAN /\ slaAssign.on \in BOOLEAN
         /\ slaLoad.on <=> slaLoad \in Loads
         /\ slaAssign.on <=> slaAssign \in SlaCalls
<1>1. /\ \A l \in Loads : l.on = TRUE
      /\ \A c \in SlaCalls : c.on = TRUE
  BY DEF Loads, SlaCalls
<1>2. NoLoad.on = FALSE /\ NoCall.on = FALSE
  BY DEF NoLoad, NoCall
<1> QED BY <1>1, <1>2, Zenon DEF SlaType

(* The board is not touched, while the rows evolve. *)
LEMMA SlaStays ==
  ASSUME ApiTypeOK, ApiStep, SlaInv, UNCHANGED slaVars
  PROVE  SlaInv'
<1>1. CASE SlaOff
  BY <1>1 DEF SlaInv, SlaOff, slaVars
<1>2. CASE SlaOn
  <2>0. UNCHANGED <<sla, slaLoad, slaAssign>>
    BY DEF slaVars
  <2>1. SlaType'
    BY <1>2, <2>0 DEF SlaOn, SlaType
  <2>2. slaLoad'.on => LoadInv(slaLoad)'
    <3>1. slaLoad.on => slaLoad \in Loads /\ LoadInv(slaLoad)
      BY <1>2, LoadTypes DEF SlaOn
    <3> QED BY <2>0, <3>1, LoadStays
  <2>3. SlaWaits'
    BY <1>2, <2>0 DEF SlaOn, SlaWaits
  <2> QED BY <2>1, <2>2, <2>3 DEF SlaInv, SlaOn
<1> QED BY <1>1, <1>2 DEF SlaInv

(* The board is left. *)
LEMMA SlaLeaves ==
  ASSUME SlaUnmount
  PROVE  SlaInv'
BY DEF SlaUnmount, SlaInv, SlaOff

(* A load that has begun, seen after the step that begins it. *)
LEMMA LoadBegins ==
  ASSUME ApiTypeOK, UNCHANGED apiVars, NEW awaited \in BOOLEAN, slaLoad' = NewLoad(awaited)
  PROVE  /\ slaLoad' \in Loads /\ LoadInv(slaLoad)'
         /\ slaLoad'.on /\ slaLoad'.awaited = awaited
<1>1. /\ NewLoad(awaited) \in Loads /\ LoadInv(NewLoad(awaited))
      /\ NewLoad(awaited).on /\ NewLoad(awaited).awaited = awaited
  BY NewLoadInv
<1>2. ApiStep
  BY ApiUnchanged
<1>3. \A load \in Loads : LoadInv(load) => LoadInv(load)'
  BY <1>2, LoadStays
<1> QED BY <1>1, <1>3

(* The board as it is mounted. *)
LEMMA SlaMountedOK == SlaMounted \in SlaState /\ ~SlaMounted.assigning
BY NoRows DEF SlaMounted, SlaState

(* The board is mounted, with a load under way. *)
LEMMA SlaMounts ==
  ASSUME ApiTypeOK, UNCHANGED apiVars, SlaMount
  PROVE  SlaOn'
<1>1. slaLoad' \in Loads /\ LoadInv(slaLoad)' /\ slaLoad'.on
  BY LoadBegins DEF SlaMount
<1>2. sla' \in SlaState /\ ~sla'.assigning /\ slaAssign' = NoCall
  BY SlaMountedOK DEF SlaMount
<1> QED BY <1>1, <1>2 DEF SlaOn, SlaType, SlaWaits

(* The interval begins a load. *)
LEMMA IntervalInv ==
  ASSUME ApiTypeOK, UNCHANGED apiVars, SlaOn, Interval
  PROVE  SlaOn'
<1>1. slaLoad' \in Loads /\ LoadInv(slaLoad)' /\ slaLoad'.on
  BY LoadBegins DEF Interval
<1>2. /\ UNCHANGED slaAssign /\ ~slaLoad.on /\ sla' \in SlaState
      /\ sla'.assigning = sla.assigning
  BY DEF Interval, SlaOn, SlaType, SlaState
<1> QED BY <1>1, <1>2 DEF SlaOn, SlaType, SlaWaits

(* A page of one of the lists is read. *)
LEMMA WalkStepInv ==
  ASSUME ApiTypeOK, UNCHANGED apiVars, SlaOn, NEW s \in Unresolved, Walk(s)
  PROVE  SlaOn'
<1> DEFINE w == slaLoad.walk[s]
           new == FetchAllByStatus(w, Page(WithStatus(s), w.cursor, SlaLimit))
<1>1. /\ slaLoad \in Loads /\ slaLoad.on /\ LoadInv(slaLoad) /\ ~w.done
      /\ UNCHANGED <<sla, slaAssign>>
  BY LoadTypes DEF SlaOn, Walk
<1>2. slaLoad.walk \in [Unresolved -> Walks] /\ slaLoad.from \in [Tickets -> TicketStatus]
  BY <1>1 DEF Loads
<1>3. new \in Walks /\ WalkInv(slaLoad.from, slaLoad.there, s, new)
  BY <1>1, WalkRound
<1>4. slaLoad' = [slaLoad EXCEPT !.walk = [slaLoad.walk EXCEPT ![s] = new]]
  BY <1>1, <1>2 DEF Walk, Loads
<1> HIDE DEF new, w
<1> DEFINE walk == [slaLoad.walk EXCEPT ![s] = new]
           load == [slaLoad EXCEPT !.walk = walk]
<1>5. walk \in [Unresolved -> Walks] /\ \A u \in Unresolved :
        walk[u] = IF u = s THEN new ELSE slaLoad.walk[u]
  BY <1>2, <1>3
<1> HIDE DEF walk
<1>6. /\ load \in Loads /\ load.walk = walk /\ load.from = slaLoad.from
      /\ load.there = slaLoad.there
      /\ load.on = slaLoad.on /\ load.awaited = slaLoad.awaited
  BY <1>1, <1>5 DEF Loads
<1> HIDE DEF load
<1>7. LoadInv(load)
  BY <1>1, <1>3, <1>5, <1>6 DEF LoadInv
<1>8. slaLoad' \in Loads /\ LoadInv(slaLoad)' /\ slaLoad'.on /\ slaLoad'.awaited = slaLoad.awaited
  <2>1. ApiStep
    BY ApiUnchanged
  <2>2. slaLoad' = load
    BY <1>4 DEF load, walk
  <2>3. \A l \in Loads : LoadInv(l) => LoadInv(l)'
    BY <2>1, LoadStays
  <2> QED BY <1>1, <1>6, <1>7, <2>2, <2>3
<1> QED BY <1>1, <1>8 DEF SlaOn, SlaType, SlaWaits

(* The end of a load. *)
LEMMA LoadOverInv ==
  ASSUME SlaOn, slaLoad.on, NEW page \in SlaState, page.assigning = sla.assigning,
         page.loaded \/ page.failed, LoadOver(page)
  PROVE  SlaOn'
<1>1. slaLoad.awaited \in BOOLEAN /\ slaAssign' = slaAssign /\ slaLoad' = NoLoad
  BY LoadTypes DEF SlaOn, Loads, LoadOver
<1> DEFINE assigning == page.assigning /\ ~slaLoad.awaited
<1>2. assigning \in BOOLEAN
  BY DEF SlaState
<1>3. assigning => slaAssign.on
  BY DEF SlaOn, SlaWaits
<1>4. sla' = [page EXCEPT !.assigning = assigning]
  BY DEF LoadOver
<1> HIDE DEF assigning
<1>5. /\ sla' \in SlaState /\ sla'.assigning = assigning /\ sla'.loaded = page.loaded
      /\ sla'.failed = page.failed
  BY <1>2, <1>4 DEF SlaState
<1>6. ~slaLoad'.on
  BY <1>1 DEF NoLoad
<1> QED BY <1>1, <1>3, <1>5, <1>6 DEF SlaOn, SlaType, SlaWaits

(* A load that fails keeps the rows on show. *)
LEMMA LoadFailsInv ==
  ASSUME ApiTypeOK, SlaOn, LoadFails
  PROVE  SlaOn'
<1> DEFINE page == [sla EXCEPT !.failed = TRUE]
<1>1. page \in SlaState /\ page.assigning = sla.assigning /\ page.failed
  BY DEF SlaOn, SlaType, SlaState
<1>2. slaLoad.on /\ LoadOver(page)
  BY DEF LoadFails
<1> QED BY <1>1, <1>2, LoadOverInv

(* A load that ends shows the rows of both walks. *)
LEMMA LoadSucceedsInv ==
  ASSUME SlaOn, LoadSucceeds
  PROVE  SlaOn'
<1> DEFINE all == slaLoad.walk["abierto"].items \o slaLoad.walk["en_progreso"].items
           page == [sla EXCEPT !.loaded = TRUE, !.tickets = all]
<1>1. all \in Seq(Rows)
  <2>1. slaLoad.walk["abierto"] \in Walks /\ slaLoad.walk["en_progreso"] \in Walks
    BY LoadTypes DEF LoadSucceeds, SlaOn, Loads, Unresolved
  <2> QED BY <2>1, ConcatProperties DEF Walks
<1> HIDE DEF all
<1>2. page \in SlaState /\ page.assigning = sla.assigning /\ page.loaded
  BY <1>1 DEF SlaOn, SlaType, SlaState
<1>3. slaLoad.on /\ LoadOver(page)
  BY DEF LoadSucceeds, all
<1> QED BY <1>2, <1>3, LoadOverInv

(* A click on "Asignarme". *)
LEMMA SlaHandleAssignMeInv ==
  ASSUME ApiTypeOK, UNCHANGED apiVars, SlaOn, NEW r \in Rows, SlaHandleAssignMe(r)
  PROVE  SlaOn'
<1>1. slaAssign' \in SlaCalls /\ slaAssign'.on
  BY DEF SlaHandleAssignMe, SlaCalls, Rows
<1>2. sla' \in SlaState /\ sla'.loaded = sla.loaded /\ sla.loaded
  BY DEF SlaHandleAssignMe, SlaAssignOffered, SlaOn, SlaType, SlaState
<1>3. slaLoad' = slaLoad
  BY DEF SlaHandleAssignMe
<1>4. slaLoad'.on => LoadInv(slaLoad)'
  <2>1. slaLoad.on => slaLoad \in Loads /\ LoadInv(slaLoad)
    BY LoadTypes DEF SlaOn
  <2> QED BY <1>3, <2>1, LoadStays, ApiUnchanged
<1> QED BY <1>1, <1>2, <1>3, <1>4 DEF SlaOn, SlaType, SlaWaits

(* The API serves the assignment. *)
LEMMA ServeSlaAssignInv ==
  ASSUME ApiTypeOK, SlaOn, ServeSlaAssign
  PROVE  SlaOn' /\ ApiStep
<1>1. slaAssign \in SlaCalls /\ UNCHANGED <<sla, slaLoad>>
  BY LoadTypes DEF SlaOn, ServeSlaAssign
<1>2. PICK code \in Codes :
        /\ ServeAssign(slaAssign.id, slaAssign.version, code)
        /\ slaAssign' = [slaAssign EXCEPT !.code = code]
  BY DEF ServeSlaAssign
<1>3. ApiStep
  <2>1. slaAssign.id \in Tickets
    BY <1>1 DEF SlaCalls
  <2> QED BY <2>1, <1>2, ServeAssignStep
<1>4. slaAssign' \in SlaCalls /\ slaAssign'.on = slaAssign.on
  BY <1>1, <1>2 DEF SlaCalls
<1>5. slaLoad'.on => LoadInv(slaLoad)'
  <2>1. slaLoad.on => slaLoad \in Loads /\ LoadInv(slaLoad)
    BY LoadTypes DEF SlaOn
  <2> QED BY <1>1, <1>3, <2>1, LoadStays
<1>6. SlaWaits'
  BY <1>1, <1>4 DEF SlaOn, SlaWaits
<1> QED BY <1>1, <1>3, <1>4, <1>5, <1>6 DEF SlaOn, SlaType

(* The answer to the assignment, which begins a load. *)
LEMMA SlaAssignArrivesInv ==
  ASSUME ApiTypeOK, UNCHANGED apiVars, SlaOn, SlaAssignArrives
  PROVE  SlaOn'
<1>1. slaAssign' = NoCall
  BY DEF SlaAssignArrives
<1>2. CASE slaLoad' = NewLoad(TRUE) /\ sla' = [sla EXCEPT !.failed = FALSE]
  <2>1. slaLoad' \in Loads /\ LoadInv(slaLoad)' /\ slaLoad'.on /\ slaLoad'.awaited = TRUE
    BY <1>2, LoadBegins
  <2>2. sla' \in SlaState /\ sla'.assigning = sla.assigning
    BY <1>2 DEF SlaOn, SlaType, SlaState
  <2> QED BY <1>1, <2>1, <2>2 DEF SlaOn, SlaType, SlaWaits
<1>3. CASE sla' = [sla EXCEPT !.assigning = FALSE] /\ UNCHANGED slaLoad
  <2>1. /\ sla' \in SlaState /\ ~sla'.assigning
        /\ sla'.loaded = sla.loaded /\ sla'.failed = sla.failed
    BY <1>3 DEF SlaOn, SlaType, SlaState
  <2>2. slaLoad'.on => LoadInv(slaLoad)'
    <3>1. slaLoad.on => slaLoad \in Loads /\ LoadInv(slaLoad)
      BY LoadTypes DEF SlaOn
    <3> QED BY <1>3, <3>1, LoadStays, ApiUnchanged
  <2> QED BY <1>1, <1>3, <2>1, <2>2 DEF SlaOn, SlaType, SlaWaits
<1> QED BY <1>2, <1>3 DEF SlaAssignArrives

(* Every step of the board preserves its invariant. *)
LEMMA SlaStepInv ==
  ASSUME ApiTypeOK, SlaInv, SlaStep
  PROVE  SlaOn /\ SlaOn' /\ ApiStep
<1>1. CASE SlaOff
  BY <1>1 DEF SlaOff, SlaNotMounted, NoLoad, NoCall, SlaStep, SlaLoading, SlaAnswer,
              Interval, Walk, LoadSucceeds, LoadFails, ServeSlaAssign, SlaAssignArrives
<1>2. CASE SlaOn
  <2>1. CASE LoadFails /\ UNCHANGED <<row, made, role, changes>>
    BY <1>2, <2>1, LoadFailsInv, ApiFault DEF SlaInv, LoadFails
  <2>2. CASE ServeSlaAssign
    BY <1>2, <2>2, ServeSlaAssignInv DEF SlaInv
  <2>3. CASE UNCHANGED apiVars /\ sla.mounted
             /\ \E i \in relevant : SlaHandleAssignMe(sla.tickets[i])
    <3>1. \A i \in relevant : sla.tickets[i] \in Rows
      BY <1>2, ElementOfSeq DEF SlaOn, SlaType, SlaState, relevant
    <3> QED BY <1>2, <2>3, <3>1, SlaHandleAssignMeInv, ApiUnchanged DEF SlaInv
  <2>4. CASE UNCHANGED apiVars
             /\ (Interval \/ (\E s \in Unresolved : Walk(s)) \/ LoadSucceeds \/ SlaAssignArrives)
    BY <1>2, <2>4, IntervalInv, WalkStepInv, LoadSucceedsInv, SlaAssignArrivesInv,
       ApiUnchanged DEF SlaInv
  <2> QED BY <2>1, <2>2, <2>3, <2>4 DEF SlaStep, SlaLoading, SlaAnswer
<1> QED BY <1>1, <1>2 DEF SlaInv

(* What the board shows when a load ends. *)
LEMMA LoadEndsExact ==
  ASSUME ApiTypeOK, SlaInv, LoadSucceeds
  PROVE  LET moved == {t \in Tickets : slaLoad.from[t] # row[t].status}
         IN /\ \A t \in Tickets \ moved : Times(t, sla'.tickets) <= 1
            /\ moved = {} => \A t \in Visible \cap slaLoad.there :
                 row[t].status # "resuelto"
                   /\ Cardinality(WithStatus(row[t].status)) <= MAX_TICKETS
                 => Times(t, sla'.tickets) = 1
<1> DEFINE moved == {t \in Tickets : slaLoad.from[t] # row[t].status}
           from == slaLoad.from
           there == slaLoad.there
           open == slaLoad.walk["abierto"]
           going == slaLoad.walk["en_progreso"]
           all == open.items \o going.items
<1>1. /\ slaLoad \in Loads /\ LoadInv(slaLoad)
      /\ open \in Walks /\ going \in Walks /\ open.done /\ going.done
      /\ WalkInv(from, there, "abierto", open) /\ WalkInv(from, there, "en_progreso", going)
      /\ from \in [Tickets -> TicketStatus]
  <2>1. SlaOn /\ slaLoad.on
    BY DEF LoadSucceeds, SlaInv, SlaOff, NoLoad
  <2>2. slaLoad \in Loads /\ LoadInv(slaLoad)
    BY <2>1, LoadTypes DEF SlaOn
  <2> QED BY <2>2 DEF LoadInv, Loads, Unresolved, LoadSucceeds
<1>2. sla'.tickets = all
  <2>1. SlaOn /\ slaLoad.on
    BY DEF LoadSucceeds, SlaInv, SlaOff, NoLoad
  <2>2. sla \in SlaState
    BY <2>1 DEF SlaOn, SlaType
  <2> QED BY <2>2 DEF LoadSucceeds, LoadOver, SlaState
<1>3. open.items \in Seq(Rows) /\ going.items \in Seq(Rows)
      /\ InOrder(open.items) /\ InOrder(going.items)
  BY <1>1 DEF Walks, WalkInv
<1>4. \A t : Has(all, t) <=> Has(open.items, t) \/ Has(going.items, t)
  BY <1>3, AppendHas
<1> HIDE DEF all, open, going
<1>5. ASSUME NEW t \in Tickets, t \notin moved
      PROVE  Times(t, all) = IF Has(all, t) THEN 1 ELSE 0
  <2>1. ~ (Has(open.items, t) /\ Has(going.items, t))
    <3> SUFFICES ASSUME Has(open.items, t), Has(going.items, t) PROVE FALSE
      OBVIOUS
    <3>1. WasIn(from, t, "abierto") /\ WasIn(from, t, "en_progreso")
      BY <1>1 DEF WalkInv, Has
    <3>2. from[t] = row[t].status
      BY <1>5
    <3> QED BY <3>1, <3>2 DEF WasIn, Later
  <2> QED BY <2>1, <1>3, OnceInEither DEF all, Times
<1>6. ASSUME moved = {}, NEW t \in Visible \cap there, row[t].status # "resuelto",
             Cardinality(WithStatus(row[t].status)) <= MAX_TICKETS
      PROVE  Has(all, t)
  <2>1. NoneMoved(from) /\ t \in Tickets
    BY <1>6, WithStatusType DEF NoneMoved
  <2> DEFINE s == row[t].status
             w == IF s = "abierto" THEN open ELSE going
             S == WithStatus(s)
  <2>2. s \in Unresolved /\ t \in S
    BY <1>6, <2>1, RowFields DEF ApiTypeOK, TicketStatus, Unresolved, WithStatus
  <2>3. w \in Walks /\ w.done /\ WalkInv(from, there, s, w)
    BY <1>1, <2>2 DEF Unresolved
  <2>4. Cardinality(S) <= MAX_TICKETS /\ S \subseteq Tickets
    BY <1>6, WithStatusType
  <2>5. Has(w.items, t) => Has(all, t)
    BY <1>4
  <2>6. \A u \in Tickets : WasIn(from, u, s) => u \in S
    <3> SUFFICES ASSUME NEW u \in Tickets, WasIn(from, u, s) PROVE u \in S
      OBVIOUS
    <3>1. from[u] = row[u].status /\ row[u].status \in TicketStatus /\ s \in TicketStatus
      BY <2>1, <2>2, RowFields DEF NoneMoved, ApiTypeOK, Unresolved, TicketStatus
    <3> QED BY <3>1, LaterIsAnOrder DEF WasIn, WithStatus
  <2> HIDE DEF w, S, s
  <2>7. CASE w.cursor = NoCursor
    BY <2>1, <2>2, <2>3, <2>5, <2>7 DEF WalkInv, S
  <2>8. CASE Len(w.items) >= MAX_TICKETS
    <3>1. w.items \in Seq(Rows) /\ InOrder(w.items)
      BY <2>3 DEF Walks, WalkInv
    <3>2. \A i \in DOMAIN w.items : w.items[i].id \in S
      BY <2>3, <2>6, <3>1, RowsOfSeq DEF WalkInv
    <3>3. /\ Cardinality(S) \in Nat /\ Len(w.items) \in Nat
          /\ Len(w.items) <= Cardinality(S)
          /\ Len(w.items) = Cardinality(S) => \A u \in S : Has(w.items, u)
      BY <2>4, <3>1, <3>2, LongEnough
    <3>4. Len(w.items) = Cardinality(S)
      BY <2>4, <2>8, <3>3, SlaAssumption
    <3> QED BY <2>2, <2>5, <3>3, <3>4
  <2> QED BY <2>3, <2>7, <2>8 DEF WalkInv
<1>7. ASSUME NEW t \in Visible PROVE t \in Tickets
  BY <1>7, WithStatusType
<1> QED BY <1>2, <1>5, <1>6, <1>7

-----------------------------------------------------------------------------
(* The types of the reports. *)
ReportData == [tickets : Seq(Rows), truncated : BOOLEAN, known : BOOLEAN]

ReportsState ==
  [mounted : {TRUE}, period : Periods, data : ReportData,
   loading : BOOLEAN, downloading : BOOLEAN]

ReportWalks ==
  [on : {TRUE}, period : Periods, tickets : Seq(Rows), cursor : Cursors,
   more : BOOLEAN, there : SUBSET Tickets, resolved : SUBSET Tickets]

Streams ==
  [on : {TRUE}, tickets : Seq(Rows), cursor : Cursors, more : BOOLEAN,
   broken : BOOLEAN, resolved : SUBSET Tickets]

ReportsType ==
  /\ reports \in ReportsState
  /\ repLoad \in ReportWalks \cup {NoReport}
  /\ csv \in Streams \cup {NoReport}

(* A walk l over S, which keeps what it has. *)
WalkOver(l, S) ==
  /\ InOrder(l.tickets)
  /\ \A i \in DOMAIN l.tickets : l.tickets[i].id \in S
  /\ l.cursor \in S \cup {NoCursor}
  /\ l.more => UpTo(l.tickets, l.cursor)

(* The walk of the report: complete up to its cursor but for new tickets,  *)
(* with its resolved rows between those that were resolved when it began   *)
(* and those that are.                                                     *)
PeriodWalk(l) ==
  /\ WalkOver(l, InPeriod(l.period))
  /\ l.there \subseteq made
  /\ \A t \in InPeriod(l.period) \cap l.there :
       t <= l.cursor \/ (~l.more /\ l.cursor = NoCursor) => Has(l.tickets, t)
  /\ ~l.more => l.cursor = NoCursor \/ Len(l.tickets) >= MAX_REPORT_TICKETS
  /\ l.resolved \subseteq Resolved \cap l.there
  /\ \A i \in DOMAIN l.tickets :
       /\ l.tickets[i].id \in l.resolved => l.tickets[i].status = "resuelto"
       /\ l.tickets[i].status = "resuelto" => l.tickets[i].id \in Resolved

(* The walk of the file, over what is resolved: complete up to its last    *)
(* row, and altogether when it ends by itself.                             *)
FileWalk(l) ==
  /\ WalkOver(l, Resolved)
  /\ l.resolved \subseteq Resolved
  /\ l.more => ~l.broken
  /\ \A t \in l.resolved :
       \/ l.more /\ t <= l.cursor
       \/ \E i \in DOMAIN l.tickets : t <= l.tickets[i].id
       \/ ~l.more /\ ~l.broken
       => Has(l.tickets, t)

(* The reports while they are mounted, and their invariant. *)
ReportsOn ==
  /\ ReportsType
  /\ reports.loading <=> repLoad.on
  /\ reports.downloading <=> csv.on
  /\ repLoad.on => PeriodWalk(repLoad)
  /\ csv.on => FileWalk(csv)

ReportsInv == ReportsOn \/ ReportsOff

(* Periods are made of tickets. *)
LEMMA PeriodType ==
  ASSUME ApiTypeOK
  PROVE  \A period : InPeriod(period) \subseteq Tickets
BY ReportAssumption DEF InPeriod, ApiTypeOK

(* The fields of a walk. *)
LEMMA WalkTypes ==
  ASSUME ReportsType
  PROVE  /\ repLoad.on \in BOOLEAN /\ csv.on \in BOOLEAN
         /\ repLoad.on <=> repLoad \in ReportWalks
         /\ csv.on <=> csv \in Streams
<1>1. (\A l \in ReportWalks : l.on = TRUE) /\ (\A l \in Streams : l.on = TRUE)
  BY DEF ReportWalks, Streams
<1>2. NoReport.on = FALSE
  BY DEF NoReport
<1> QED BY <1>1, <1>2, Zenon DEF ReportsType

(* A ticket that is resolved stays so. *)
LEMMA ResolvedStays ==
  ASSUME ApiTypeOK, ApiStep
  PROVE  Resolved \subseteq Resolved'
<1>1. \A t \in Tickets : row[t].status = "resuelto" => row'[t].status = "resuelto"
  BY DEF ApiStep, RowsEvolve, Later
<1> QED BY <1>1 DEF Resolved, ApiTypeOK, ApiStep

(* The rows evolve under a walk. *)
LEMMA WalksStay ==
  ASSUME ApiTypeOK, ApiStep
  PROVE  /\ \A l \in ReportWalks : PeriodWalk(l) => PeriodWalk(l)'
         /\ \A l \in Streams : FileWalk(l) => FileWalk(l)'
<1>1. Resolved \subseteq Resolved'
  BY ResolvedStays
<1>2. /\ made \subseteq made'
      /\ \A period : /\ InPeriod(period) \subseteq InPeriod(period)'
                     /\ InPeriod(period)' \cap made \subseteq InPeriod(period)
  BY DEF InPeriod, ApiStep
<1>3. ASSUME NEW l \in ReportWalks, PeriodWalk(l)
      PROVE  PeriodWalk(l)'
  <2>1. WalkOver(l, InPeriod(l.period)')
    BY <1>2, <1>3 DEF PeriodWalk, WalkOver
  <2>2. l.there \subseteq made' /\ InPeriod(l.period)' \cap l.there \subseteq InPeriod(l.period)
    BY <1>2, <1>3 DEF PeriodWalk
  <2> QED BY <1>1, <1>3, <2>1, <2>2 DEF PeriodWalk, WalkOver
<1>4. ASSUME NEW l \in Streams, FileWalk(l)
      PROVE  FileWalk(l)'
  BY <1>1, <1>4 DEF FileWalk, WalkOver
<1> QED BY <1>3, <1>4

(* A walk begins. *)
LEMMA NewWalk ==
  ASSUME ApiTypeOK, NEW period \in Periods
  PROVE  /\ NewReport(period) \in ReportWalks /\ NewReport(period).on = TRUE
         /\ PeriodWalk(NewReport(period))
         /\ NewStream \in Streams /\ NewStream.on = TRUE /\ FileWalk(NewStream)
<1> DEFINE l == NewReport(period)
           f == NewStream
<1>0. Resolved \subseteq made /\ made \subseteq Tickets
  BY DEF Resolved, ApiTypeOK
<1>1. /\ l \in ReportWalks /\ l.on = TRUE /\ l.tickets = <<>> /\ l.cursor = NoCursor
      /\ l.more = TRUE /\ l.resolved = Resolved /\ l.period = period /\ l.there = made
  BY <1>0, NoRows, CursorType DEF NewReport, ReportWalks
<1>6. /\ f \in Streams /\ f.on = TRUE /\ f.tickets = <<>> /\ f.cursor = NoCursor
      /\ f.more = TRUE /\ f.broken = FALSE /\ f.resolved = Resolved
  BY <1>0, NoRows, CursorType DEF NewStream, Streams
<1> HIDE DEF l, f
<1>2. DOMAIN <<>> = {}
  OBVIOUS
<1>3. \A t \in Tickets : ~ (t <= NoCursor)
  <2>1. \A t \in Tickets : t \in Nat /\ 0 < t
    BY ApiAssumption
  <2> QED BY <2>1 DEF NoCursor
<1>4. PeriodWalk(l)
  BY <1>0, <1>1, <1>2, <1>3, NoRows, PeriodType DEF PeriodWalk, WalkOver
<1>5. FileWalk(f)
  BY <1>0, <1>2, <1>3, <1>6, NoRows DEF FileWalk, WalkOver
<1> QED BY <1>1, <1>4, <1>5, <1>6 DEF l, f

(* A page is appended to a walk over S. *)
Walked(l, S, page, all) ==
  /\ all \in Seq(Rows) /\ InOrder(all)
  /\ \A k \in DOMAIN all : all[k].id \in S
  /\ \A k \in DOMAIN all : \/ \E i \in DOMAIN l.tickets : all[k] = l.tickets[i]
                          \/ all[k] = Row(all[k].id)
  /\ page.nextCursor \in S \cup {NoCursor} /\ page.nextCursor \in Cursors
  /\ page.nextCursor # NoCursor => UpTo(all, page.nextCursor)
  /\ \A t : Has(l.tickets, t) => Has(all, t)
  /\ \A t \in S : l.cursor < t /\ (page.nextCursor = NoCursor \/ t <= page.nextCursor)
       => Has(all, t)

(* A page appended to a walk over a set that only grows. *)
LEMMA PageWalked ==
  ASSUME ApiTypeOK, NEW l \in ReportWalks \cup Streams, NEW S, S \subseteq Tickets,
         WalkOver(l, S), l.more,
         NEW limit \in Nat \ {0}
  PROVE  LET page == Page(S, l.cursor, limit)
         IN /\ Walked(l, S, page, l.tickets \o page.items)
            /\ page.nextCursor # NoCursor <=> Len(page.items) = limit
<1> DEFINE page == Page(S, l.cursor, limit)
           items == page.items
           next == page.nextCursor
           all == l.tickets \o items
<1>1. l.tickets \in Seq(Rows) /\ l.cursor \in Cursors /\ l.cursor \in Nat
  BY CursorType DEF ReportWalks, Streams
<1>2. PageOK(S, l.cursor, limit, page)
  BY <1>1, PageProperties DEF ApiTypeOK
<1> HIDE DEF page
<1>3. /\ items \in Seq(Rows) /\ next \in Cursors /\ next \in Nat
      /\ InOrder(items) /\ Beyond(items, l.cursor)
      /\ \A i \in DOMAIN items : items[i].id \in S /\ items[i] = Row(items[i].id)
      /\ next \in S \cup {NoCursor}
      /\ next # NoCursor <=> Len(items) = limit
      /\ next # NoCursor => l.cursor < next /\ UpTo(items, next)
      /\ \A t \in S : l.cursor < t /\ (next = NoCursor \/ t <= next) => Has(items, t)
  BY <1>2, CursorType DEF PageOK, WalkOver
<1> HIDE DEF items, next
<1>4. InOrder(l.tickets) /\ UpTo(l.tickets, l.cursor)
      /\ \A i \in DOMAIN l.tickets : l.tickets[i].id \in S
  BY DEF WalkOver
<1>5. /\ all \in Seq(Rows) /\ InOrder(all)
      /\ \A n \in Nat : l.cursor <= n /\ UpTo(items, n) => UpTo(all, n)
  BY <1>1, <1>3, <1>4, AppendPage
<1>6. /\ \A k \in DOMAIN all : \/ \E i \in DOMAIN l.tickets : all[k] = l.tickets[i]
                              \/ \E i \in DOMAIN items : all[k] = items[i]
      /\ \A t : Has(all, t) <=> Has(l.tickets, t) \/ Has(items, t)
  BY <1>1, <1>3, AppendHas
<1> HIDE DEF all
<1>7. next # NoCursor => UpTo(all, next)
  BY <1>1, <1>3, <1>5
<1>8. \A k \in DOMAIN all : /\ all[k].id \in S
                            /\ \/ \E i \in DOMAIN l.tickets : all[k] = l.tickets[i]
                               \/ all[k] = Row(all[k].id)
  BY <1>3, <1>4, <1>6
<1>9. Walked(l, S, page, all)
  BY <1>3, <1>5, <1>6, <1>7, <1>8 DEF Walked, next
<1> QED BY <1>3, <1>9 DEF all, items, next, page

(* The report reads a page. *)
LEMMA ReportWalkInv ==
  ASSUME ApiTypeOK, NEW l \in ReportWalks, PeriodWalk(l), l.more
  PROVE  FetchPage(l) \in ReportWalks /\ PeriodWalk(FetchPage(l)) /\ FetchPage(l).on = TRUE
<1> DEFINE S == InPeriod(l.period)
           page == Page(S, l.cursor, ReportLimit)
           next == page.nextCursor
           all == l.tickets \o page.items
           more == next # NoCursor /\ Len(all) < MAX_REPORT_TICKETS
           new == FetchPage(l)
<1>1. S \subseteq Tickets /\ WalkOver(l, S)
  BY PeriodType DEF PeriodWalk
<1>2. Walked(l, S, page, all)
  BY <1>1, PageWalked, ReportAssumption
<1>3. new = [l EXCEPT !.tickets = all, !.cursor = next, !.more = more]
  BY DEF FetchPage
<1>4. more \in BOOLEAN /\ (more => next # NoCursor)
      /\ (~more => next = NoCursor \/ ~ (Len(all) < MAX_REPORT_TICKETS))
  OBVIOUS
<1>5. all \in Seq(Rows) /\ next \in Cursors
  BY <1>2 DEF Walked
<1>6. ~more => next = NoCursor \/ Len(all) >= MAX_REPORT_TICKETS
  <2>1. Len(all) \in Nat /\ MAX_REPORT_TICKETS \in Nat
    BY <1>5, LenProperties, ReportAssumption
  <2> HIDE DEF all
  <2> QED BY <1>4, <2>1
<1> HIDE DEF S, page, next, all, more, new
<1>7. /\ new \in ReportWalks /\ new.tickets = all /\ new.cursor = next /\ new.more = more
      /\ new.period = l.period /\ new.resolved = l.resolved /\ new.there = l.there
      /\ new.on = TRUE
  BY <1>3, <1>4, <1>5 DEF ReportWalks
<1>8. WalkOver(new, S)
  BY <1>2, <1>4, <1>7 DEF WalkOver, Walked, next
<1>9. ASSUME NEW t \in S \cap l.there, t <= next \/ (~more /\ next = NoCursor)
      PROVE  Has(all, t)
  <2>1. t \in Nat /\ l.cursor \in Nat
    BY <1>1, ApiAssumption, CursorType DEF ReportWalks
  <2>2. CASE t <= l.cursor
    BY <1>2, <1>9, <2>2 DEF PeriodWalk, Walked, S
  <2>3. CASE l.cursor < t
    BY <1>2, <1>9, <2>3 DEF Walked, next
  <2> QED BY <2>1, <2>2, <2>3
<1>10. ASSUME NEW k \in DOMAIN all
       PROVE  /\ all[k].id \in l.resolved => all[k].status = "resuelto"
              /\ all[k].status = "resuelto" => all[k].id \in Resolved
  <2>1. CASE \E i \in DOMAIN l.tickets : all[k] = l.tickets[i]
    BY <2>1 DEF PeriodWalk
  <2>2. CASE all[k] = Row(all[k].id)
    <3>1. all[k].id \in Tickets /\ all[k].id \in made
      BY <1>1, <1>2 DEF Walked, S, InPeriod
    <3>2. all[k].status = row[all[k].id].status
      BY <2>2, <3>1, RowType DEF ApiTypeOK
    <3> QED BY <3>1, <3>2 DEF PeriodWalk, Resolved
  <2> QED BY <1>2, <2>1, <2>2 DEF Walked
<1>11. PeriodWalk(new)
  BY <1>6, <1>7, <1>8, <1>9, <1>10 DEF PeriodWalk, S
<1> QED BY <1>7, <1>11 DEF new

(* The file reads a batch. *)
LEMMA CsvBatchInv ==
  ASSUME ApiTypeOK, NEW l \in Streams, FileWalk(l), l.more
  PROVE  NextBatch(l) \in Streams /\ FileWalk(NextBatch(l)) /\ NextBatch(l).on = TRUE
<1> DEFINE page == Page(Resolved, l.cursor, Batch)
           next == page.nextCursor
           all == l.tickets \o page.items
           more == Len(page.items) = Batch
           new == NextBatch(l)
<1>1. Resolved \subseteq Tickets /\ WalkOver(l, Resolved)
  BY DEF FileWalk, Resolved, ApiTypeOK
<1>2. Walked(l, Resolved, page, all) /\ (next # NoCursor <=> more)
  BY <1>1, PageWalked, ReportAssumption
<1>3. new = [l EXCEPT !.tickets = all, !.more = more, !.cursor = next]
  BY DEF NextBatch, Streams
<1>4. more \in BOOLEAN
  OBVIOUS
<1>5. all \in Seq(Rows) /\ next \in Cursors
  BY <1>2 DEF Walked
<1> HIDE DEF page, next, all, more, new
<1>6. /\ new \in Streams /\ new.tickets = all /\ new.cursor = next /\ new.more = more
      /\ new.resolved = l.resolved /\ new.on = TRUE /\ new.broken = l.broken
  BY <1>3, <1>4, <1>5 DEF Streams
<1>7. WalkOver(new, Resolved)
  BY <1>2, <1>6 DEF WalkOver, Walked, next
<1>8. ASSUME NEW t \in l.resolved,
             \/ more /\ t <= next
             \/ \E i \in DOMAIN all : t <= all[i].id
             \/ ~more
      PROVE  Has(all, t)
  <2>1. t \in Resolved /\ t \in Nat /\ l.cursor \in Nat /\ next \in Nat
    BY <1>1, <1>5, ApiAssumption, CursorType DEF FileWalk, Streams
  <2>2. next = NoCursor \/ t <= next
    <3> SUFFICES ASSUME NEW i \in DOMAIN all, t <= all[i].id, next # NoCursor
                 PROVE  t <= next
      BY <1>2, <1>8
    <3>1. all[i].id <= next
      BY <1>2 DEF Walked, UpTo, next
    <3>2. all[i].id \in Nat
      BY <1>1, <1>2, ApiAssumption DEF Walked
    <3> QED BY <2>1, <3>1, <3>2
  <2>3. CASE t <= l.cursor
    BY <1>2, <2>3 DEF FileWalk, Walked
  <2>4. CASE l.cursor < t
    BY <1>2, <2>1, <2>2, <2>4 DEF Walked, next
  <2> QED BY <2>1, <2>3, <2>4
<1>9. ~l.broken
  BY DEF FileWalk
<1>10. FileWalk(new)
  BY <1>1, <1>6, <1>7, <1>8, <1>9 DEF FileWalk
<1> QED BY <1>6, <1>10 DEF new

(* A stream that breaks off keeps what was read, in order and without gaps. *)
LEMMA CsvBreaksInv ==
  ASSUME NEW l \in Streams, FileWalk(l), l.more
  PROVE  LET new == [l EXCEPT !.more = FALSE, !.broken = TRUE]
         IN new \in Streams /\ FileWalk(new) /\ new.on = TRUE
<1> DEFINE new == [l EXCEPT !.more = FALSE, !.broken = TRUE]
<1>1. /\ new \in Streams /\ new.tickets = l.tickets /\ new.cursor = l.cursor
      /\ new.more = FALSE /\ new.broken = TRUE /\ new.resolved = l.resolved
      /\ new.on = TRUE
  BY DEF Streams
<1> HIDE DEF new
<1>2. FileWalk(new)
  BY <1>1 DEF FileWalk, WalkOver
<1> QED BY <1>1, <1>2 DEF new

-----------------------------------------------------------------------------
(* The page *)

(* What is under way when the page is on. *)
LEMMA WalksOfPage ==
  ASSUME ReportsOn
  PROVE  /\ repLoad.on => repLoad \in ReportWalks /\ PeriodWalk(repLoad)
         /\ csv.on => csv \in Streams /\ FileWalk(csv)
         /\ reports \in ReportsState /\ repLoad.on \in BOOLEAN /\ csv.on \in BOOLEAN
BY WalkTypes DEF ReportsOn, ReportsType

(* What a step of the page leaves true of its walks. *)
LEMMA ReportsChange ==
  ASSUME ApiTypeOK, ApiStep, ReportsOn, reports' \in ReportsState,
         \/ UNCHANGED repLoad
         \/ repLoad' = NoReport
         \/ \E l \in ReportWalks : repLoad' = l /\ PeriodWalk(l),
         \/ UNCHANGED csv
         \/ csv' = NoReport
         \/ \E l \in Streams : csv' = l /\ FileWalk(l),
         reports'.loading <=> repLoad'.on, reports'.downloading <=> csv'.on
  PROVE  ReportsOn'
<1>1. /\ \A l \in ReportWalks : l.on = TRUE /\ (PeriodWalk(l) => PeriodWalk(l)')
      /\ \A l \in Streams : l.on = TRUE /\ (FileWalk(l) => FileWalk(l)')
  BY WalksStay DEF ReportWalks, Streams
<1>2. NoReport.on = FALSE
  BY DEF NoReport
<1>3. repLoad' \in ReportWalks \cup {NoReport} /\ (repLoad'.on => PeriodWalk(repLoad)')
  <2>1. CASE UNCHANGED repLoad
    BY <1>1, <2>1, WalksOfPage DEF ReportsOn, ReportsType
  <2>2. CASE repLoad' = NoReport
    BY <1>2, <2>2
  <2>3. ASSUME NEW l \in ReportWalks, repLoad' = l, PeriodWalk(l)
        PROVE  repLoad' \in ReportWalks \cup {NoReport} /\ PeriodWalk(repLoad)'
    BY <1>1, <2>3
  <2> QED BY <2>1, <2>2, <2>3
<1>4. csv' \in Streams \cup {NoReport} /\ (csv'.on => FileWalk(csv)')
  <2>1. CASE UNCHANGED csv
    BY <1>1, <2>1, WalksOfPage DEF ReportsOn, ReportsType
  <2>2. CASE csv' = NoReport
    BY <1>2, <2>2
  <2>3. ASSUME NEW l \in Streams, csv' = l, FileWalk(l)
        PROVE  csv' \in Streams \cup {NoReport} /\ FileWalk(csv)'
    BY <1>1, <2>3
  <2> QED BY <2>1, <2>2, <2>3
<1> QED BY <1>3, <1>4 DEF ReportsOn, ReportsType

(* The page is not touched, while the rows evolve. *)
LEMMA ReportsStays ==
  ASSUME ApiTypeOK, ApiStep, ReportsInv, UNCHANGED reportVars
  PROVE  ReportsInv'
<1>1. UNCHANGED <<reports, repLoad, csv>>
  BY DEF reportVars
<1>2. CASE ReportsOff
  BY <1>1, <1>2 DEF ReportsInv, ReportsOff
<1>3. CASE ReportsOn
  <2>1. /\ reports' \in ReportsState
        /\ reports'.loading <=> repLoad'.on
        /\ reports'.downloading <=> csv'.on
    BY <1>1, <1>3 DEF ReportsOn, ReportsType
  <2> QED BY <1>1, <1>3, <2>1, ReportsChange DEF ReportsInv
<1> QED BY <1>2, <1>3 DEF ReportsInv

(* The page is left. *)
LEMMA ReportsLeaves ==
  ASSUME ReportsUnmount
  PROVE  ReportsInv'
BY DEF ReportsUnmount, ReportsInv, ReportsOff

(* The page is mounted, with a report under way. *)
LEMMA ReportsMounts ==
  ASSUME ApiTypeOK, UNCHANGED apiVars, ReportsMount
  PROVE  ReportsOn'
<1>1. /\ NewReport("largo") \in ReportWalks /\ NewReport("largo").on = TRUE
      /\ PeriodWalk(NewReport("largo"))
  BY NewWalk DEF Periods
<1>2. ReportsMounted \in ReportsState /\ ReportsMounted.loading = TRUE
      /\ ReportsMounted.downloading = FALSE
  BY NoRows DEF ReportsMounted, ReportsState, ReportData, NoData, Periods
<1>3. reports' = ReportsMounted /\ repLoad' = NewReport("largo") /\ csv' = NoReport
  BY DEF ReportsMount
<1>4. \A l \in ReportWalks : PeriodWalk(l) => PeriodWalk(l)'
  BY WalksStay, ApiUnchanged
<1>5. ~NoReport.on
  BY DEF NoReport
<1> QED BY <1>1, <1>2, <1>3, <1>4, <1>5 DEF ReportsOn, ReportsType

(* The clicks of the user. *)
LEMMA ReportsUserInv ==
  ASSUME ApiTypeOK, UNCHANGED apiVars, ReportsOn, ReportsUser
  PROVE  ReportsOn'
<1>1. reports \in ReportsState /\ reports.period \in Periods /\ ApiStep
  BY WalksOfPage, ApiUnchanged DEF ReportsState
<1>2. (reports.loading <=> repLoad.on) /\ (reports.downloading <=> csv.on)
  BY DEF ReportsOn
<1>3. ASSUME NEW period \in Periods, SetPeriod(period) PROVE ReportsOn'
  <2>1. /\ reports' \in ReportsState /\ reports'.loading = reports.loading
        /\ reports'.downloading = reports.downloading /\ UNCHANGED <<repLoad, csv>>
    BY <1>1, <1>3 DEF SetPeriod, ReportsState
  <2> QED BY <1>1, <1>2, <2>1, ReportsChange
<1>4. CASE Apply
  <2>1. /\ reports' \in ReportsState /\ reports'.loading = TRUE
        /\ reports'.downloading = reports.downloading
        /\ repLoad' = NewReport(reports.period) /\ UNCHANGED csv
    BY <1>1, <1>4 DEF Apply, ReportsState
  <2>2. /\ NewReport(reports.period) \in ReportWalks
        /\ NewReport(reports.period).on = TRUE /\ PeriodWalk(NewReport(reports.period))
    BY <1>1, NewWalk
  <2> QED BY <1>1, <1>2, <2>1, <2>2, ReportsChange
<1>5. CASE HandleDownloadCsv
  <2>1. /\ reports' \in ReportsState /\ reports'.downloading = TRUE
        /\ reports'.loading = reports.loading
        /\ csv' = NewStream /\ UNCHANGED repLoad
    BY <1>1, <1>5 DEF HandleDownloadCsv, ReportsState
  <2>2. NewStream \in Streams /\ NewStream.on = TRUE /\ FileWalk(NewStream)
    BY <1>1, NewWalk
  <2> QED BY <1>1, <1>2, <2>1, <2>2, ReportsChange
<1> QED BY <1>3, <1>4, <1>5 DEF ReportsUser

(* The report keeps no more than the limit of what was read. *)
LEMMA PeriodTicketsType ==
  ASSUME NEW l \in ReportWalks
  PROVE  /\ PeriodTickets(l) \in ReportData
         /\ Len(PeriodTickets(l).tickets) <= Len(l.tickets)
         /\ \A i \in DOMAIN PeriodTickets(l).tickets :
              i \in DOMAIN l.tickets /\ PeriodTickets(l).tickets[i] = l.tickets[i]
         /\ Len(l.tickets) <= MAX_REPORT_TICKETS => PeriodTickets(l).tickets = l.tickets
<1> DEFINE n == Len(l.tickets)
           k == IF n > MAX_REPORT_TICKETS THEN MAX_REPORT_TICKETS ELSE n
           cut == SubSeq(l.tickets, 1, k)
           truncated == n >= MAX_REPORT_TICKETS /\ l.cursor # NoCursor
<1>1. l.tickets \in Seq(Rows) /\ n \in Nat /\ DOMAIN l.tickets = 1 .. n
      /\ MAX_REPORT_TICKETS \in Nat
  BY LenProperties, ReportAssumption DEF ReportWalks
<1> HIDE DEF n
<1>2. k \in Nat /\ k <= n /\ (n <= MAX_REPORT_TICKETS => k = n)
  BY <1>1
<1> HIDE DEF k
<1>3. /\ cut \in Seq(Rows) /\ Len(cut) = k
      /\ \A i \in 1 .. k : cut[i] = l.tickets[i]
  <2>1. \A i \in 1 .. k : i \in 1 .. n
    BY <1>1, <1>2
  <2>2. \A i \in 1 .. k : l.tickets[i] \in Rows
    BY <1>1, <2>1, ElementOfSeq DEF n
  <2> QED BY <1>1, <1>2, <2>1, <2>2, SubSeqProperties DEF n
<1>4. DOMAIN cut = 1 .. k
  BY <1>3, LenProperties
<1>5. n <= MAX_REPORT_TICKETS => cut = l.tickets
  <2> SUFFICES ASSUME n <= MAX_REPORT_TICKETS PROVE cut = l.tickets
    OBVIOUS
  <2>1. Len(cut) = Len(l.tickets) /\ \A i \in 1 .. Len(cut) : cut[i] = l.tickets[i]
    BY <1>2, <1>3 DEF n
  <2> HIDE DEF cut
  <2> QED BY <1>1, <1>3, <2>1, SeqEqual
<1>6. truncated \in BOOLEAN
  OBVIOUS
<1>7. PeriodTickets(l) = [tickets |-> cut, truncated |-> truncated, known |-> TRUE]
  BY DEF PeriodTickets, cut, k, n, truncated
<1> HIDE DEF cut, truncated
<1>8. PeriodTickets(l) \in ReportData /\ PeriodTickets(l).tickets = cut
  BY <1>3, <1>6, <1>7 DEF ReportData
<1>9. \A i \in 1 .. k : i \in 1 .. n
  BY <1>1, <1>2
<1> QED BY <1>1, <1>2, <1>3, <1>4, <1>5, <1>8, <1>9 DEF n

(* What loads goes on, ends or fails. *)
LEMMA ReportsLoadingInv ==
  ASSUME ApiTypeOK, ApiStep, ReportsOn,
         \/ ReportWalk \/ ReportLoaded \/ ReportFails
         \/ CsvBatch \/ CsvBreaks \/ CsvDone \/ CsvFails
  PROVE  ReportsOn'
<1>1. /\ reports \in ReportsState
      /\ reports.loading <=> repLoad.on
      /\ reports.downloading <=> csv.on
  BY WalksOfPage DEF ReportsOn
<1>2. ~NoReport.on
  BY DEF NoReport
<1>3. CASE ReportWalk
  <2>1. repLoad \in ReportWalks /\ PeriodWalk(repLoad) /\ repLoad.more /\ repLoad.on
        /\ repLoad' = FetchPage(repLoad) /\ UNCHANGED <<reports, csv>>
    BY <1>3, WalksOfPage DEF ReportWalk
  <2>2. /\ FetchPage(repLoad) \in ReportWalks /\ PeriodWalk(FetchPage(repLoad))
        /\ FetchPage(repLoad).on = TRUE
    BY <2>1, ReportWalkInv
  <2> QED BY <1>1, <2>1, <2>2, ReportsChange
<1>4. CASE ReportLoaded
  <2>1. repLoad \in ReportWalks /\ repLoad' = NoReport /\ UNCHANGED csv
        /\ reports' = [reports EXCEPT !.loading = FALSE, !.data = PeriodTickets(repLoad)]
    BY <1>4, WalksOfPage DEF ReportLoaded
  <2>2. PeriodTickets(repLoad) \in ReportData
    BY <2>1, PeriodTicketsType
  <2>3. reports' \in ReportsState /\ reports'.loading = FALSE
        /\ reports'.downloading = reports.downloading
    BY <1>1, <2>1, <2>2 DEF ReportsState
  <2> QED BY <1>1, <1>2, <2>1, <2>3, ReportsChange
<1>5. CASE CsvBatch
  <2>1. csv \in Streams /\ FileWalk(csv) /\ csv.more /\ csv.on
        /\ csv' = NextBatch(csv) /\ UNCHANGED <<reports, repLoad>>
    BY <1>5, WalksOfPage DEF CsvBatch
  <2>2. /\ NextBatch(csv) \in Streams /\ FileWalk(NextBatch(csv))
        /\ NextBatch(csv).on = TRUE
    BY <2>1, CsvBatchInv
  <2> QED BY <1>1, <2>1, <2>2, ReportsChange
<1>6. CASE CsvDone \/ CsvFails
  <2>1. csv' = NoReport /\ UNCHANGED repLoad
        /\ reports' = [reports EXCEPT !.downloading = FALSE]
    BY <1>6 DEF CsvDone, CsvFails
  <2>2. reports' \in ReportsState /\ reports'.downloading = FALSE
        /\ reports'.loading = reports.loading
    BY <1>1, <2>1 DEF ReportsState
  <2> QED BY <1>1, <1>2, <2>1, <2>2, ReportsChange
<1>7. CASE ReportFails
  <2>1. repLoad' = NoReport /\ UNCHANGED csv
        /\ reports' = [reports EXCEPT !.loading = FALSE]
    BY <1>7 DEF ReportFails
  <2>2. reports' \in ReportsState /\ reports'.loading = FALSE
        /\ reports'.downloading = reports.downloading
    BY <1>1, <2>1 DEF ReportsState
  <2> QED BY <1>1, <1>2, <2>1, <2>2, ReportsChange
<1>8. CASE CsvBreaks
  <2> DEFINE new == [csv EXCEPT !.more = FALSE, !.broken = TRUE]
  <2>1. /\ csv \in Streams /\ FileWalk(csv) /\ csv.more /\ csv.on
        /\ csv' = new /\ UNCHANGED <<reports, repLoad>>
    BY <1>8, WalksOfPage DEF CsvBreaks
  <2>2. new \in Streams /\ FileWalk(new) /\ new.on = TRUE
    BY <2>1, CsvBreaksInv
  <2> HIDE DEF new
  <2> QED BY <1>1, <2>1, <2>2, ReportsChange
<1> QED BY <1>3, <1>4, <1>5, <1>6, <1>7, <1>8

(* Every step of the page preserves its invariant. *)
LEMMA ReportsStepInv ==
  ASSUME ApiTypeOK, ReportsInv, ReportsStep
  PROVE  ReportsOn /\ ReportsOn' /\ ApiStep
<1>1. CASE ReportsOff
  BY <1>1 DEF ReportsOff, ReportsNotMounted, NoReport, ReportsStep, ReportsUser,
     ReportsLoading, ReportWalk, ReportLoaded, CsvBatch, CsvBreaks, CsvDone,
     ReportFails, CsvFails
<1>2. CASE ReportsOn
  <2>1. CASE ReportsUser /\ UNCHANGED apiVars
    BY <1>2, <2>1, ReportsUserInv, ApiUnchanged DEF ReportsInv
  <2>2. CASE (ReportWalk \/ ReportLoaded \/ CsvBatch \/ CsvDone) /\ UNCHANGED apiVars
    BY <1>2, <2>2, ReportsLoadingInv, ApiUnchanged DEF ReportsInv
  <2>3. CASE (ReportFails \/ CsvBreaks \/ CsvFails)
             /\ UNCHANGED <<row, made, role, changes>>
    <3>1. ApiStep
      BY <2>3, ApiFault DEF ReportFails, CsvBreaks, CsvFails
    <3> QED BY <1>2, <2>3, <3>1, ReportsLoadingInv DEF ReportsInv
  <2> QED BY <2>1, <2>2, <2>3 DEF ReportsStep, ReportsLoading
<1> QED BY <1>1, <1>2 DEF ReportsInv

-----------------------------------------------------------------------------
(* Counting places *)

(* Places of different tickets of T are no more than T. *)
LEMMA PlacesAtMost ==
  ASSUME NEW rows \in Seq(Rows), InOrder(rows), NEW P, P \subseteq DOMAIN rows,
         NEW T, IsFiniteSet(T), \A i \in P : rows[i].id \in T
  PROVE  Cardinality(P) <= Cardinality(T)
<1> DEFINE id == [i \in P |-> rows[i].id]
<1>1. id \in [P -> T]
  OBVIOUS
<1>2. \A i, j \in P : id[i] = id[j] => i = j
  BY InOrderOnce
<1> HIDE DEF id
<1>3. id \in Injection(P, T)
  BY <1>1, <1>2 DEF Injection, IsInjective
<1> QED BY <1>3, FS_Injection

(* Places that hold every ticket of T are no fewer than T. *)
LEMMA PlacesAtLeast ==
  ASSUME NEW rows \in Seq(Rows), NEW P, P \subseteq DOMAIN rows,
         NEW T, \A t \in T : \E i \in P : rows[i].id = t
  PROVE  Cardinality(T) <= Cardinality(P)
<1> DEFINE place == [t \in T |-> CHOOSE i \in P : rows[i].id = t]
<1>1. \A t \in T : place[t] \in P /\ rows[place[t]].id = t
  OBVIOUS
<1>2. place \in [T -> P]
  BY <1>1
<1> HIDE DEF place
<1>3. place \in Injection(T, P)
  BY <1>1, <1>2 DEF Injection, IsInjective
<1>4. IsFiniteSet(P)
  <2>1. DOMAIN rows = 1 .. Len(rows) /\ Len(rows) \in Nat
    BY LenProperties
  <2>2. IsFiniteSet(1 .. Len(rows))
    BY <2>1, FS_Interval
  <2> QED BY <2>1, <2>2, FS_Subset
<1> QED BY <1>3, <1>4, FS_Injection

(* What the invariant says of the figures. *)
LEMMA ReportOK ==
  ASSUME ApiTypeOK, ReportsInv
  PROVE  ReportIsExact
<1> SUFFICES ASSUME repLoad.on
    PROVE LET data == PeriodTickets(repLoad)
              period == InPeriod(repLoad.period)
              resolved == Kpis(data.tickets).resolvedCount
          IN /\ \A t \in period : Times(t, data.tickets) <= 1
             /\ ~repLoad.more /\ Cardinality(period) <= MAX_REPORT_TICKETS =>
                  /\ \A t \in period \cap repLoad.there : Times(t, data.tickets) = 1
                  /\ Cardinality(repLoad.resolved \cap period) <= resolved
                  /\ resolved <= Cardinality(Resolved \cap period)
  BY DEF ReportIsExact
<1> DEFINE l == repLoad
           rows == l.tickets
           data == PeriodTickets(l)
           period == InPeriod(l.period)
           done(list) == {i \in DOMAIN list : list[i].status = "resuelto"}
<1>1. l \in ReportWalks /\ PeriodWalk(l) /\ rows \in Seq(Rows)
  <2>1. ReportsOn
    BY DEF ReportsInv, ReportsOff, NoReport
  <2>2. \A walk \in ReportWalks : walk.tickets \in Seq(Rows)
    BY DEF ReportWalks
  <2> QED BY <2>1, <2>2, WalksOfPage
<1>2. Kpis(data.tickets).resolvedCount = Cardinality(done(data.tickets))
  BY DEF Kpis
<1>3. /\ data.tickets \in Seq(Rows)
      /\ \A i \in DOMAIN data.tickets :
           i \in DOMAIN rows /\ data.tickets[i] = rows[i]
      /\ Len(rows) <= MAX_REPORT_TICKETS => data.tickets = rows
  BY <1>1, PeriodTicketsType DEF ReportData
<1>4. InOrder(rows) /\ \A i \in DOMAIN rows : rows[i].id \in period
  BY <1>1 DEF PeriodWalk, WalkOver
<1>5. InOrder(data.tickets)
  BY <1>3, <1>4 DEF InOrder
<1>6. period \subseteq Tickets /\ IsFiniteSet(period)
  BY PeriodType, ApiAssumption, FS_Subset
<1> HIDE DEF data, period
<1>7. \A t : Times(t, data.tickets) = IF Has(data.tickets, t) THEN 1 ELSE 0
  BY <1>3, <1>5, OnceInOrder DEF Times
<1>8. ASSUME ~l.more, Cardinality(period) <= MAX_REPORT_TICKETS
      PROVE  /\ \A t \in period \cap l.there : Times(t, data.tickets) = 1
             /\ Cardinality(l.resolved \cap period) <= Cardinality(done(data.tickets))
             /\ Cardinality(done(data.tickets)) <= Cardinality(Resolved \cap period)
  <2>1. /\ Cardinality(period) \in Nat /\ Len(rows) \in Nat
        /\ Len(rows) <= Cardinality(period)
        /\ Len(rows) = Cardinality(period) => \A t \in period : Has(rows, t)
    BY <1>1, <1>4, <1>6, LongEnough
  <2>2. MAX_REPORT_TICKETS \in Nat
    BY ReportAssumption
  <2>3. data.tickets = rows
    BY <1>3, <1>8, <2>1, <2>2
  <2>4. \A t \in period \cap l.there : Has(rows, t)
    <3>1. CASE l.cursor = NoCursor
      BY <1>1, <1>8, <3>1 DEF PeriodWalk, period
    <3>2. CASE Len(rows) >= MAX_REPORT_TICKETS
      <4>1. Len(rows) = Cardinality(period)
        BY <1>8, <2>1, <2>2, <3>2
      <4> QED BY <2>1, <4>1
    <3> QED BY <1>1, <1>8, <3>1, <3>2 DEF PeriodWalk
  <2> DEFINE P == done(rows)
  <2>5. P \subseteq DOMAIN rows
    OBVIOUS
  <2>6. \A t \in l.resolved \cap period : \E i \in P : rows[i].id = t
    BY <1>1, <2>4 DEF PeriodWalk, Has
  <2>7. \A i \in P : rows[i].id \in Resolved \cap period
    BY <1>1, <1>4 DEF PeriodWalk
  <2>8. IsFiniteSet(Resolved \cap period)
    BY <1>6, FS_Subset
  <2> HIDE DEF P
  <2>9. Cardinality(l.resolved \cap period) <= Cardinality(P)
    BY <1>1, <2>5, <2>6, PlacesAtLeast
  <2>10. Cardinality(P) <= Cardinality(Resolved \cap period)
    BY <1>1, <1>4, <2>5, <2>7, <2>8, PlacesAtMost
  <2> QED BY <1>7, <2>3, <2>4, <2>9, <2>10 DEF P
<1> QED BY <1>2, <1>7, <1>8 DEF data, period

(* What the invariant says of the file. *)
LEMMA FileOK ==
  ASSUME ReportsInv
  PROVE  FileIsExact
<1> SUFFICES ASSUME csv.on, NEW t \in Tickets
             PROVE  LET n == Times(t, csv.tickets)
                        before == \E i \in DOMAIN csv.tickets : t <= csv.tickets[i].id
                        ended == ~csv.more /\ ~csv.broken
                    IN /\ n <= 1 /\ (n = 1 => t \in Resolved)
                       /\ t \in csv.resolved /\ (before \/ ended) => n = 1
  BY DEF FileIsExact
<1>1. csv \in Streams /\ FileWalk(csv) /\ csv.tickets \in Seq(Rows)
  <2>1. ReportsOn
    BY DEF ReportsInv, ReportsOff, NoReport
  <2>2. \A walk \in Streams : walk.tickets \in Seq(Rows)
    BY DEF Streams
  <2> QED BY <2>1, <2>2, WalksOfPage
<1>2. Times(t, csv.tickets) = IF Has(csv.tickets, t) THEN 1 ELSE 0
  BY <1>1, OnceInOrder DEF FileWalk, WalkOver, Times
<1>3. Has(csv.tickets, t) => t \in Resolved
  BY <1>1 DEF FileWalk, WalkOver, Has
<1>4. /\ t \in csv.resolved
      /\ \/ \E i \in DOMAIN csv.tickets : t <= csv.tickets[i].id
         \/ ~csv.more /\ ~csv.broken
      => Has(csv.tickets, t)
  BY <1>1 DEF FileWalk
<1> QED BY <1>2, <1>3, <1>4
=============================================================================
