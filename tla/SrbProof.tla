------------------------------ MODULE SrbProof ------------------------------
(***************************************************************************)
(* The anchors lie in order, a read stops at them, none is fetched early and  *)
(* read_offset counts what was read: for any size, any number of anchors,     *)
(* bytes, resets and tasks.                                                  *)
(***************************************************************************)
EXTENDS Srb, FiniteSetTheorems, SequenceTheorems, TLAPS

Reading == {"rb_read", "take", "sleep", "flags", "out"}
Anchors == [offset : Nat, id : 1..MaxAnchors]
Calls   == [pc : Pcs, len : Nat, total : Int, seen : Nat]

\* Who runs what, and who holds the mutexes there.
PcsFit ==
  /\ \A t \in Readers : task[t].pc \in Reading \cup {"idle", "decide", "count", "fetch"}
  /\ \A t \in Drainers :
       task[t].pc \in Reading \cup {"idle", "wait", "drain", "again", "drained", "unlock"}
  /\ \A t \in Resetters : task[t].pc \in {"idle", "reset"}

HoldsReadLock(t) == task[t].pc \in Reading \cup {"decide", "count", "drain", "again", "drained", "unlock"}

HoldsLock(t) ==
  \/ task[t].pc \in {"again", "drained", "unlock", "reset"}
  \/ t \in Drainers /\ task[t].pc \in Reading

LocksHeld ==
  \A t \in Tasks : (read_lock = t <=> HoldsReadLock(t)) /\ (lock = t <=> HoldsLock(t))

\* The buffer is aborted by nobody else than a reset that goes on.
ResetCounts ==
  /\ resets \in Nat
  /\ rb.abort => lock \in Resetters
  /\ lock \in Resetters => resets > 0

\* What a call has read, or how it failed, is kept from rb_read to the count.
TotalFits ==
  \A t \in Tasks :
    /\ task[t].total # 0 => task[t].pc \in {"take", "sleep", "flags", "out", "count", "drained"}
    /\ task[t].total < 0 => task[t].pc \in {"out", "count", "drained"}

\* What the call that holds read_lock has read and not counted yet.
InHand == IF read_lock = "free" THEN 0 ELSE Counted(task[read_lock].total)

\* No byte is read that read_offset and that call do not know of; without resets
\* they know of no other.
Accounted ==
  /\ sent = taken + rb.fill
  /\ lock \notin Resetters => taken <= read_offset + InHand
  /\ resets = 0 => taken = read_offset + InHand

\* What a read still asks for ends before the anchors it has seen.
EndsAtAnchor ==
  /\ puts \in 0..MaxAnchors
  /\ \A i \in 1..Len(list) : list[i].id <= puts
  /\ \A t \in Readers :
       /\ task[t].seen <= puts
       /\ task[t].pc \in Reading \cup {"count"} =>
            \A i \in 1..Len(list) :
              list[i].id <= task[t].seen => taken + task[t].len <= list[i].offset

FetchedInTurn == fetched \in [offset : Nat, at : Nat] /\ NotFetchedEarly

IInv == /\ TypeOK /\ PcsFit /\ LocksHeld /\ ResetCounts /\ TotalFits
        /\ Accounted /\ EndsAtAnchor /\ FetchedInTurn

---------------------------------------------------------------------------
(* srb_node_insert.                                                         *)

\* A set of positions that holds, with a position, all those before it, is an
\* interval from 1 on.
LEMMA InitialInterval ==
  ASSUME NEW n \in Nat, NEW S \in SUBSET (1..n),
         \A i \in S : \A j \in 1..i : j \in S
  PROVE  Cardinality(S) \in 0..n /\ S = 1..Cardinality(S)
<1> DEFINE c == Cardinality(S)
<1>1. IsFiniteSet(1..n) /\ Cardinality(1..n) = n
  BY FS_Interval
<1>2. IsFiniteSet(S) /\ c <= n
  BY ZenonT(40), <1>1, FS_Subset
<1>3. c \in Nat
  BY <1>2, FS_CardinalityType
<1>4. ASSUME NEW i \in S PROVE i \in 1..c
  <2>1. 1..i \in SUBSET S
    OBVIOUS
  <2>2. Cardinality(1..i) = i
    BY FS_Interval
  <2> HIDE DEF c
  <2>3. i <= c
    BY <1>2, <2>1, <2>2, FS_Subset DEF c
  <2> QED BY <1>3, <2>3
<1>5. S \in SUBSET (1..c)
  BY <1>4
<1>6. IsFiniteSet(1..c) /\ Cardinality(1..c) = c
  BY <1>3, FS_Interval
<1>7. S = 1..c
  BY <1>5, <1>6, FS_Subset
<1> QED BY <1>2, <1>3, <1>7

\* Where the elements of a sequence are after an insertion.
LEMMA InsertedAt ==
  ASSUME NEW S, NEW s \in Seq(S), NEW n \in 1..(Len(s) + 1), NEW e \in S
  PROVE  /\ InsertAt(s, n, e) \in Seq(S)
         /\ Len(InsertAt(s, n, e)) = Len(s) + 1
         /\ \A i \in 1..(Len(s) + 1) :
              /\ i < n => InsertAt(s, n, e)[i] = s[i]
              /\ i = n => InsertAt(s, n, e)[i] = e
              /\ i > n => InsertAt(s, n, e)[i] = s[i - 1]
<1> DEFINE before == SubSeq(s, 1, n - 1)
           after  == SubSeq(s, n, Len(s))
           upto   == before \o <<e>>
           all    == upto \o after
<1>1. Len(s) \in Nat /\ \A i \in 1..Len(s) : s[i] \in S
  BY LenProperties, ElementOfSeq
<1>2. n \in Int /\ n >= 1 /\ n <= Len(s) + 1
  BY <1>1
<1>3. before \in Seq(S) /\ Len(before) = n - 1 /\ \A i \in 1..(n - 1) : before[i] = s[i]
  BY <1>1, <1>2, SubSeqProperties
<1>4. /\ after \in Seq(S) /\ Len(after) = Len(s) - n + 1
      /\ \A i \in 1..(Len(s) - n + 1) : after[i] = s[n + i - 1]
  BY <1>1, <1>2, SubSeqProperties
<1>5. <<e>> \in Seq(S) /\ Len(<<e>>) = 1 /\ <<e>>[1] = e
  OBVIOUS
<1>6. InsertAt(s, n, e) = all
  BY DEF InsertAt
<1> HIDE DEF before, after
<1>7. /\ upto \in Seq(S) /\ Len(upto) = n
      /\ \A i \in 1..(n - 1) : upto[i] = s[i]
      /\ upto[n] = e
  <2>1. /\ upto \in Seq(S) /\ Len(upto) = Len(before) + 1
        /\ \A i \in 1..(Len(before) + 1) :
             upto[i] = IF i <= Len(before) THEN before[i] ELSE <<e>>[i - Len(before)]
    BY <1>3, <1>5, ConcatProperties
  <2> HIDE DEF upto
  <2>2. \A i \in 1..(n - 1) : upto[i] = s[i]
    BY <1>2, <1>3, <2>1
  <2>3. upto[n] = e
    BY <1>2, <1>3, <1>5, <2>1
  <2>4. Len(upto) = n
    BY <1>2, <1>3, <2>1
  <2> QED BY <2>1, <2>2, <2>3, <2>4
<1> HIDE DEF upto
<1>8. /\ all \in Seq(S) /\ Len(all) = Len(s) + 1
      /\ \A i \in 1..(Len(s) + 1) : all[i] = IF i <= n THEN upto[i] ELSE after[i - n]
  <2>1. /\ all \in Seq(S) /\ Len(all) = Len(upto) + Len(after)
        /\ \A i \in 1..(Len(upto) + Len(after)) :
             all[i] = IF i <= Len(upto) THEN upto[i] ELSE after[i - Len(upto)]
    BY <1>4, <1>7, ConcatProperties
  <2>2. Len(upto) = n /\ Len(upto) + Len(after) = Len(s) + 1
    BY <1>1, <1>2, <1>4, <1>7
  <2> HIDE DEF all
  <2> QED BY <2>1, <2>2
<1> HIDE DEF all
<1>9. ASSUME NEW i \in 1..(Len(s) + 1)
      PROVE  (i < n => all[i] = s[i]) /\ (i = n => all[i] = e) /\ (i > n => all[i] = s[i - 1])
  <2>1. i < n => all[i] = s[i]
    BY <1>1, <1>2, <1>7, <1>8
  <2>2. i = n => all[i] = e
    BY <1>1, <1>2, <1>7, <1>8
  <2>3. ASSUME i > n PROVE all[i] = s[i - 1]
    <3>1. i - n \in 1..(Len(s) - n + 1) /\ n + (i - n) - 1 = i - 1 /\ ~(i <= n)
      BY <1>1, <1>2, <2>3
    <3>2. after[i - n] = s[i - 1]
      BY <1>4, <3>1
    <3> QED BY <1>8, <3>1, <3>2
  <2> QED BY <2>1, <2>2, <2>3
<1> QED BY <1>6, <1>8, <1>9

\* A new anchor goes behind all those that are not after it, in front of the others:
\* the list stays sorted, and has the new one and those it had.
LEMMA InsertSorted ==
  ASSUME list \in Seq([offset : Nat, id : 1..MaxAnchors]), Sorted,
         puts \in Nat, \A i \in 1..Len(list) : list[i].id <= puts,
         NEW a \in [offset : Nat, id : 1..MaxAnchors], a.id = puts + 1,
         list' = Insert(a)
  PROVE  /\ list' \in Seq([offset : Nat, id : 1..MaxAnchors])
         /\ Sorted'
         /\ \A i \in 1..Len(list') : list'[i] = a \/ \E j \in 1..Len(list) : list'[i] = list[j]
<1> DEFINE Before == {i \in 1..Len(list) : list[i].offset <= a.offset}
<1>1. Len(list) \in Nat /\ \A i \in 1..Len(list) : list[i].offset \in Nat /\ list[i].id \in Nat
  <2>1. Len(list) \in Nat /\ \A i \in 1..Len(list) : list[i] \in Anchors
    BY LenProperties, ElementOfSeq DEF Anchors
  <2> QED BY SrbAssumption, <2>1 DEF Anchors
<1>2. a.offset \in Nat /\ a.id \in Nat
  BY SrbAssumption
<1>3. ASSUME NEW i \in Before, NEW j \in 1..i PROVE j \in Before
  <2>1. i \in 1..Len(list) /\ j \in 1..Len(list) /\ (j < i \/ j = i)
    BY <1>1
  <2>2. list[j].offset <= list[i].offset
    <3>1. j = i \/ list[j].offset < list[i].offset \/ list[j].offset = list[i].offset
      BY <2>1 DEF Sorted
    <3> QED BY SMTT(40), <1>1, <2>1, <3>1
  <2> QED BY SMTT(40), <1>1, <1>2, <2>1, <2>2
<1>4. Cardinality(Before) \in 0..Len(list) /\ Before = 1..Cardinality(Before)
  <2>1. Before \in SUBSET (1..Len(list))
    OBVIOUS
  <2> HIDE DEF Before
  <2> QED BY <1>1, <1>3, <2>1, InitialInterval
<1>5. PICK k \in 0..Len(list) : k = Cardinality(Before) /\ Before = 1..k
  BY <1>4
<1>6. list' = InsertAt(list, k + 1, a)
  BY <1>5 DEF Insert
<1>7. k \in Nat /\ k <= Len(list)
  BY <1>1
<1>8. /\ \A i \in 1..k : i \in 1..Len(list) /\ list[i].offset <= a.offset
      /\ \A i \in (k + 1)..Len(list) : i \in 1..Len(list) /\ list[i].offset > a.offset
  <2>1. ASSUME NEW i \in 1..k PROVE i \in 1..Len(list) /\ list[i].offset <= a.offset
    <3>1. i \in Before
      BY <1>5
    <3> QED BY <3>1
  <2>2. ASSUME NEW i \in (k + 1)..Len(list) PROVE i \in 1..Len(list) /\ list[i].offset > a.offset
    <3>1. i \in 1..Len(list) /\ i \notin 1..k
      BY <1>1, <1>7
    <3>2. i \notin Before
      BY <1>5, <3>1
    <3> QED BY <1>1, <1>2, <3>1, <3>2
  <2> QED BY <2>1, <2>2
<1> HIDE DEF Before
<1>9. /\ list' \in Seq(Anchors) /\ Len(list') = Len(list) + 1
      /\ \A i \in 1..(Len(list) + 1) : /\ i < k + 1 => list'[i] = list[i]
                                       /\ i = k + 1 => list'[i] = a
                                       /\ i > k + 1 => list'[i] = list[i - 1]
  <2>1. list \in Seq(Anchors) /\ a \in Anchors
    BY DEF Anchors
  <2>2. PICK n \in 1..(Len(list) + 1) : n = k + 1
    BY <1>1, <1>7
  <2>3. /\ InsertAt(list, n, a) \in Seq(Anchors) /\ Len(InsertAt(list, n, a)) = Len(list) + 1
        /\ \A i \in 1..(Len(list) + 1) : /\ i < n => InsertAt(list, n, a)[i] = list[i]
                                         /\ i = n => InsertAt(list, n, a)[i] = a
                                         /\ i > n => InsertAt(list, n, a)[i] = list[i - 1]
    <3>1. InsertAt(list, n, a) \in Seq(Anchors)
      BY <2>1, InsertedAt
    <3>2. Len(InsertAt(list, n, a)) = Len(list) + 1
      BY <2>1, InsertedAt
    <3>3. ASSUME NEW i \in 1..(Len(list) + 1)
          PROVE  /\ i < n => InsertAt(list, n, a)[i] = list[i]
                 /\ i = n => InsertAt(list, n, a)[i] = a
                 /\ i > n => InsertAt(list, n, a)[i] = list[i - 1]
      BY <2>1, InsertedAt
    <3> QED BY <3>1, <3>2, <3>3
  <2>4. list' = InsertAt(list, n, a)
    BY <1>6, <2>2
  <2> QED BY <2>2, <2>3, <2>4
<1>10. Sorted'
  <2> SUFFICES ASSUME NEW i \in 1..(Len(list) + 1), NEW j \in 1..(Len(list) + 1), i < j
               PROVE  \/ list'[i].offset < list'[j].offset
                      \/ list'[i].offset = list'[j].offset /\ list'[i].id < list'[j].id
    BY <1>9 DEF Sorted
  <2>1. i \in Int /\ j \in Int
    BY <1>1
  <2>2. CASE j < k + 1
    <3>1. i < k + 1 /\ i \in 1..Len(list) /\ j \in 1..Len(list)
      BY SMTT(40), <1>1, <1>7, <2>1, <2>2
    <3>2. list'[i] = list[i] /\ list'[j] = list[j]
      BY <1>9, <2>2, <3>1
    <3> QED BY <3>1, <3>2 DEF Sorted
  <2>3. CASE j = k + 1
    <3>1. i < k + 1 /\ i \in 1..k /\ i \in 1..Len(list)
      BY <1>1, <1>7, <2>1, <2>3
    <3>2. list'[i] = list[i] /\ list'[j] = a
      BY <1>9, <2>3, <3>1
    <3>3. list[i].offset <= a.offset
      BY <1>8, <3>1
    <3>4. list[i].id <= puts /\ a.id = puts + 1
      BY <3>1
    <3>5. /\ list[i].offset \in Nat /\ list[i].id \in Nat
          /\ a.offset \in Nat /\ a.id \in Nat /\ puts \in Nat
      BY <1>1, <1>2, <3>1
    <3>6. list[i].id < a.id
      BY SMTT(40), <3>4, <3>5
    <3>7. list[i].offset < a.offset \/ list[i].offset = a.offset
      BY <3>3, <3>5
    <3> QED BY <3>2, <3>6, <3>7
  <2>4. CASE j > k + 1 /\ i < k + 1
    <3>1. /\ list'[i] = list[i] /\ list'[j] = list[j - 1]
          /\ i \in 1..Len(list) /\ j - 1 \in 1..Len(list) /\ i < j - 1
      BY <1>1, <1>7, <1>9, <2>1, <2>4
    <3> QED BY <3>1 DEF Sorted
  <2>5. CASE j > k + 1 /\ i = k + 1
    <3>1. /\ list'[i] = a /\ list'[j] = list[j - 1]
          /\ j - 1 \in (k + 1)..Len(list) /\ j - 1 \in 1..Len(list)
      BY <1>1, <1>7, <1>9, <2>1, <2>5
    <3>2. list[j - 1].offset > a.offset
      BY <1>8, <3>1
    <3>3. list[j - 1].offset \in Nat
      BY <1>1, <3>1
    <3> QED BY <1>2, <3>1, <3>2, <3>3
  <2>6. CASE j > k + 1 /\ i > k + 1
    <3>1. i - 1 \in 1..Len(list) /\ j - 1 \in 1..Len(list) /\ i - 1 < j - 1
      BY <1>1, <1>7, <2>1, <2>6
    <3>2. list'[i] = list[i - 1] /\ list'[j] = list[j - 1]
      BY <1>9, <2>6
    <3> QED BY <3>1, <3>2 DEF Sorted
  <2>7. \/ j < k + 1 \/ j = k + 1
        \/ j > k + 1 /\ (i < k + 1 \/ i = k + 1 \/ i > k + 1)
    BY <1>7, <2>1
  <2> QED BY <2>2, <2>3, <2>4, <2>5, <2>6, <2>7
<1>11. \A i \in 1..Len(list') : list'[i] = a \/ \E j \in 1..Len(list) : list'[i] = list[j]
  <2> SUFFICES ASSUME NEW i \in 1..(Len(list) + 1)
               PROVE  list'[i] = a \/ \E j \in 1..Len(list) : list'[i] = list[j]
    BY <1>9
  <2>1. CASE i < k + 1
    <3>1. list'[i] = list[i] /\ i \in 1..Len(list)
      BY <1>1, <1>7, <1>9, <2>1
    <3> QED BY <3>1
  <2>2. CASE i = k + 1
    BY <1>9, <2>2
  <2>3. CASE i > k + 1
    <3>1. list'[i] = list[i - 1] /\ i - 1 \in 1..Len(list)
      BY <1>1, <1>7, <1>9, <2>3
    <3> QED BY <3>1
  <2> QED BY <1>1, <1>7, <2>1, <2>2, <2>3
<1> QED BY <1>9, <1>10, <1>11 DEF Anchors

---------------------------------------------------------------------------
(* What the steps do to the call that takes them.                           *)

\* The calls of the other tasks stay as they are.
Stay(t) ==
  /\ task' \in [Tasks -> Calls]
  /\ \A u \in Tasks : u # t => task'[u] = task[u]

\* A step that replaces one call by another leaves the others alone.
LEMMA Moves ==
  ASSUME TypeOK, NEW t \in Tasks, NEW c \in Calls, task' = [task EXCEPT ![t] = c]
  PROVE  Stay(t) /\ task'[t] = c
BY DEF TypeOK, Stay, Calls

\* So does a step that only moves its call on.
LEMMA MovesOn ==
  ASSUME TypeOK, NEW t \in Tasks, NEW pc \in Pcs, Goto(t, pc)
  PROVE  /\ Stay(t)
         /\ task'[t].pc = pc
         /\ task'[t].len = task[t].len /\ task'[t].total = task[t].total
         /\ task'[t].seen = task[t].seen
<1> DEFINE c == [task[t] EXCEPT !.pc = pc]
<1>1. task[t] \in Calls
  BY DEF TypeOK, Calls
<1>2. c \in Calls /\ c.pc = pc /\ c.len = task[t].len /\ c.total = task[t].total /\ c.seen = task[t].seen
  BY <1>1 DEF Calls
<1>3. task' = [task EXCEPT ![t] = c]
  BY DEF Goto
<1> HIDE DEF c
<1> QED BY <1>2, <1>3, Moves

\* Between two calls a task has nothing.
LEMMA IdleCall ==
  Idle \in Calls /\ Idle.pc = "idle" /\ Idle.len = 0 /\ Idle.total = 0 /\ Idle.seen = 0
BY DEF Idle, Calls, Pcs

\* A step that ends a call leaves the others alone.
LEMMA Ends ==
  ASSUME TypeOK, NEW t \in Tasks, task' = [task EXCEPT ![t] = Idle]
  PROVE  Stay(t) /\ task'[t].pc = "idle" /\ task'[t].total = 0 /\ task'[t].seen = 0
BY IdleCall, Moves

\* The types of what a call looks at.
LEMMA Known ==
  ASSUME IInv
  PROVE  /\ \A t \in Tasks : /\ task[t].pc \in Pcs /\ task[t].len \in Nat
                             /\ task[t].total \in Int /\ task[t].seen \in Nat
         /\ read_offset \in Nat /\ taken \in Nat /\ sent \in Nat /\ puts \in Nat /\ resets \in Nat
         /\ rb.fill \in Nat
         /\ list \in Seq(Anchors) /\ Len(list) \in Nat
         /\ \A i \in 1..Len(list) : list[i].offset \in Nat /\ list[i].id \in Nat
<1>1. list \in Seq(Anchors)
  BY DEF IInv, TypeOK, Anchors
<1>2. Len(list) \in Nat /\ \A i \in 1..Len(list) : list[i] \in Anchors
  BY <1>1, LenProperties, ElementOfSeq
<1>3. \A i \in 1..Len(list) : list[i].offset \in Nat /\ list[i].id \in Nat
  BY <1>2, SrbAssumption DEF Anchors
<1>4. \A t \in Tasks : task[t].pc \in Pcs /\ task[t].len \in Nat
                        /\ task[t].total \in Int /\ task[t].seen \in Nat
  BY DEF IInv, TypeOK
<1> QED BY <1>1, <1>2, <1>3, <1>4, SrbAssumption DEF IInv, TypeOK, EndsAtAnchor, ResetCounts

\* A list with an anchor has its first in front, at the least offset.
LEMMA FirstAnchor ==
  ASSUME IInv, list # <<>>
  PROVE  /\ Head(list) = list[1] /\ 1 \in 1..Len(list)
         /\ Head(list).offset \in Nat /\ Distance \in Int
         /\ \A i \in 1..Len(list) : Head(list).offset <= list[i].offset
<1>1. 1 \in 1..Len(list) /\ Head(list) = list[1]
  BY Known
<1>2. Head(list).offset \in Nat /\ Distance \in Int
  BY <1>1, Known DEF Distance
<1>3. ASSUME NEW i \in 1..Len(list) PROVE list[1].offset <= list[i].offset
  <2>1. i = 1 \/ list[1].offset < list[i].offset \/ list[1].offset = list[i].offset
    BY <1>1 DEF IInv, TypeOK, Sorted
  <2> QED BY <1>1, <2>1, Known
<1> QED BY <1>1, <1>2, <1>3

\* A read looks at the anchors: it ends, or is cut at the first.
LEMMA ReadDecideStep ==
  ASSUME IInv, NEW t \in Readers, ReadDecide(t)
  PROVE  /\ Stay(t) /\ task[t].pc = "decide"
         /\ \/ /\ task'[t].pc = "fetch" /\ task'[t].total = 0 /\ task'[t].seen = 0
               /\ read_lock' = "free"
            \/ /\ task'[t].pc = "rb_read" /\ task'[t].total = task[t].total
               /\ task'[t].seen = puts
               /\ list # <<>> => Distance > 0 /\ task'[t].len <= Distance
               /\ read_lock' = read_lock
<1>1. t \in Tasks /\ task[t] \in Calls /\ TypeOK /\ {"decide", "rb_read", "fetch"} \subseteq Pcs
  BY DEF IInv, TypeOK, Tasks, Calls, Pcs
<1>2. CASE list # <<>> /\ Distance <= 0
  <2>1. task' = [task EXCEPT ![t] = [Idle EXCEPT !.pc = "fetch"]]
    BY <1>2 DEF ReadDecide
  <2>2. Stay(t) /\ task'[t].pc = "fetch" /\ task'[t].total = 0 /\ task'[t].seen = 0
    <3> DEFINE c == [Idle EXCEPT !.pc = "fetch"]
    <3>1. c \in Calls /\ c.pc = "fetch" /\ c.total = 0 /\ c.seen = 0
      BY <1>1, IdleCall DEF Calls
    <3>2. task' = [task EXCEPT ![t] = c]
      BY <2>1
    <3> HIDE DEF c
    <3> QED BY <1>1, <3>1, <3>2, Moves
  <2> QED BY <1>2, <2>2 DEF ReadDecide, At
<1>3. CASE ~(list # <<>> /\ Distance <= 0)
  <2> DEFINE n == IF list = <<>> THEN task[t].len ELSE Least(task[t].len, Distance)
             c == [task[t] EXCEPT !.pc = "rb_read", !.seen = puts, !.len = n]
  <2>1. n \in Nat /\ (list # <<>> => Distance > 0 /\ n <= Distance)
    BY <1>1, <1>3, FirstAnchor DEF Least, Calls
  <2>2. task' = [task EXCEPT ![t] = c]
    BY <1>3 DEF ReadDecide
  <2> HIDE DEF n
  <2>3. c \in Calls /\ c.pc = "rb_read" /\ c.seen = puts /\ c.len = n /\ c.total = task[t].total
    BY <1>1, <2>1, Known DEF Calls
  <2> HIDE DEF c
  <2>4. Stay(t) /\ task'[t] = c
    BY <1>1, <2>2, <2>3, Moves
  <2>5. task[t].pc = "decide" /\ read_lock' = read_lock
    BY <1>3 DEF ReadDecide, At
  <2> QED BY <2>1, <2>3, <2>4, <2>5
<1> QED BY <1>2, <1>3

\* rb_read takes what is there, up to what it still wants.
LEMMA RbTakeStep ==
  ASSUME IInv, NEW t \in Readers \cup Drainers, RbTake(t)
  PROVE  \E n \in 0..rb.fill :
           /\ Stay(t) /\ task[t].pc = "take"
           /\ task'[t].pc \in {"out", "sleep"} /\ n <= task[t].len
           /\ task'[t].len = task[t].len - n /\ task'[t].total = task[t].total + n
           /\ task'[t].seen = task[t].seen
           /\ rb' = [rb EXCEPT !.fill = @ - n] /\ taken' = taken + n
<1>1. t \in Tasks /\ task[t] \in Calls /\ TypeOK /\ {"out", "sleep"} \subseteq Pcs
  BY DEF IInv, TypeOK, Tasks, Calls, Pcs
<1>2. PICK n \in 0..rb.fill : n = Least(task[t].len, rb.fill)
  BY <1>1, Known DEF Least, Calls
<1>3. n <= task[t].len
  BY <1>1, <1>2, Known DEF Least, Calls
<1> DEFINE pc == IF n = task[t].len THEN "out" ELSE "sleep"
           c  == [task[t] EXCEPT !.len = @ - n, !.total = @ + n, !.pc = pc]
<1>4. task' = [task EXCEPT ![t] = c]
  BY <1>2 DEF RbTake
<1>5. pc \in {"out", "sleep"}
  OBVIOUS
<1> HIDE DEF pc
<1>6. /\ c \in Calls /\ c.pc = pc /\ c.len = task[t].len - n /\ c.total = task[t].total + n
      /\ c.seen = task[t].seen
  <2>1. pc \in Pcs /\ task[t].len - n \in Nat /\ task[t].total + n \in Int
    BY SMTT(40), <1>1, <1>3, <1>5, Known
  <2> QED BY <1>1, <2>1 DEF Calls
<1> HIDE DEF c
<1>7. Stay(t) /\ task'[t] = c
  BY <1>1, <1>4, <1>6, Moves
<1>8. task[t].pc = "take" /\ rb' = [rb EXCEPT !.fill = @ - n] /\ taken' = taken + n
  BY <1>2 DEF RbTake, At
<1> QED BY <1>3, <1>5, <1>6, <1>7, <1>8

\* What the other steps of rb_read change: a failure loses what was taken only if the
\* buffer was aborted.
LEMMA RbQuietStep ==
  ASSUME IInv, NEW t \in Readers \cup Drainers,
         RbRefuse(t) \/ RbEnter(t) \/ RbAwake(t) \/ RbTimeOut(t) \/ RbFlags(t) \/ RbOut(t)
  PROVE  /\ Stay(t) /\ task[t].pc \in Reading
         /\ task'[t].pc \in {"take", "flags", "out", RbReturn(t)}
         /\ task'[t].len = task[t].len /\ task'[t].seen = task[t].seen
         /\ task'[t].total < 0 => task'[t].pc \in {"out", RbReturn(t)}
         /\ Counted(task'[t].total) = Counted(task[t].total) \/ rb.abort
         /\ rb' \in [fill : 0..Size, unblock : BOOLEAN, abort : BOOLEAN, can_read : BOOLEAN]
         /\ rb'.fill = rb.fill /\ rb'.abort = rb.abort
<1>1. /\ t \in Tasks /\ task[t] \in Calls /\ TypeOK
      /\ {"take", "flags", "out", "count", "drained"} \subseteq Pcs /\ RbReturn(t) \in Pcs
  BY DEF IInv, TypeOK, Tasks, Calls, Pcs, RbReturn
<1>2. rb \in [fill : 0..Size, unblock : BOOLEAN, abort : BOOLEAN, can_read : BOOLEAN]
  BY DEF IInv, TypeOK
<1>3. task[t].total < 0 => task[t].pc \in {"out", "count", "drained"}
  BY <1>1 DEF IInv, TotalFits
<1>4. CASE RbRefuse(t)
  <2> DEFINE c == [task[t] EXCEPT !.pc = RbReturn(t), !.total = RB_ABORT]
  <2>1. c \in Calls /\ c.pc = RbReturn(t) /\ c.len = task[t].len /\ c.seen = task[t].seen
    <3>1. RB_ABORT \in Int
      BY DEF RB_ABORT
    <3> QED BY <1>1, <3>1 DEF Calls
  <2>2. task' = [task EXCEPT ![t] = c]
    BY <1>4 DEF RbRefuse
  <2> HIDE DEF c
  <2>3. Stay(t) /\ task'[t] = c
    BY <1>1, <2>1, <2>2, Moves
  <2> QED BY <1>2, <1>4, <2>1, <2>3 DEF RbRefuse, At, Reading
<1>5. CASE RbEnter(t)
  <2>1. Goto(t, "take") /\ task[t].pc = "rb_read" /\ rb' = rb
    BY <1>5 DEF RbEnter, At
  <2>2. /\ Stay(t) /\ task'[t].pc = "take" /\ task'[t].len = task[t].len
       /\ task'[t].total = task[t].total /\ task'[t].seen = task[t].seen
    BY <1>1, <2>1, MovesOn
  <2> QED BY <1>2, <1>3, <2>1, <2>2 DEF Reading
<1>6. CASE RbAwake(t)
  <2>1. Goto(t, "flags") /\ task[t].pc = "sleep" /\ (rb' = rb \/ rb' = [rb EXCEPT !.can_read = FALSE])
    BY <1>6 DEF RbAwake, At
  <2>2. /\ Stay(t) /\ task'[t].pc = "flags" /\ task'[t].len = task[t].len
       /\ task'[t].total = task[t].total /\ task'[t].seen = task[t].seen
    BY <1>1, <2>1, MovesOn
  <2> QED BY <1>2, <1>3, <2>1, <2>2 DEF Reading
<1>7. CASE RbTimeOut(t)
  <2>1. Goto(t, "out") /\ task[t].pc = "sleep" /\ rb' = rb
    BY <1>7 DEF RbTimeOut, At
  <2>2. /\ Stay(t) /\ task'[t].pc = "out" /\ task'[t].len = task[t].len
       /\ task'[t].total = task[t].total /\ task'[t].seen = task[t].seen
    BY <1>1, <2>1, MovesOn
  <2> QED BY <1>2, <1>3, <2>1, <2>2 DEF Reading
<1>8. CASE RbFlags(t)
  <2>1. task[t].pc = "flags" /\ rb' = rb
    BY <1>8 DEF RbFlags, At
  <2>2. CASE Goto(t, "take")
    <3>1. /\ Stay(t) /\ task'[t].pc = "take" /\ task'[t].len = task[t].len
         /\ task'[t].total = task[t].total /\ task'[t].seen = task[t].seen
      BY <1>1, <2>2, MovesOn
    <3> QED BY <1>2, <1>3, <2>1, <3>1 DEF Reading
  <2>3. CASE rb.abort /\ task' = [task EXCEPT ![t].pc = "out", ![t].total = RB_ABORT]
    <3> DEFINE c == [task[t] EXCEPT !.pc = "out", !.total = RB_ABORT]
    <3>1. c \in Calls /\ c.pc = "out" /\ c.len = task[t].len /\ c.seen = task[t].seen
      <4>1. RB_ABORT \in Int
        BY DEF RB_ABORT
      <4> QED BY <1>1, <4>1 DEF Calls
    <3>2. task' = [task EXCEPT ![t] = c]
      BY <2>3
    <3> HIDE DEF c
    <3>3. Stay(t) /\ task'[t] = c
      BY <1>1, <3>1, <3>2, Moves
    <3> QED BY <1>2, <2>1, <2>3, <3>1, <3>3 DEF Reading
  <2>4. CASE task' = [task EXCEPT ![t].pc = "out",
                                  ![t].total = IF @ = 0 THEN RB_READER_UNBLOCK ELSE @]
    <3> DEFINE n == IF task[t].total = 0 THEN RB_READER_UNBLOCK ELSE task[t].total
               c == [task[t] EXCEPT !.pc = "out", !.total = n]
    <3>1. n \in Int /\ Counted(n) = Counted(task[t].total)
      BY <1>1 DEF Calls, RB_READER_UNBLOCK, Counted
    <3>2. task' = [task EXCEPT ![t] = c]
      BY <2>4
    <3> HIDE DEF n
    <3>3. c \in Calls /\ c.pc = "out" /\ c.len = task[t].len /\ c.seen = task[t].seen /\ c.total = n
      BY <1>1, <3>1 DEF Calls
    <3> HIDE DEF c
    <3>4. Stay(t) /\ task'[t] = c
      BY <1>1, <3>2, <3>3, Moves
    <3> QED BY <1>2, <2>1, <3>1, <3>3, <3>4 DEF Reading
  <2> QED BY <1>8, <2>2, <2>3, <2>4 DEF RbFlags
<1>9. CASE RbOut(t)
  <2>1. Goto(t, RbReturn(t)) /\ task[t].pc = "out" /\ rb' = [rb EXCEPT !.unblock = FALSE]
    BY <1>9 DEF RbOut, At
  <2>2. /\ Stay(t) /\ task'[t].pc = RbReturn(t) /\ task'[t].len = task[t].len
       /\ task'[t].total = task[t].total /\ task'[t].seen = task[t].seen
    BY <1>1, <2>1, MovesOn
  <2> QED BY <1>2, <2>1, <2>2 DEF Reading
<1> QED BY <1>4, <1>5, <1>6, <1>7, <1>8, <1>9

---------------------------------------------------------------------------
(* The invariant.                                                           *)

\* srb_init.
LEMMA InitInv == Init => IInv
<1> SUFFICES ASSUME Init PROVE IInv
  OBVIOUS
<1>1. list = <<>> /\ list \in Seq([offset : Nat, id : 1..MaxAnchors]) /\ 1..Len(list) = {}
  BY DEF Init
<1>2. TypeOK
  BY <1>1, SrbAssumption DEF Init, TypeOK, Sorted, Idle, Pcs
<1>3. PcsFit /\ TotalFits
  BY SrbAssumption DEF Init, PcsFit, TotalFits, Idle, Tasks
<1>4. LocksHeld
  BY SrbAssumption DEF Init, LocksHeld, HoldsReadLock, HoldsLock, Reading, Idle, Tasks
<1>5. ResetCounts
  BY SrbAssumption DEF Init, ResetCounts, Tasks
<1>6. Accounted
  BY DEF Init, Accounted, InHand
<1>7. EndsAtAnchor
  BY <1>1, SrbAssumption DEF Init, EndsAtAnchor, Idle, Reading, Tasks
<1>8. FetchedInTurn
  BY DEF Init, FetchedInTurn, NotFetchedEarly, NothingFetched
<1> QED BY <1>2, <1>3, <1>4, <1>5, <1>6, <1>7, <1>8 DEF IInv

\* While it reads, and until the count, a reader or drainer holds read_lock.
LEMMA Holder ==
  ASSUME IInv, NEW t \in Tasks, task[t].pc \in Reading \cup {"decide", "count", "drain", "again", "drained", "unlock"}
  PROVE  /\ read_lock = t /\ t # "free" /\ InHand = Counted(task[t].total)
         /\ \A u \in Tasks : u # t => ~HoldsReadLock(u)
BY SrbAssumption DEF IInv, LocksHeld, HoldsReadLock, InHand, Tasks

\* A step that leaves the list alone leaves it sorted.
LEMMA SameList == ASSUME Sorted, list' = list PROVE Sorted'
BY DEF Sorted

\* The locks are with those who hold them when they are with the task that moves.
LEMMA LocksMove ==
  ASSUME LocksHeld, NEW t \in Tasks, Stay(t),
         read_lock' = t <=> HoldsReadLock(t)', lock' = t <=> HoldsLock(t)',
         \A u \in Tasks : u # t => (read_lock' = u <=> read_lock = u) /\ (lock' = u <=> lock = u)
  PROVE  LocksHeld'
<1>1. ASSUME NEW u \in Tasks, u # t
      PROVE  (read_lock' = u <=> HoldsReadLock(u)') /\ (lock' = u <=> HoldsLock(u)')
  <2>1. task'[u] = task[u]
    BY <1>1 DEF Stay
  <2>2. (HoldsReadLock(u)' <=> HoldsReadLock(u)) /\ (HoldsLock(u)' <=> HoldsLock(u))
    BY <2>1 DEF HoldsReadLock, HoldsLock
  <2> QED BY <1>1, <2>2 DEF LocksHeld
<1> QED BY <1>1 DEF LocksHeld

\* srb_write.
LEMMA WriteInv == ASSUME IInv, NEW n \in 1..Size, Write(n) PROVE IInv'
<1>1. Sorted'
  BY SameList DEF IInv, TypeOK, Write
<1>2. TypeOK'
  <2>1. rb.fill + n \in 0..Size /\ sent + n \in 0..MaxSent
    BY SMTT(40), Known, SrbAssumption DEF Write
  <2>2. rb' \in [fill : 0..Size, unblock : BOOLEAN, abort : BOOLEAN, can_read : BOOLEAN]
    BY <2>1 DEF IInv, TypeOK, Write
  <2> QED BY <1>1, <2>1, <2>2 DEF IInv, TypeOK, Write, locks
<1>3. PcsFit' /\ LocksHeld' /\ TotalFits'
  BY DEF IInv, Write, locks, PcsFit, LocksHeld, HoldsReadLock, HoldsLock, TotalFits
<1>4. ResetCounts'
  BY DEF IInv, TypeOK, Write, locks, ResetCounts
<1>5. Accounted'
  BY Known DEF IInv, TypeOK, Write, locks, Accounted, InHand
<1>6. EndsAtAnchor' /\ FetchedInTurn'
  BY DEF IInv, Write, EndsAtAnchor, FetchedInTurn, NotFetchedEarly
<1> QED BY <1>2, <1>3, <1>4, <1>5, <1>6 DEF IInv

\* srb_read starts.
LEMMA ReadCallInv == ASSUME IInv, NEW t \in Readers, NEW n \in Lens, ReadCall(t, n) PROVE IInv'
<1>1. /\ t \in Tasks /\ t # "free" /\ t \notin Drainers /\ t \notin Resetters
      /\ "decide" \in Pcs /\ n \in Nat /\ 0 \in Nat /\ TypeOK
  BY SrbAssumption DEF Tasks, Pcs, IInv
<1>2. /\ task[t].pc = "idle" /\ read_lock = "free" /\ read_lock' = t
      /\ UNCHANGED <<rb, read_offset, list, lock, sent, taken, puts, fetched, resets>>
      /\ task' = [task EXCEPT ![t] = [Idle EXCEPT !.pc = "decide", !.len = n]]
  BY DEF ReadCall, At, history
<1>3. /\ Stay(t) /\ task'[t].pc = "decide" /\ task'[t].total = 0 /\ task'[t].seen = 0
  <2> DEFINE c == [Idle EXCEPT !.pc = "decide", !.len = n]
  <2>1. c \in Calls /\ c.pc = "decide" /\ c.total = 0 /\ c.seen = 0
    BY <1>1, IdleCall DEF Calls
  <2>2. task' = [task EXCEPT ![t] = c]
    BY <1>2
  <2> HIDE DEF c
  <2> QED BY <1>1, <2>1, <2>2, Moves
<1>4. TypeOK'
  BY <1>1, <1>2, <1>3, SameList DEF IInv, TypeOK, Stay, Calls
<1>5. PcsFit'
  BY <1>1, <1>3 DEF IInv, PcsFit, Stay, Tasks
<1>6. LocksHeld'
  <2>1. HoldsReadLock(t)' /\ ~HoldsLock(t)' /\ ~HoldsLock(t)
    BY <1>1, <1>2, <1>3 DEF HoldsReadLock, HoldsLock
  <2>2. \A u \in Tasks : u # t => (read_lock' = u <=> read_lock = u) /\ (lock' = u <=> lock = u)
    BY <1>2, SrbAssumption
  <2>3. lock # t
    BY <1>1, <2>1 DEF IInv, LocksHeld
  <2> QED BY <1>1, <1>2, <1>3, <2>1, <2>2, <2>3, LocksMove DEF IInv
<1>7. ResetCounts'
  BY <1>2 DEF IInv, ResetCounts
<1>8. TotalFits'
  BY <1>3 DEF IInv, TotalFits, Stay
<1>9. Accounted'
  BY <1>1, <1>2, <1>3 DEF IInv, Accounted, InHand, Counted
<1>10. EndsAtAnchor'
  BY <1>1, <1>2, <1>3, Known DEF IInv, EndsAtAnchor, Stay, Tasks, Reading
<1>11. FetchedInTurn'
  BY <1>2 DEF IInv, FetchedInTurn, NotFetchedEarly
<1> QED BY <1>4, <1>5, <1>6, <1>7, <1>8, <1>9, <1>10, <1>11 DEF IInv

\* It looks at the anchors: what it asks for then ends at the first of them, and so
\* before all.
LEMMA ReadDecideInv == ASSUME IInv, NEW t \in Readers, ReadDecide(t) PROVE IInv'
<1>1. t \in Tasks /\ t # "free" /\ t \notin Drainers /\ t \notin Resetters /\ "free" \notin Resetters
  BY SrbAssumption DEF Tasks
<1>2. /\ Stay(t) /\ task[t].pc = "decide"
      /\ \/ /\ task'[t].pc = "fetch" /\ task'[t].total = 0 /\ task'[t].seen = 0
            /\ read_lock' = "free"
         \/ /\ task'[t].pc = "rb_read" /\ task'[t].total = task[t].total
            /\ task'[t].seen = puts
            /\ list # <<>> => Distance > 0 /\ task'[t].len <= Distance
            /\ read_lock' = read_lock
  BY ReadDecideStep
<1>3. lock = "free" /\ UNCHANGED <<rb, read_offset, list, lock, sent, taken, puts, fetched, resets>>
  BY DEF ReadDecide, history
<1>4. /\ read_lock = t /\ InHand = Counted(task[t].total) /\ task[t].total = 0
      /\ \A u \in Tasks : u # t => ~HoldsReadLock(u)
  BY <1>1, <1>2, Holder DEF IInv, TotalFits
<1>5. task'[t].pc \in {"fetch", "rb_read"} /\ task'[t].total = 0 /\ task'[t].seen \in 0..puts /\ task'[t].len \in Nat
  BY <1>1, <1>2, <1>4, Known DEF Stay, Calls
<1>6. TypeOK'
  BY <1>1, <1>2, <1>3, SameList DEF IInv, TypeOK, Stay, Calls
<1>7. PcsFit'
  BY <1>1, <1>2, <1>5 DEF IInv, PcsFit, Stay, Tasks, Reading
<1>8. LocksHeld'
  <2>1. /\ HoldsReadLock(t)' <=> read_lock' = t
        /\ ~HoldsLock(t)' /\ ~HoldsLock(t)
    BY <1>1, <1>2, <1>4 DEF HoldsReadLock, HoldsLock, Reading
  <2>2. \A u \in Tasks : u # t => (read_lock' = u <=> read_lock = u) /\ (lock' = u <=> lock = u)
    BY <1>2, <1>3, <1>4, SrbAssumption
  <2> QED BY <1>1, <1>2, <1>3, <2>1, <2>2, LocksMove DEF IInv
<1>9. ResetCounts'
  BY <1>3 DEF IInv, ResetCounts
<1>10. TotalFits'
  BY <1>2, <1>5 DEF IInv, TotalFits, Stay
<1>11. Accounted'
  BY <1>1, <1>2, <1>3, <1>4, <1>5 DEF IInv, Accounted, InHand, Counted
<1>12. EndsAtAnchor'
  <2>1. ASSUME task'[t].pc = "rb_read", NEW i \in 1..Len(list)
        PROVE  taken + task'[t].len <= list[i].offset
    <3>1. list # <<>> /\ task'[t].len <= Head(list).offset - read_offset
      BY <1>2, <2>1, Known DEF Distance
    <3>2. taken <= read_offset
      BY <1>1, <1>3, <1>4, Known DEF IInv, Accounted, Counted
    <3>3. Head(list).offset \in Nat /\ Head(list).offset <= list[i].offset
      BY <3>1, FirstAnchor
    <3>4. /\ taken \in Nat /\ read_offset \in Nat /\ list[i].offset \in Nat
          /\ task'[t].len \in Nat
      BY <1>5, Known
    <3> QED BY SMTT(40), <3>1, <3>2, <3>3, <3>4
  <2>2. ASSUME NEW u \in Readers
        PROVE  /\ task'[u].seen <= puts
               /\ task'[u].pc \in Reading \cup {"count"} =>
                    \A i \in 1..Len(list) : list[i].id <= task'[u].seen =>
                                              taken + task'[u].len <= list[i].offset
    <3>1. CASE u = t
      <4>1. task'[t].pc \in Reading \cup {"count"} => task'[t].pc = "rb_read"
        BY <1>5 DEF Reading
      <4>2. task'[t].seen <= puts
        BY <1>5, Known
      <4> QED BY <2>1, <3>1, <4>1, <4>2
    <3>2. CASE u # t
      BY <1>2, <3>2 DEF IInv, EndsAtAnchor, Stay, Tasks
    <3> QED BY <3>1, <3>2
  <2> QED BY <1>3, <2>2 DEF IInv, EndsAtAnchor
<1>13. FetchedInTurn'
  BY <1>3 DEF IInv, FetchedInTurn, NotFetchedEarly
<1> QED BY <1>6, <1>7, <1>8, <1>9, <1>10, <1>11, <1>12, <1>13 DEF IInv

\* A call ends: it has nothing more in hand, and read_lock is free.
LEMMA ReadCountInv == ASSUME IInv, NEW t \in Readers, ReadCount(t) PROVE IInv'
<1>1. /\ t \in Tasks /\ t # "free" /\ t \notin Drainers /\ t \notin Resetters /\ "free" \notin Resetters
      /\ "idle" \in Pcs /\ 0 \in Nat /\ TypeOK
  BY SrbAssumption DEF Tasks, Pcs, IInv
<1>2. /\ task[t].pc = "count" /\ lock = "free" /\ read_lock' = "free"
      /\ read_offset' = read_offset + Counted(task[t].total)
      /\ UNCHANGED <<rb, list, lock, sent, taken, puts, fetched, resets>>
      /\ task' = [task EXCEPT ![t] = Idle]
  BY DEF ReadCount, At, history
<1>3. /\ Stay(t) /\ task'[t].pc = "idle" /\ task'[t].total = 0 /\ task'[t].seen = 0
  BY <1>1, <1>2, Ends
<1>4. /\ read_lock = t /\ InHand = Counted(task[t].total) /\ InHand \in Nat
      /\ \A u \in Tasks : u # t => ~HoldsReadLock(u)
  BY <1>1, <1>2, Holder, Known DEF Counted
<1>5. read_offset' = read_offset + InHand /\ read_offset' \in Nat
  BY <1>2, <1>4, Known
<1>6. TypeOK'
  BY <1>1, <1>2, <1>3, <1>5, SameList DEF IInv, TypeOK, Stay, Calls
<1>7. PcsFit'
  BY <1>1, <1>3 DEF IInv, PcsFit, Stay, Tasks
<1>8. LocksHeld'
  <2>1. ~HoldsReadLock(t)' /\ ~HoldsLock(t)' /\ ~HoldsLock(t)
    BY <1>1, <1>2, <1>3 DEF HoldsReadLock, HoldsLock, Reading
  <2>2. \A u \in Tasks : u # t => (read_lock' = u <=> read_lock = u) /\ (lock' = u <=> lock = u)
    BY <1>2, <1>3, <1>4, SrbAssumption
  <2> QED BY <1>1, <1>2, <1>3, <2>1, <2>2, LocksMove DEF IInv
<1>9. ResetCounts'
  BY <1>2 DEF IInv, ResetCounts
<1>10. TotalFits'
  BY <1>3 DEF IInv, TotalFits, Stay
<1>11. Accounted'
  <2>1. InHand' = 0
    BY <1>2 DEF InHand
  <2> HIDE DEF InHand
  <2> QED BY <1>1, <1>2, <1>4, <1>5, <2>1, Known DEF IInv, Accounted
<1>12. EndsAtAnchor'
  <2>1. \A u \in Readers : u # t => task'[u] = task[u]
    BY <1>3 DEF Stay, Tasks
  <2>2. task'[t].pc \notin Reading \cup {"count"} /\ task'[t].seen <= puts
    BY <1>3, Known DEF Reading
  <2> QED BY <1>2, <2>1, <2>2 DEF IInv, EndsAtAnchor
<1>13. FetchedInTurn'
  BY <1>2 DEF IInv, FetchedInTurn, NotFetchedEarly
<1> QED BY <1>6, <1>7, <1>8, <1>9, <1>10, <1>11, <1>12, <1>13 DEF IInv

\* Where nothing is read or put and no read begins, the reads still end before their
\* anchors.
LEMMA AnchorsStay ==
  ASSUME IInv, NEW t \in Tasks, Stay(t), UNCHANGED <<list, puts, taken>>,
         t \in Readers => task'[t].seen <= puts /\ task'[t].pc \notin Reading \cup {"count"}
  PROVE  EndsAtAnchor'
<1>1. \A u \in Readers : u # t => task'[u] = task[u]
  BY DEF Stay, Tasks
<1> QED BY <1>1 DEF IInv, EndsAtAnchor

\* rb_read, but for what it takes: a failure that hides what was taken comes from a reset,
\* which is about to forget it.
LEMMA RbQuietInv ==
  ASSUME IInv, NEW t \in Readers \cup Drainers,
         RbRefuse(t) \/ RbEnter(t) \/ RbAwake(t) \/ RbTimeOut(t) \/ RbFlags(t) \/ RbOut(t)
  PROVE  IInv'
<1>1. /\ t \in Tasks /\ t # "free" /\ t \notin Resetters /\ "free" \notin Resetters
      /\ (t \in Readers <=> t \notin Drainers)
  BY SrbAssumption DEF Tasks
<1>2. /\ Stay(t) /\ task[t].pc \in Reading
      /\ task'[t].pc \in {"take", "flags", "out", RbReturn(t)}
      /\ task'[t].len = task[t].len /\ task'[t].seen = task[t].seen
      /\ task'[t].total < 0 => task'[t].pc \in {"out", RbReturn(t)}
      /\ Counted(task'[t].total) = Counted(task[t].total) \/ rb.abort
      /\ rb' \in [fill : 0..Size, unblock : BOOLEAN, abort : BOOLEAN, can_read : BOOLEAN]
      /\ rb'.fill = rb.fill /\ rb'.abort = rb.abort
  BY RbQuietStep
<1>3. UNCHANGED <<read_offset, list, lock, read_lock, sent, taken, puts, fetched, resets>>
  BY DEF RbRefuse, RbEnter, RbAwake, RbTimeOut, RbFlags, RbOut, locks, history
<1>4. /\ read_lock = t /\ InHand = Counted(task[t].total)
      /\ \A u \in Tasks : u # t => ~HoldsReadLock(u)
  BY <1>1, <1>2, Holder
<1>5. RbReturn(t) = IF t \in Readers THEN "count" ELSE "drained"
  BY DEF RbReturn
<1>6. TypeOK'
  BY <1>2, <1>3, SameList DEF IInv, TypeOK, Stay, Calls
<1>7. PcsFit'
  <2>1. \A u \in Tasks : u # t => task'[u] = task[u]
    BY <1>2 DEF Stay
  <2>2. t \in Readers => task'[t].pc \in Reading \cup {"count"}
    BY <1>2, <1>5 DEF Reading
  <2>3. t \in Drainers => task'[t].pc \in Reading \cup {"drained"}
    BY <1>1, <1>2, <1>5 DEF Reading
  <2> QED BY <1>1, <2>1, <2>2, <2>3 DEF IInv, PcsFit, Tasks
<1>8. LocksHeld'
  <2>1. HoldsReadLock(t)' /\ HoldsReadLock(t)
    BY <1>2, <1>5 DEF HoldsReadLock, Reading
  <2>2. HoldsLock(t)' <=> HoldsLock(t)
    BY <1>1, <1>2, <1>5 DEF HoldsLock, Reading
  <2>3. (read_lock' = t <=> HoldsReadLock(t)') /\ (lock' = t <=> HoldsLock(t)')
    BY <1>1, <1>3, <1>4, <2>1, <2>2 DEF IInv, LocksHeld
  <2> QED BY <1>1, <1>2, <1>3, <2>3, LocksMove DEF IInv
<1>9. ResetCounts'
  BY <1>2, <1>3 DEF IInv, ResetCounts
<1>10. TotalFits'
  <2>1. /\ task'[t].pc \in {"take", "flags", "out", "count", "drained"}
        /\ task'[t].total < 0 => task'[t].pc \in {"out", "count", "drained"}
    BY <1>2, <1>5
  <2> QED BY <1>2, <2>1 DEF IInv, TotalFits, Stay
<1>11. Accounted'
  <2>1. InHand' = Counted(task'[t].total) /\ InHand \in Nat /\ InHand' \in Nat
    BY <1>1, <1>2, <1>3, <1>4, Known DEF InHand, Counted, Stay, Calls
  <2>2. InHand' = InHand \/ (lock \in Resetters /\ resets # 0)
    BY <1>2, <1>4, <2>1, Known DEF IInv, ResetCounts
  <2> HIDE DEF InHand
  <2> QED BY <1>2, <1>3, <2>2 DEF IInv, Accounted
<1>12. EndsAtAnchor'
  <2>1. \A u \in Readers : u # t => task'[u] = task[u]
    BY <1>2 DEF Stay, Tasks
  <2> QED BY <1>2, <1>3, <2>1 DEF IInv, EndsAtAnchor
<1>13. FetchedInTurn'
  BY <1>3 DEF IInv, FetchedInTurn, NotFetchedEarly
<1> QED BY <1>6, <1>7, <1>8, <1>9, <1>10, <1>11, <1>12, <1>13 DEF IInv

\* What rb_read takes, the call has in hand, and asks for less by as much.
LEMMA RbTakeInv == ASSUME IInv, NEW t \in Readers \cup Drainers, RbTake(t) PROVE IInv'
<1>1. /\ t \in Tasks /\ t # "free" /\ t \notin Resetters /\ "free" \notin Resetters
      /\ (t \in Readers <=> t \notin Drainers)
  BY SrbAssumption DEF Tasks
<1>2. PICK n \in 0..rb.fill :
        /\ Stay(t) /\ task[t].pc = "take"
        /\ task'[t].pc \in {"out", "sleep"} /\ n <= task[t].len
        /\ task'[t].len = task[t].len - n /\ task'[t].total = task[t].total + n
        /\ task'[t].seen = task[t].seen
        /\ rb' = [rb EXCEPT !.fill = @ - n] /\ taken' = taken + n
  BY RbTakeStep
<1>3. UNCHANGED <<read_offset, list, lock, read_lock, sent, puts, fetched, resets>>
  BY DEF RbTake, locks
<1>4. n \in Nat /\ n <= rb.fill
  BY Known
<1>5. /\ read_lock = t /\ InHand = Counted(task[t].total) /\ task[t].total \in Nat
      /\ \A u \in Tasks : u # t => ~HoldsReadLock(u)
  <2>1. task[t].pc \in Reading
    BY <1>2 DEF Reading
  <2>2. task[t].total \in Int /\ ~(task[t].total < 0)
    BY <1>1, <1>2, Known DEF IInv, TotalFits
  <2>3. task[t].total \in Nat
    BY <2>2
  <2> QED BY <1>1, <2>1, <2>3, Holder
<1>6. /\ rb \in [fill : 0..Size, unblock : BOOLEAN, abort : BOOLEAN, can_read : BOOLEAN]
      /\ rb'.fill = rb.fill - n /\ rb'.abort = rb.abort /\ sent = taken + rb.fill
      /\ taken \in Nat /\ sent \in 0..MaxSent /\ rb.fill \in Nat
  BY <1>2, Known DEF IInv, TypeOK, Accounted
<1>7. TypeOK'
  <2>1. rb.fill - n \in 0..Size /\ taken + n \in 0..MaxSent
    BY <1>4, <1>6, SrbAssumption
  <2>2. rb' \in [fill : 0..Size, unblock : BOOLEAN, abort : BOOLEAN, can_read : BOOLEAN]
    BY <1>2, <1>6, <2>1
  <2> QED BY <1>2, <1>3, <2>1, <2>2, SameList DEF IInv, TypeOK, Stay, Calls
<1>8. PcsFit'
  <2>1. \A u \in Tasks : u # t => task'[u] = task[u]
    BY <1>2 DEF Stay
  <2>2. task'[t].pc \in Reading
    BY <1>2 DEF Reading
  <2> QED BY <1>1, <2>1, <2>2 DEF IInv, PcsFit, Tasks
<1>9. LocksHeld'
  <2>1. HoldsReadLock(t)' /\ HoldsReadLock(t)
    BY <1>2 DEF HoldsReadLock, Reading
  <2>2. HoldsLock(t)' <=> HoldsLock(t)
    BY <1>1, <1>2 DEF HoldsLock, Reading
  <2>3. (read_lock' = t <=> HoldsReadLock(t)') /\ (lock' = t <=> HoldsLock(t)')
    BY <1>1, <1>3, <1>5, <2>1, <2>2 DEF IInv, LocksHeld
  <2> QED BY <1>1, <1>2, <1>3, <2>3, LocksMove DEF IInv
<1>10. ResetCounts'
  BY <1>3, <1>6 DEF IInv, ResetCounts
<1>11. TotalFits'
  <2>1. ~(task'[t].total < 0) /\ task'[t].pc \in {"sleep", "out"}
    BY <1>2, <1>4, <1>5
  <2> QED BY <1>2, <2>1 DEF IInv, TotalFits, Stay
<1>12. Accounted'
  <2>1. InHand' = InHand + n /\ InHand \in Nat
    BY <1>1, <1>2, <1>3, <1>4, <1>5 DEF InHand, Counted
  <2> HIDE DEF InHand
  <2> QED BY SMTT(40), <1>2, <1>3, <1>4, <1>6, <2>1, Known DEF IInv, Accounted
<1>13. EndsAtAnchor'
  <2>1. ASSUME NEW u \in Readers, u # t
        PROVE  task'[u] = task[u] /\ task[u].pc \notin Reading \cup {"count"}
    <3>1. u \in Tasks /\ ~HoldsReadLock(u)
      BY <1>5, <2>1 DEF Tasks
    <3> QED BY <1>2, <2>1, <3>1 DEF HoldsReadLock, Stay
  <2>2. ASSUME t \in Readers, NEW i \in 1..Len(list), list[i].id <= task[t].seen
        PROVE  taken' + task'[t].len <= list[i].offset
    <3>1. taken + task[t].len <= list[i].offset
      BY <1>2, <2>2 DEF IInv, EndsAtAnchor, Reading
    <3>2. task[t].len \in Nat /\ list[i].offset \in Nat
      BY <1>1, <2>2, Known
    <3> QED BY <1>2, <1>4, <1>6, <3>1, <3>2
  <2> QED BY <1>2, <1>3, <2>1, <2>2 DEF IInv, EndsAtAnchor
<1>14. FetchedInTurn'
  BY <1>3 DEF IInv, FetchedInTurn, NotFetchedEarly
<1> QED BY <1>7, <1>8, <1>9, <1>10, <1>11, <1>12, <1>13, <1>14 DEF IInv

\* srb_put_anchor: no read has seen the new anchor.
LEMMA PutAnchorInv == ASSUME IInv, NEW offset \in Nat, PutAnchor(offset) PROVE IInv'
<1> DEFINE a == [offset |-> offset, id |-> puts + 1]
<1>1. puts < MaxAnchors /\ puts' = puts + 1 /\ list' = Insert(a)
  BY DEF PutAnchor
<1>2. puts \in Nat /\ MaxAnchors \in Nat /\ a \in [offset : Nat, id : 1..MaxAnchors] /\ a.id = puts + 1
  BY <1>1, Known, SrbAssumption
<1>3. /\ list' \in Seq([offset : Nat, id : 1..MaxAnchors])
      /\ Sorted'
      /\ \A i \in 1..Len(list') : list'[i] = a \/ \E j \in 1..Len(list) : list'[i] = list[j]
  <2> HIDE DEF a
  <2>1. list \in Seq([offset : Nat, id : 1..MaxAnchors]) /\ Sorted /\ \A i \in 1..Len(list) : list[i].id <= puts
    BY DEF IInv, TypeOK, EndsAtAnchor
  <2> QED BY <1>1, <1>2, <2>1, InsertSorted
<1>4. /\ rb' \in [fill : 0..Size, unblock : BOOLEAN, abort : BOOLEAN, can_read : BOOLEAN]
      /\ rb'.fill = rb.fill /\ rb'.abort = rb.abort
  BY DEF PutAnchor, IInv, TypeOK
<1>5. UNCHANGED <<read_offset, lock, read_lock, task, sent, taken, fetched, resets>>
  BY DEF PutAnchor, locks
<1>6. TypeOK'
  BY <1>3, <1>4, <1>5 DEF IInv, TypeOK
<1>7. PcsFit' /\ LocksHeld' /\ TotalFits'
  BY <1>5 DEF IInv, PcsFit, LocksHeld, HoldsReadLock, HoldsLock, TotalFits
<1>8. ResetCounts' /\ Accounted'
  BY <1>4, <1>5 DEF IInv, ResetCounts, Accounted, InHand
<1>9. EndsAtAnchor'
  <2>1. puts' \in 0..MaxAnchors
    BY <1>1, <1>2
  <2>2. ASSUME NEW i \in 1..Len(list') PROVE list'[i].id <= puts'
    <3>1. CASE list'[i] = a
      BY <1>1, <1>2, <3>1
    <3>2. ASSUME NEW j \in 1..Len(list), list'[i] = list[j] PROVE list'[i].id <= puts'
      BY SMTT(40), <1>1, <1>2, <3>2, Known DEF IInv, EndsAtAnchor
    <3> QED BY <1>3, <3>1, <3>2
  <2>3. ASSUME NEW t \in Readers PROVE task[t].seen <= puts /\ task[t].seen \in Nat
    BY Known DEF IInv, EndsAtAnchor, Tasks
  <2>4. ASSUME NEW t \in Readers, task[t].pc \in Reading \cup {"count"},
               NEW i \in 1..Len(list'), list'[i].id <= task[t].seen
        PROVE  taken + task[t].len <= list'[i].offset
    <3>1. list'[i] # a
      BY <1>2, <2>3, <2>4
    <3>2. PICK j \in 1..Len(list) : list'[i] = list[j]
      BY <1>3, <3>1
    <3> QED BY <2>4, <3>2 DEF IInv, EndsAtAnchor
  <2> HIDE DEF a
  <2>5. \A t \in Readers : task[t].seen <= puts'
    BY <1>1, <1>2, <2>3
  <2> QED BY <1>5, <2>1, <2>2, <2>4, <2>5 DEF EndsAtAnchor
<1>10. FetchedInTurn'
  BY <1>5 DEF IInv, FetchedInTurn, NotFetchedEarly
<1> QED BY <1>6, <1>7, <1>8, <1>9, <1>10 DEF IInv

\* srb_get_anchor: the first anchor, at or before what the reader has read.
LEMMA GetAnchorInv == ASSUME IInv, NEW t \in Readers, GetAnchor(t) PROVE IInv'
<1>1. /\ t \in Tasks /\ t # "free" /\ t \notin Drainers /\ t \notin Resetters /\ "free" \notin Resetters
      /\ TypeOK
  BY SrbAssumption DEF Tasks, IInv
<1>2. /\ task[t].pc = "fetch" /\ lock = "free" /\ task' = [task EXCEPT ![t] = Idle]
      /\ UNCHANGED <<rb, read_offset, lock, read_lock, sent, taken, puts, resets>>
  BY DEF GetAnchor, At, locks
<1>3. Stay(t) /\ task'[t].pc = "idle" /\ task'[t].total = 0 /\ task'[t].seen = 0
  BY <1>1, <1>2, Ends
<1>4. read_lock # t
  BY <1>1, <1>2 DEF IInv, LocksHeld, HoldsReadLock, Reading
<1>5. \/ list' = list /\ fetched' = fetched
      \/ /\ list # <<>> /\ Distance <= 0 /\ list' = Tail(list)
         /\ fetched' = [offset |-> Head(list).offset, at |-> taken]
  BY DEF GetAnchor
<1>6. ASSUME list # <<>>, list' = Tail(list)
      PROVE  /\ list' \in Seq(Anchors) /\ Len(list') = Len(list) - 1
             /\ \A i \in 1..Len(list') : list'[i] = list[i + 1] /\ i + 1 \in 1..Len(list)
  <2>1. list \in Seq(Anchors) /\ Len(list) \in Nat
    BY Known
  <2>2. Tail(list) \in Seq(Anchors) /\ Len(Tail(list)) = Len(list) - 1
        /\ \A i \in 1..Len(Tail(list)) : Tail(list)[i] = list[i + 1]
    BY <1>6, <2>1, HeadTailProperties
  <2> QED BY <1>6, <2>1, <2>2
<1>7. list' \in Seq([offset : Nat, id : 1..MaxAnchors]) /\ Sorted'
  <2>1. CASE list' = list
    BY <2>1, SameList DEF IInv, TypeOK
  <2>2. CASE list # <<>> /\ list' = Tail(list)
    <3>1. ASSUME NEW i \in 1..Len(list'), NEW j \in 1..Len(list'), i < j
          PROVE  \/ list'[i].offset < list'[j].offset
                 \/ list'[i].offset = list'[j].offset /\ list'[i].id < list'[j].id
      <4>1. /\ list'[i] = list[i + 1] /\ i + 1 \in 1..Len(list)
            /\ list'[j] = list[j + 1] /\ j + 1 \in 1..Len(list)
        BY <1>6, <2>2
      <4>2. i + 1 < j + 1
        BY <3>1
      <4> QED BY <4>1, <4>2 DEF IInv, TypeOK, Sorted
    <3>2. Sorted'
      BY <3>1 DEF Sorted
    <3> QED BY <1>6, <2>2, <3>2 DEF Anchors
  <2> QED BY <1>5, <2>1, <2>2
<1>8. TypeOK'
  BY <1>2, <1>3, <1>7 DEF IInv, TypeOK, Stay, Calls
<1>9. PcsFit'
  BY <1>1, <1>3 DEF IInv, PcsFit, Stay, Tasks
<1>10. LocksHeld'
  <2>1. ~HoldsReadLock(t)' /\ ~HoldsLock(t)'
    BY <1>1, <1>3 DEF HoldsReadLock, HoldsLock, Reading
  <2> QED BY <1>1, <1>2, <1>3, <1>4, <2>1, LocksMove DEF IInv
<1>11. ResetCounts'
  BY <1>2 DEF IInv, ResetCounts
<1>12. TotalFits'
  BY <1>3 DEF IInv, TotalFits, Stay
<1>13. Accounted'
  <2>1. InHand' = InHand
    <3>1. read_lock # "free" => read_lock \in Tasks
      BY DEF IInv, TypeOK
    <3> QED BY <1>2, <1>3, <1>4, <3>1 DEF InHand, Stay
  <2> HIDE DEF InHand
  <2> QED BY <1>2, <2>1 DEF IInv, Accounted
<1>14. EndsAtAnchor'
  <2>1. \A i \in 1..Len(list') : \E j \in 1..Len(list) : list'[i] = list[j]
    BY <1>5, <1>6
  <2>2. \A u \in Readers : u # t => task'[u] = task[u]
    BY <1>3 DEF Stay, Tasks
  <2>3. task'[t].pc \notin Reading \cup {"count"} /\ task'[t].seen <= puts
    BY <1>3, Known DEF Reading
  <2>4. \A i \in 1..Len(list') : list'[i].id <= puts
    BY <2>1 DEF IInv, EndsAtAnchor
  <2>5. \A u \in Readers : task'[u].pc \in Reading \cup {"count"} =>
          \A i \in 1..Len(list') : list'[i].id <= task'[u].seen => taken + task'[u].len <= list'[i].offset
    BY <2>1, <2>2, <2>3 DEF IInv, EndsAtAnchor
  <2>6. \A u \in Readers : task'[u].seen <= puts
    BY <2>2, <2>3 DEF IInv, EndsAtAnchor
  <2> QED BY <1>2, <2>4, <2>5, <2>6 DEF IInv, EndsAtAnchor
<1>15. FetchedInTurn'
  <2>1. CASE fetched' = fetched
    BY <1>2, <2>1 DEF IInv, FetchedInTurn, NotFetchedEarly
  <2>2. CASE list # <<>> /\ Distance <= 0 /\ fetched' = [offset |-> Head(list).offset, at |-> taken]
    <3>1. Head(list).offset \in Nat /\ Head(list).offset <= read_offset
      BY <2>2, FirstAnchor, Known DEF Distance
    <3>2. resets = 0 => read_offset <= taken
      <4>1. InHand \in Nat
        BY Known DEF InHand, Counted, IInv, TypeOK
      <4> HIDE DEF InHand
      <4> QED BY <4>1, Known DEF IInv, Accounted
    <3>3. fetched'.offset = Head(list).offset /\ fetched'.at = taken
      BY <2>2
    <3>4. fetched' \in [offset : Nat, at : Nat]
      BY <2>2, <3>1, Known
    <3>5. resets' = 0 => fetched'.offset <= fetched'.at
      BY <1>2, <3>1, <3>2, <3>3, Known
    <3> QED BY <3>4, <3>5 DEF FetchedInTurn, NotFetchedEarly
  <2> QED BY <1>5, <2>1, <2>2
<1> QED BY <1>8, <1>9, <1>10, <1>11, <1>12, <1>13, <1>14, <1>15 DEF IInv

\* What a step of a task that is not a reader has to leave, to leave the invariant: it
\* neither reads nor writes, and says itself what becomes of the locks and the offset.
LEMMA OtherStep ==
  ASSUME IInv, NEW t \in Drainers, Stay(t),
         UNCHANGED <<rb, list, sent, taken, puts, fetched, resets>>,
         task'[t].pc \in {"idle", "wait", "drain", "again", "rb_read", "unlock"},
         task'[t].total = 0,
         lock' \in Tasks \cup {"free"}, read_lock' \in Tasks \cup {"free"}, read_offset' \in Nat,
         read_lock' = t <=> HoldsReadLock(t)', lock' = t <=> HoldsLock(t)',
         \A u \in Tasks : u # t => (read_lock' = u <=> read_lock = u) /\ (lock' = u <=> lock = u),
         read_offset' + InHand' = read_offset + InHand
  PROVE  IInv'
<1>1. t \in Tasks /\ t \notin Readers /\ t \notin Resetters /\ \A u \in Resetters : u \in Tasks /\ u # t
  BY SrbAssumption DEF Tasks
<1>2. \A u \in Tasks : u # t => task'[u] = task[u]
  BY DEF Stay
<1>3. lock' \in Resetters <=> lock \in Resetters
  BY <1>1
<1>4. TypeOK'
  BY SameList DEF IInv, TypeOK, Stay, Calls
<1>5. PcsFit'
  BY <1>1, <1>2 DEF IInv, PcsFit, Tasks, Reading
<1>6. LocksHeld'
  BY <1>1, LocksMove DEF IInv
<1>7. ResetCounts'
  BY <1>3 DEF IInv, ResetCounts
<1>8. TotalFits'
  BY <1>2 DEF IInv, TotalFits
<1>9. Accounted'
  BY <1>3 DEF IInv, Accounted
<1>10. EndsAtAnchor'
  BY <1>1, AnchorsStay
<1>11. FetchedInTurn'
  BY DEF IInv, FetchedInTurn, NotFetchedEarly
<1> QED BY <1>4, <1>5, <1>6, <1>7, <1>8, <1>9, <1>10, <1>11 DEF IInv

\* srb_drain, until it takes read_lock.
LEMMA DrainCallInv ==
  ASSUME IInv, NEW t \in Drainers, (\E upto \in 1..MaxSent : DrainCall(t, upto)) \/ DrainReadLock(t)
  PROVE  IInv'
<1>1. /\ t \in Tasks /\ t # "free" /\ TypeOK /\ {"wait", "drain"} \subseteq Pcs
      /\ lock \in Tasks \cup {"free"} /\ read_lock \in Tasks \cup {"free"} /\ "free" \notin Tasks
  BY SrbAssumption DEF Tasks, Pcs, IInv, TypeOK
<1>2. task[t].pc \in {"idle", "wait"}
  BY DEF DrainCall, DrainReadLock, At
<1>3. read_lock # t /\ lock # t
  BY <1>1, <1>2 DEF IInv, LocksHeld, HoldsReadLock, HoldsLock, Reading
<1>4. task[t].total = 0
  BY <1>1, <1>2 DEF IInv, TotalFits
<1>5. UNCHANGED <<rb, read_offset, list, lock, sent, taken, puts, fetched, resets>>
  BY DEF DrainCall, DrainReadLock, locks, history
<1>6. CASE \E upto \in 1..MaxSent : DrainCall(t, upto)
  <2>1. PICK upto \in 1..MaxSent : DrainCall(t, upto)
    BY <1>6
  <2> DEFINE c == [Idle EXCEPT !.pc = "wait", !.seen = upto]
  <2>2. c \in Calls /\ c.pc = "wait" /\ c.total = 0
    <3>1. upto \in Nat /\ "wait" \in Pcs
      BY <1>1, SrbAssumption
    <3> QED BY <3>1, IdleCall DEF Calls
  <2>3. task' = [task EXCEPT ![t] = c] /\ read_lock' = read_lock
    BY <2>1 DEF DrainCall, locks
  <2> HIDE DEF c
  <2>4. Stay(t) /\ task'[t].pc = "wait" /\ task'[t].total = 0
    BY <1>1, <2>2, <2>3, Moves
  <2>5. ~HoldsReadLock(t)' /\ ~HoldsLock(t)'
    BY <2>4 DEF HoldsReadLock, HoldsLock, Reading
  <2>6. InHand' = InHand
    BY <1>1, <1>3, <2>3, <2>4 DEF InHand, Stay
  <2> HIDE DEF InHand
  <2> QED BY <1>1, <1>3, <1>5, <2>3, <2>4, <2>5, <2>6, OtherStep, Known
<1>7. CASE DrainReadLock(t)
  <2>1. Goto(t, "drain") /\ read_lock = "free" /\ read_lock' = t
    BY <1>7 DEF DrainReadLock
  <2>2. Stay(t) /\ task'[t].pc = "drain" /\ task'[t].total = 0
    BY <1>1, <1>4, <2>1, MovesOn
  <2>3. HoldsReadLock(t)' /\ ~HoldsLock(t)'
    BY <2>2 DEF HoldsReadLock, HoldsLock, Reading
  <2>4. InHand' = 0 /\ InHand = 0
    BY <1>1, <2>1, <2>2 DEF InHand, Counted
  <2> HIDE DEF InHand
  <2> QED BY <1>1, <1>3, <1>5, <2>1, <2>2, <2>3, <2>4, OtherStep, Known
<1> QED BY <1>6, <1>7

\* It takes `lock', reads on as long as there is something, and gives both locks back.
LEMMA DrainInv ==
  ASSUME IInv, NEW t \in Drainers, DrainLock(t) \/ DrainAgain(t) \/ Drained(t) \/ DrainUnlock(t)
  PROVE  IInv'
<1>1. /\ t \in Tasks /\ t # "free" /\ TypeOK /\ {"again", "rb_read", "unlock"} \subseteq Pcs
      /\ lock \in Tasks \cup {"free"} /\ read_lock \in Tasks \cup {"free"} /\ "free" \notin Tasks
  BY SrbAssumption DEF Tasks, Pcs, IInv, TypeOK
<1>2. task[t].pc \in {"drain", "again", "drained", "unlock"}
  BY DEF DrainLock, DrainAgain, Drained, DrainUnlock, At
<1>3. /\ read_lock = t /\ InHand = Counted(task[t].total) /\ InHand \in Nat
      /\ task[t].pc # "drain" => lock = t
      /\ task[t] \in Calls
  <2>1. task[t].total \in Int
    BY <1>1, Known
  <2>2. task[t].pc # "drain" => lock = t
    BY <1>1, <1>2 DEF IInv, LocksHeld, HoldsLock
  <2> QED BY <1>1, <1>2, <2>1, <2>2, Holder DEF Counted, TypeOK, Calls
<1>4. task[t].pc # "drained" => task[t].total = 0 /\ InHand = 0
  BY <1>1, <1>2, <1>3 DEF IInv, TotalFits, Counted
<1>5. UNCHANGED <<rb, list, sent, taken, puts, fetched, resets>>
  BY DEF DrainLock, DrainAgain, Drained, DrainUnlock, locks, history
<1> HIDE DEF InHand
<1>6. CASE DrainLock(t)
  <2>1. Goto(t, "again") /\ lock = "free" /\ lock' = t /\ read_lock' = read_lock /\ read_offset' = read_offset
        /\ task[t].pc = "drain"
    BY <1>6 DEF DrainLock, At
  <2>2. Stay(t) /\ task'[t].pc = "again" /\ task'[t].total = 0
    BY <1>1, <1>4, <2>1, MovesOn
  <2>3. HoldsReadLock(t)' /\ HoldsLock(t)'
    BY <2>2 DEF HoldsReadLock, HoldsLock
  <2>4. InHand' = 0
    BY <1>1, <1>3, <2>1, <2>2 DEF InHand, Counted
  <2> QED BY <1>1, <1>3, <1>4, <1>5, <2>1, <2>2, <2>3, <2>4, OtherStep, Known
<1>7. CASE DrainAgain(t)
  <2>1. /\ read_offset' = read_offset /\ lock' = lock /\ read_lock' = read_lock
        /\ task[t].pc = "again" /\ task[t].total = 0
    BY <1>4, <1>7 DEF DrainAgain, At, locks
  <2>2. Stay(t) /\ task'[t].pc \in {"rb_read", "unlock"} /\ task'[t].total = 0
    <3>1. CASE read_offset < task[t].seen
      <4> DEFINE n == task[t].seen - read_offset
                 c == [task[t] EXCEPT !.pc = "rb_read", !.len = n]
      <4>1. n \in Nat
        BY <1>1, <3>1, Known
      <4>2. task' = [task EXCEPT ![t] = c]
        BY <1>7, <3>1 DEF DrainAgain
      <4> HIDE DEF n
      <4>3. c \in Calls /\ c.pc = "rb_read" /\ c.total = 0
        BY <1>1, <1>3, <2>1, <4>1 DEF Calls
      <4> HIDE DEF c
      <4> QED BY <1>1, <4>2, <4>3, Moves
    <3>2. CASE ~(read_offset < task[t].seen)
      <4>1. Goto(t, "unlock")
        BY <1>7, <3>2 DEF DrainAgain
      <4> QED BY <1>1, <2>1, <4>1, MovesOn
    <3> QED BY <3>1, <3>2
  <2>3. HoldsReadLock(t)' /\ HoldsLock(t)'
    BY <2>2 DEF HoldsReadLock, HoldsLock, Reading
  <2>4. InHand' = 0
    BY <1>1, <1>3, <2>1, <2>2 DEF InHand, Counted
  <2> QED BY <1>1, <1>3, <1>4, <1>5, <2>1, <2>2, <2>3, <2>4, OtherStep, Known
<1>8. CASE Drained(t)
  <2> DEFINE pc == IF task[t].total > 0 \/ task[t].total = RB_READER_UNBLOCK THEN "again" ELSE "unlock"
             c  == [task[t] EXCEPT !.total = 0, !.pc = pc]
  <2>1. task' = [task EXCEPT ![t] = c]
    BY <1>8 DEF Drained
  <2>2. pc \in {"again", "unlock"}
    OBVIOUS
  <2> HIDE DEF pc
  <2>3. c \in Calls /\ c.pc = pc /\ c.total = 0
    <3>1. pc \in Pcs /\ 0 \in Int
      BY <1>1, <2>2
    <3> QED BY <1>3, <3>1 DEF Calls
  <2> HIDE DEF c
  <2>4. Stay(t) /\ task'[t].pc \in {"again", "unlock"} /\ task'[t].total = 0
    BY <1>1, <2>1, <2>2, <2>3, Moves
  <2>5. /\ read_offset' = read_offset + InHand /\ lock' = lock /\ read_lock' = read_lock
        /\ task[t].pc = "drained"
    BY <1>3, <1>8 DEF Drained, At, locks
  <2>6. HoldsReadLock(t)' /\ HoldsLock(t)'
    BY <2>4 DEF HoldsReadLock, HoldsLock
  <2>7. InHand' = 0
    BY <1>1, <1>3, <2>4, <2>5 DEF InHand, Counted
  <2>8. read_offset' \in Nat /\ read_offset' + InHand' = read_offset + InHand
    BY <1>3, <2>5, <2>7, Known
  <2> QED BY <1>1, <1>3, <1>5, <2>4, <2>5, <2>6, <2>8, OtherStep
<1>9. CASE DrainUnlock(t)
  <2>1. /\ task' = [task EXCEPT ![t] = Idle] /\ lock' = "free" /\ read_lock' = "free"
        /\ read_offset' = read_offset /\ task[t].pc = "unlock"
    BY <1>9 DEF DrainUnlock, At
  <2>2. Stay(t) /\ task'[t].pc = "idle" /\ task'[t].total = 0
    BY <1>1, <2>1, Ends
  <2>3. ~HoldsReadLock(t)' /\ ~HoldsLock(t)'
    BY <2>2 DEF HoldsReadLock, HoldsLock, Reading
  <2>4. InHand' = 0
    BY <2>1 DEF InHand
  <2> QED BY <1>1, <1>3, <1>4, <1>5, <2>1, <2>2, <2>3, <2>4, OtherStep, Known
<1> QED BY <1>6, <1>7, <1>8, <1>9

\* srb_reset: what is read until it is done counts into nothing.
LEMMA ResetInv == ASSUME IInv, NEW t \in Resetters, ResetAbort(t) \/ ResetEmpty(t) PROVE IInv'
<1>1. /\ t \in Tasks /\ t # "free" /\ t \notin Readers /\ t \notin Drainers /\ TypeOK
      /\ {"idle", "reset"} \subseteq Pcs
      /\ read_lock \in Tasks \cup {"free"} /\ "free" \notin Tasks
  BY SrbAssumption DEF Tasks, Pcs, IInv, TypeOK
<1>2. task[t].pc \in {"idle", "reset"} /\ task[t].total = 0
  BY <1>1 DEF IInv, TotalFits, ResetAbort, ResetEmpty, At
<1>3. read_lock # t
  BY <1>1, <1>2 DEF IInv, LocksHeld, HoldsReadLock, Reading
<1>4. UNCHANGED <<list, read_lock, puts, fetched>> /\ rb \in [fill : 0..Size, unblock : BOOLEAN, abort : BOOLEAN, can_read : BOOLEAN]
  BY DEF ResetAbort, ResetEmpty, IInv, TypeOK
<1>5. \E pc \in {"idle", "reset"} : Goto(t, pc)
  BY DEF ResetAbort, ResetEmpty
<1>6. /\ Stay(t) /\ task'[t].pc \in {"idle", "reset"} /\ task'[t].total = 0
      /\ \A u \in Tasks : u # t => task'[u] = task[u]
  BY <1>1, <1>2, <1>5, MovesOn DEF Stay
<1>7. InHand' = InHand /\ InHand \in Nat
  <2>1. InHand' = InHand
    BY <1>1, <1>3, <1>4, <1>6 DEF InHand
  <2> QED BY <1>1, <2>1, Known DEF InHand, Counted
<1> HIDE DEF InHand
<1>8. PcsFit'
  BY <1>1, <1>6 DEF IInv, PcsFit, Tasks
<1>9. TotalFits'
  BY <1>6 DEF IInv, TotalFits
<1>10. Sorted'
  BY <1>4, SameList DEF IInv, TypeOK
<1>11. ~HoldsReadLock(t)' /\ (HoldsLock(t)' <=> task'[t].pc = "reset")
  BY <1>1, <1>6 DEF HoldsReadLock, HoldsLock, Reading
<1>12. CASE ResetAbort(t)
  <2>1. /\ lock = "free" /\ lock' = t /\ resets' = resets + 1 /\ rb' = [rb EXCEPT !.abort = TRUE, !.can_read = TRUE]
        /\ UNCHANGED <<read_offset, sent, taken>> /\ Goto(t, "reset")
    BY <1>12 DEF ResetAbort
  <2>2. /\ rb' \in [fill : 0..Size, unblock : BOOLEAN, abort : BOOLEAN, can_read : BOOLEAN]
        /\ rb'.fill = rb.fill
    BY <1>4, <2>1
  <2>3. TypeOK'
    BY <1>1, <1>4, <1>6, <1>10, <2>1, <2>2 DEF IInv, TypeOK, Stay, Calls
  <2>4. task'[t].pc = "reset"
    BY <1>1, <2>1, MovesOn
  <2>5. LocksHeld'
    BY <1>1, <1>3, <1>4, <1>6, <1>11, <2>1, <2>4, LocksMove DEF IInv
  <2>6. resets' \in Nat /\ resets' > 0 /\ resets' # 0
    BY <2>1, Known
  <2>7. ResetCounts'
    BY <2>1, <2>6 DEF ResetCounts
  <2>8. Accounted'
    BY <2>1, <2>2, <2>6 DEF IInv, Accounted
  <2>9. EndsAtAnchor'
    BY <1>1, <1>4, <1>6, <2>1, AnchorsStay
  <2>10. FetchedInTurn'
    BY <1>4, <2>6 DEF IInv, FetchedInTurn, NotFetchedEarly
  <2> QED BY <1>8, <1>9, <2>3, <2>5, <2>7, <2>8, <2>9, <2>10 DEF IInv
<1>13. CASE ResetEmpty(t)
  <2>1. /\ task[t].pc = "reset" /\ lock' = "free" /\ resets' = resets
        /\ rb' = [rb EXCEPT !.fill = 0, !.unblock = FALSE, !.abort = FALSE]
        /\ read_offset' = 0 /\ sent' = 0 /\ taken' = 0 /\ Goto(t, "idle")
    BY <1>13 DEF ResetEmpty, At
  <2>2. lock = t /\ resets > 0
    BY <1>1, <2>1 DEF IInv, LocksHeld, HoldsLock, ResetCounts
  <2>3. /\ rb' \in [fill : 0..Size, unblock : BOOLEAN, abort : BOOLEAN, can_read : BOOLEAN]
        /\ rb'.fill = 0 /\ ~rb'.abort
    <3>1. 0 \in 0..Size
      BY SrbAssumption
    <3> QED BY <1>4, <2>1, <3>1
  <2>4. TypeOK'
    BY <1>1, <1>4, <1>6, <1>10, <2>1, <2>3, SrbAssumption DEF IInv, TypeOK, Stay, Calls
  <2>5. task'[t].pc = "idle"
    BY <1>1, <2>1, MovesOn
  <2>6. LocksHeld'
    BY <1>1, <1>3, <1>4, <1>6, <1>11, <2>1, <2>2, <2>5, LocksMove DEF IInv
  <2>7. ResetCounts'
    BY <1>1, <2>1, <2>3 DEF IInv, ResetCounts, Tasks
  <2>8. Accounted'
    BY <1>7, <2>1, <2>2, <2>3, Known DEF Accounted
  <2>9. EndsAtAnchor'
    <3>1. \A u \in Readers : u \in Tasks /\ task'[u] = task[u]
      BY <1>1, <1>6 DEF Tasks
    <3>2. ASSUME NEW u \in Readers, task[u].pc \in Reading \cup {"count"},
                 NEW i \in 1..Len(list), list[i].id <= task[u].seen
          PROVE  taken' + task[u].len <= list[i].offset
      <4>1. taken + task[u].len <= list[i].offset
        BY <3>2 DEF IInv, EndsAtAnchor
      <4>2. taken \in Nat /\ task[u].len \in Nat /\ list[i].offset \in Nat
        BY <3>1, Known
      <4> QED BY <2>1, <4>1, <4>2
    <3> QED BY <1>4, <3>1, <3>2 DEF IInv, EndsAtAnchor
  <2>10. FetchedInTurn'
    BY <1>4, <2>1 DEF IInv, FetchedInTurn, NotFetchedEarly
  <2> QED BY <1>8, <1>9, <2>4, <2>6, <2>7, <2>8, <2>9, <2>10 DEF IInv
<1> QED BY <1>12, <1>13

\* IInv is an invariant: whatever the tasks do in whatever order, with anchors put
\* anywhere and the buffer reset at any time.
THEOREM Invariance == Spec => []IInv
<1>1. IInv /\ [Next]_vars => IInv'
  <2> SUFFICES ASSUME IInv, [Next]_vars PROVE IInv'
    OBVIOUS
  <2>1. CASE \E n \in 1..Size : Write(n)
    BY <2>1, WriteInv
  <2>2. ASSUME NEW t \in Readers, (\E n \in Lens : ReadCall(t, n)) \/ ReadStep(t) PROVE IInv'
    BY <2>2, ReadCallInv, ReadDecideInv, ReadCountInv, GetAnchorInv DEF ReadStep
  <2>3. ASSUME NEW t \in Readers \cup Drainers, RbStep(t) PROVE IInv'
    BY <2>3, RbQuietInv, RbTakeInv DEF RbStep, RbWork
  <2>4. CASE \E offset \in 0..MaxSent : PutAnchor(offset)
    <3>1. PICK offset \in 0..MaxSent : PutAnchor(offset)
      BY <2>4
    <3>2. offset \in Nat
      BY SrbAssumption
    <3> QED BY <3>1, <3>2, PutAnchorInv
  <2>5. CASE PutAnchorAtCurrent
    <3>1. read_offset + rb.fill \in Nat
      BY Known
    <3> QED BY <2>5, <3>1, PutAnchorInv DEF PutAnchorAtCurrent
  <2>6. ASSUME NEW t \in Drainers, (\E upto \in 1..MaxSent : DrainCall(t, upto)) \/ DrainStep(t) PROVE IInv'
    BY <2>6, DrainCallInv, DrainInv DEF DrainStep
  <2>7. ASSUME NEW t \in Resetters, ResetAbort(t) \/ ResetEmpty(t) PROVE IInv'
    BY <2>7, ResetInv
  <2>8. CASE UNCHANGED vars
    <3>1. UNCHANGED <<rb, read_offset, list, lock, read_lock, task, sent, taken, puts, fetched, resets>>
      BY <2>8 DEF vars, locks, history
    <3> QED BY <3>1 DEF IInv, TypeOK, Sorted, PcsFit, LocksHeld, HoldsReadLock, HoldsLock, ResetCounts,
                        TotalFits, Accounted, InHand, EndsAtAnchor, FetchedInTurn, NotFetchedEarly
  <2> QED BY <2>1, <2>2, <2>3, <2>4, <2>5, <2>6, <2>7, <2>8 DEF Next
<1> QED BY <1>1, InitInv, PTL DEF Spec

\* The anchors lie in order, a read stops at them, and none is fetched early.
THEOREM AnchorsTheorem == Spec => []AnchorsInTurn
<1>1. IInv => AnchorsInTurn
  <2> SUFFICES ASSUME IInv PROVE AnchorsInTurn
    OBVIOUS
  <2>1. StopsAtAnchor
    <3> SUFFICES ASSUME NEW t \in Readers, task[t].pc \in {"take", "sleep", "flags", "out", "count"},
                        NEW i \in 1..Len(list), list[i].id <= task[t].seen
                 PROVE  taken <= list[i].offset
      BY DEF StopsAtAnchor
    <3>1. taken + task[t].len <= list[i].offset
      BY DEF IInv, EndsAtAnchor, Reading
    <3>2. t \in Tasks /\ task[t].len \in Nat /\ taken \in Nat /\ list[i].offset \in Nat
      BY Known DEF Tasks
    <3> QED BY <3>1, <3>2
  <2> QED BY <2>1 DEF IInv, FetchedInTurn, AnchorsInTurn
<1> QED BY <1>1, Invariance, PTL

\* read_offset is what has been read, whenever no read is under way and nobody has reset.
THEOREM OffsetTheorem == Spec => []OffsetIsRead
<1>1. IInv => OffsetIsRead
  BY Known DEF IInv, Accounted, InHand, OffsetIsRead
<1> QED BY <1>1, Invariance, PTL
=============================================================================
