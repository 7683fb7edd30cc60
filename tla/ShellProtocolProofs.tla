------------------------ MODULE ShellProtocolProofs ------------------------
(***************************************************************************)
(* What the operations of process::SizedQueue do to the sequence that a    *)
(* ring stands for, for every SIZE and every set of elements; and the      *)
(* request protocol, correct for every ring size, every number of          *)
(* processes that the ring can hold and every set of answers.              *)
(***************************************************************************)
EXTENDS ShellProtocol, FiniteSetTheorems, TLAPS

-----------------------------------------------------------------------------
(* Rings.                                                                   *)

USE SizeAssumption

\* The arithmetic of a cursor of SizedQueue::push and SizedQueue::pop: SIZE steps
\* from a slot meet every slot once and come back.
LEMMA Cursor ==
  ASSUME NEW b \in Slots, NEW i \in Slots
  PROVE  /\ Wrap(b + 0) = b /\ Wrap(b + SIZE) = b /\ 0 \in Slots
         /\ Wrap(b + i) \in Slots
         /\ Advance(b) \in Slots
         /\ Advance(Wrap(b + i)) = Wrap(b + (i + 1))
         /\ Wrap(Advance(b) + i) = Wrap(b + (i + 1))
         /\ i # 0 => Wrap(b + i) # b
BY DEF Slots, Wrap, Advance

\* Different distances from a cursor are different slots.
LEMMA WrapInjective ==
  ASSUME NEW b \in Slots, NEW i \in Slots, NEW j \in Slots, i # j
  PROVE  Wrap(b + i) # Wrap(b + j)
BY DEF Slots, Wrap

\* The two cursors and the slot under them determine how many elements a ring
\* holds: SizedQueue stores no length.
LEMMA CountIs ==
  ASSUME NEW q, NEW b \in Slots, q.pop_cursor = b, NEW n \in 0 .. SIZE,
         q.push_cursor = Wrap(b + n),
         n = 0 => Front(q) = None, n = SIZE => Front(q) # None
  PROVE  Count(q) = n
<1>1. PICK a : a = Wrap(b + n)
  OBVIOUS
<1>2. Count(q) = IF a > b THEN a - b
                 ELSE IF a < b THEN SIZE - b + a ELSE IF Front(q) = None THEN 0 ELSE SIZE
  BY <1>1 DEF Count
<1>. QED BY <1>1, <1>2 DEF Slots, Wrap

\* The converse: where push_cursor is.
LEMMA PushCursor ==
  ASSUME NEW q, NEW a \in Slots, NEW b \in Slots, q.push_cursor = a, q.pop_cursor = b
  PROVE  Count(q) \in 0 .. SIZE /\ a = Wrap(b + Count(q))
<1>1. Count(q) = IF a > b THEN a - b
                 ELSE IF a < b THEN SIZE - b + a ELSE IF Front(q) = None THEN 0 ELSE SIZE
  BY DEF Count
<1>. QED BY <1>1 DEF Slots, Wrap

\* SizedQueue::new is an empty ring.
LEMMA NewIsEmpty ==
  ASSUME NEW Element
  PROVE  NewQueue \in Queues(Element) /\ Count(NewQueue) = 0
<1>1. Count(NewQueue) = 0
  BY DEF Count, NewQueue, Front, Slots
<1>2. ASSUME NEW i \in Slots PROVE NewQueue.inner[Wrap(NewQueue.pop_cursor + i)] = None
  <2>1. 0 \in Slots /\ NewQueue.pop_cursor = 0 /\ Wrap(0 + i) \in Slots
    BY Cursor DEF NewQueue, Slots, Wrap
  <2>. QED BY <2>1 DEF NewQueue
<1>3. \A i \in Slots : ~(i < 0)
  BY DEF Slots
<1>4. NewQueue \in [inner : [Slots -> Element \cup {None}], push_cursor : Slots, pop_cursor : Slots]
  BY DEF NewQueue, Slots
<1>. QED BY <1>1, <1>2, <1>3, <1>4 DEF Queues

\* SizedQueue::pop returns None exactly on an empty ring, and the oldest element
\* otherwise; the slot that SizedQueue::push writes is free unless the ring is
\* full.
LEMMA RingEnds ==
  ASSUME NEW Element, None \notin Element, NEW q \in Queues(Element)
  PROVE  /\ Count(q) \in 0 .. SIZE
         /\ Front(q) = None <=> Count(q) = 0
         /\ Count(q) > 0 => Front(q) = Contents(q)[1] /\ Front(q) \in Element
         /\ Count(q) < SIZE => q.inner[q.push_cursor] = None
<1>1. PICK a \in Slots, b \in Slots : q.push_cursor = a /\ q.pop_cursor = b
  BY DEF Queues
<1>2. /\ q.inner \in [Slots -> Element \cup {None}]
      /\ \A i \in Slots : q.inner[Wrap(b + i)] # None <=> i < Count(q)
  BY <1>1 DEF Queues
<1>3. Count(q) \in 0 .. SIZE /\ a = Wrap(b + Count(q))
  BY <1>1, PushCursor
<1>4. 0 \in Slots /\ Wrap(b + 0) = b
  BY Cursor
<1>5. Front(q) # None <=> 0 < Count(q)
  BY <1>1, <1>2, <1>4 DEF Front
<1>6. ASSUME Count(q) > 0 PROVE Front(q) = Contents(q)[1] /\ Front(q) \in Element
  <2>1. 1 \in 1 .. Count(q) /\ b + 1 - 1 = b + 0
    BY <1>3, <1>6 DEF Slots
  <2>2. Contents(q)[1] = q.inner[Wrap(b + 1 - 1)]
    BY <2>1, <1>1 DEF Contents
  <2>. QED BY <2>1, <2>2, <1>1, <1>2, <1>4, <1>5, <1>6 DEF Front
<1>7. ASSUME Count(q) < SIZE PROVE q.inner[q.push_cursor] = None
  <2>1. Count(q) \in Slots /\ ~(Count(q) < Count(q))
    BY <1>3, <1>7 DEF Slots
  <2>. QED BY <2>1, <1>1, <1>2, <1>3
<1>8. Front(q) = None <=> Count(q) = 0
  BY <1>3, <1>5
<1>. QED BY <1>3, <1>6, <1>7, <1>8

\* SizedQueue::push on a ring that is not full appends: it keeps the elements
\* that are there, in their places, and puts the new one behind them.
LEMMA PushAppends ==
  ASSUME NEW Element, None \notin Element, NEW q \in Queues(Element),
         NEW e \in Element, Count(q) < SIZE
  PROVE  /\ Push(q, e) \in Queues(Element)
         /\ Count(Push(q, e)) = Count(q) + 1
         /\ \A i \in 1 .. Count(q) : Contents(Push(q, e))[i] = Contents(q)[i]
         /\ Contents(Push(q, e))[Count(q) + 1] = e
<1>. DEFINE r == Push(q, e)
<1>1. PICK a \in Slots, b \in Slots : q.push_cursor = a /\ q.pop_cursor = b
  BY DEF Queues
<1>2. /\ q.inner \in [Slots -> Element \cup {None}]
      /\ \A i \in Slots : q.inner[Wrap(b + i)] # None <=> i < Count(q)
  BY <1>1 DEF Queues
<1>3. PICK n \in Slots : Count(q) = n
  BY RingEnds DEF Slots
<1>4. a = Wrap(b + n)
  BY <1>1, <1>3, PushCursor
<1>4a. Advance(a) = Wrap(b + (n + 1))
  <2>1. Advance(Wrap(b + n)) = Wrap(b + (n + 1))
    BY <1>1, <1>3, Cursor
  <2>. QED BY <2>1, <1>4, Zenon
<1>5. r = [inner       |-> [q.inner EXCEPT ![a] = e],
           push_cursor |-> Wrap(b + (n + 1)),
           pop_cursor  |-> b]
  BY <1>1, <1>4a DEF Push
<1>6. Wrap(b + (n + 1)) \in Slots
  BY <1>4, Cursor
<1>7. r \in [inner : [Slots -> Element \cup {None}], push_cursor : Slots, pop_cursor : Slots]
  BY <1>2, <1>5, <1>6
<1>8. /\ r.inner = [q.inner EXCEPT ![a] = e]
      /\ r.push_cursor = Wrap(b + (n + 1))
      /\ r.pop_cursor = b
  BY <1>5
<1>. HIDE DEF r
<1>9. r.inner[a] = e
  BY <1>2, <1>8
<1>10. \A i \in Slots : i # n => r.inner[Wrap(b + i)] = q.inner[Wrap(b + i)]
  <2>. SUFFICES ASSUME NEW i \in Slots, i # n
                PROVE  r.inner[Wrap(b + i)] = q.inner[Wrap(b + i)]
    OBVIOUS
  <2>0. Wrap(b + i) # Wrap(b + n)
    BY WrapInjective
  <2>1. Wrap(b + i) \in Slots /\ Wrap(b + i) # a
    BY <1>4, <2>0, Cursor, Zenon
  <2>. QED BY <2>1, <1>2, <1>8
<1>11. n + 1 \in 1 .. SIZE /\ n \in Nat
  BY DEF Slots
<1>12. Count(r) = n + 1
  <2>1. ASSUME n + 1 = SIZE PROVE Front(r) # None
    <3>1. 0 \in Slots /\ Wrap(b + 0) = b
      BY Cursor
    <3>2. CASE n = 0
      BY <3>1, <3>2, <1>4, <1>8, <1>9 DEF Front
    <3>3. CASE n # 0
      <4>1. 0 < n
        BY <3>3, <1>11
      <4>2. q.inner[Wrap(b + 0)] # None
        BY <4>1, <3>1, <1>2, <1>3
      <4>. QED BY <4>2, <3>1, <3>3, <1>8, <1>10 DEF Front
    <3>. QED BY <3>2, <3>3
  <2>2. n + 1 \in 0 .. SIZE /\ n + 1 # 0
    BY <1>11
  <2>. QED BY <2>1, <2>2, <1>8, CountIs
<1>13. ASSUME NEW i \in Slots
       PROVE  r.inner[Wrap(r.pop_cursor + i)] # None <=> i < Count(r)
  <2>1. CASE i = n
    <3>1. n < n + 1
      BY <1>11
    <3>. QED BY <3>1, <2>1, <1>4, <1>8, <1>9, <1>12
  <2>2. CASE i # n
    <3>1. i < n <=> i < n + 1
      BY <2>2, <1>11 DEF Slots
    <3>. QED BY <3>1, <2>2, <1>2, <1>3, <1>8, <1>10, <1>12
  <2>. QED BY <2>1, <2>2
<1>14. r \in Queues(Element)
  BY <1>7, <1>13 DEF Queues
<1>15. ASSUME NEW i \in 1 .. n PROVE Contents(r)[i] = Contents(q)[i]
  <2>1. i - 1 \in Slots /\ i - 1 # n /\ b + i - 1 = b + (i - 1) /\ i \in 1 .. n + 1
    BY <1>11 DEF Slots
  <2>2. r.inner[Wrap(b + i - 1)] = q.inner[Wrap(b + i - 1)]
    BY <2>1, <1>10
  <2>. QED BY <2>1, <2>2, <1>1, <1>3, <1>8, <1>12 DEF Contents
<1>16. Contents(r)[n + 1] = e
  <2>1. n + 1 \in 1 .. n + 1 /\ b + (n + 1) - 1 = b + n
    BY <1>11 DEF Slots
  <2>. QED BY <2>1, <1>4, <1>8, <1>9, <1>12 DEF Contents
<1>. QED BY <1>3, <1>12, <1>14, <1>15, <1>16 DEF r

\* SizedQueue::pop on a ring that is not empty removes the oldest element and
\* moves every other one up by one place.
LEMMA PopRemovesOldest ==
  ASSUME NEW Element, None \notin Element, NEW q \in Queues(Element),
         Front(q) # None
  PROVE  /\ Pop(q) \in Queues(Element)
         /\ Count(Pop(q)) = Count(q) - 1
         /\ \A i \in 1 .. Count(q) - 1 : Contents(Pop(q))[i] = Contents(q)[i + 1]
<1>. DEFINE r == Pop(q)
<1>1. PICK a \in Slots, b \in Slots : q.push_cursor = a /\ q.pop_cursor = b
  BY DEF Queues
<1>2. /\ q.inner \in [Slots -> Element \cup {None}]
      /\ \A i \in Slots : q.inner[Wrap(b + i)] # None <=> i < Count(q)
  BY <1>1 DEF Queues
<1>3. PICK n \in Slots : Count(q) = n + 1
  <2>1. Count(q) \in 1 .. SIZE
    BY RingEnds
  <2>2. Count(q) - 1 \in Slots /\ Count(q) = (Count(q) - 1) + 1
    BY <2>1 DEF Slots
  <2>. QED BY <2>2
<1>4. PICK c \in Slots : c = Advance(b)
  BY Cursor
<1>5. a = Wrap(b + (n + 1)) /\ a = Wrap(c + n)
  <2>1. a = Wrap(b + Count(q))
    BY <1>1, PushCursor
  <2>2. Wrap(c + n) = Wrap(b + (n + 1))
    BY <1>4, Cursor
  <2>. QED BY <2>1, <2>2, <1>3
<1>6. r = [inner |-> [q.inner EXCEPT ![b] = None], push_cursor |-> a, pop_cursor |-> c]
  BY <1>1, <1>4 DEF Pop
<1>7. r \in [inner : [Slots -> Element \cup {None}], push_cursor : Slots, pop_cursor : Slots]
  BY <1>2, <1>6
<1>8. r.inner = [q.inner EXCEPT ![b] = None] /\ r.push_cursor = a /\ r.pop_cursor = c
  BY <1>6
<1>. HIDE DEF r
<1>9. \A i \in Slots : r.inner[Wrap(c + i)] =
                         IF i + 1 = SIZE THEN None ELSE q.inner[Wrap(b + (i + 1))]
  <2>. SUFFICES ASSUME NEW i \in Slots
                PROVE  r.inner[Wrap(c + i)] =
                         IF i + 1 = SIZE THEN None ELSE q.inner[Wrap(b + (i + 1))]
    OBVIOUS
  <2>1. Wrap(c + i) \in Slots /\ Wrap(c + i) = Wrap(b + (i + 1)) /\ Wrap(b + SIZE) = b
    BY <1>4, Cursor
  <2>2. CASE i + 1 = SIZE
    BY <2>1, <2>2, <1>2, <1>8
  <2>3. CASE i + 1 # SIZE
    <3>1. i + 1 \in Slots /\ i + 1 # 0
      BY <2>3 DEF Slots
    <3>2. Wrap(b + (i + 1)) # b
      BY <3>1, Cursor, Zenon
    <3>. QED BY <3>2, <2>1, <2>3, <1>2, <1>8
  <2>. QED BY <2>2, <2>3
<1>10. n \in 0 .. SIZE - 1 /\ SIZE \in Nat
  BY DEF Slots
<1>11. Count(r) = n
  <2>1. ASSUME n = 0 PROVE Front(r) = None
    <3>1. 0 \in Slots /\ Wrap(c + 0) = c /\ 0 + 1 = 1
      BY Cursor
    <3>2. 1 # SIZE => 1 \in Slots /\ ~(1 < n + 1)
      BY <2>1, <1>10 DEF Slots
    <3>. QED BY <3>1, <3>2, <1>2, <1>3, <1>8, <1>9 DEF Front
  <2>2. n \in 0 .. SIZE /\ n # SIZE
    BY <1>10
  <2>. QED BY <2>1, <2>2, <1>5, <1>8, CountIs, Zenon
<1>12. ASSUME NEW i \in Slots
       PROVE  r.inner[Wrap(r.pop_cursor + i)] # None <=> i < Count(r)
  <2>1. CASE i + 1 = SIZE
    <3>1. ~(i < n)
      BY <2>1, <1>10 DEF Slots
    <3>. QED BY <3>1, <2>1, <1>8, <1>9, <1>11
  <2>2. CASE i + 1 # SIZE
    <3>1. i + 1 \in Slots /\ (i + 1 < n + 1 <=> i < n)
      BY <2>2, <1>10 DEF Slots
    <3>. QED BY <3>1, <2>2, <1>2, <1>3, <1>8, <1>9, <1>11
  <2>. QED BY <2>1, <2>2
<1>13. r \in Queues(Element)
  BY <1>7, <1>12 DEF Queues
<1>14. ASSUME NEW i \in 1 .. n PROVE Contents(r)[i] = Contents(q)[i + 1]
  <2>1. /\ i - 1 \in Slots /\ (i - 1) + 1 # SIZE /\ (i - 1) + 1 = i
        /\ c + i - 1 = c + (i - 1) /\ b + (i + 1) - 1 = b + i
        /\ i + 1 \in 1 .. n + 1
    BY <1>10 DEF Slots
  <2>2. r.inner[Wrap(c + i - 1)] = q.inner[Wrap(b + (i + 1) - 1)]
    BY <2>1, <1>9
  <2>. QED BY <2>1, <2>2, <1>1, <1>3, <1>8, <1>11 DEF Contents
<1>15. Count(q) - 1 = n
  BY <1>3, <1>10
<1>. QED BY <1>11, <1>13, <1>14, <1>15 DEF r

\* Every occupied slot of a ring holds one of the elements it stands for.
LEMMA SlotInContents ==
  ASSUME NEW Element, NEW q \in Queues(Element), NEW i \in Slots, q.inner[i] # None
  PROVE  \E j \in 1 .. Count(q) : Contents(q)[j] = q.inner[i]
<1>1. PICK a \in Slots, b \in Slots : q.push_cursor = a /\ q.pop_cursor = b
  BY DEF Queues
<1>2. \A k \in Slots : q.inner[Wrap(b + k)] # None <=> k < Count(q)
  BY <1>1 DEF Queues
<1>3. Count(q) \in 0 .. SIZE
  BY <1>1, PushCursor
<1>4. PICK k \in Slots : Wrap(b + k) = i
  <2>1. CASE i >= b
    <3>1. i - b \in Slots /\ Wrap(b + (i - b)) = i
      BY <2>1 DEF Slots, Wrap
    <3>. QED BY <3>1
  <2>2. CASE i < b
    <3>1. i - b + SIZE \in Slots /\ Wrap(b + (i - b + SIZE)) = i
      BY <2>2 DEF Slots, Wrap
    <3>. QED BY <3>1
  <2>. QED BY <2>1, <2>2 DEF Slots
<1>5. k < Count(q)
  BY <1>2, <1>4
<1>6. k + 1 \in 1 .. Count(q) /\ b + (k + 1) - 1 = b + k
  BY <1>3, <1>5 DEF Slots
<1>7. Contents(q)[k + 1] = q.inner[i]
  BY <1>1, <1>4, <1>6 DEF Contents
<1>. QED BY <1>6, <1>7
-----------------------------------------------------------------------------
(* The protocol.                                                            *)

\* The cardinality of a set with an element more or less.
LEMMA OneLess ==
  ASSUME NEW S, IsFiniteSet(S), NEW x \in S
  PROVE  Cardinality(S \ {x}) = Cardinality(S) - 1
BY FS_RemoveElement, Zenon

\* The other way round.
LEMMA OneMore ==
  ASSUME NEW S, IsFiniteSet(S), NEW x, x \notin S
  PROVE  Cardinality(S \cup {x}) = Cardinality(S) + 1
BY FS_AddElement, Zenon

USE CapacityAssumption, NoneAssumption

\* The facts about the numbers of a state that the steps below use: the processes
\* that could fill a ring are too few.
LEMMA Numbers ==
  ASSUME ProtocolInv
  PROVE  /\ IsFiniteSet(ready) /\ Cardinality(ready) \in Nat
         /\ Len(blocked) \in Nat /\ Count(input) \in 0 .. SIZE /\ Count(output) \in 0 .. SIZE
         /\ next_id \in Nat /\ unsent \in 0 .. NumApps
         /\ StartsQueued \in 0 .. Count(output)
         /\ AnswersQueued \in 0 .. Count(output)
         /\ Count(output) = StartsQueued + AnswersQueued
         /\ ready # {} => Count(input) < SIZE
         /\ unsent > 0 \/ hand # None => Count(output) < SIZE
<1>1. Count(input) \in 0 .. SIZE /\ Count(output) \in 0 .. SIZE
  BY RingEnds DEF ProtocolInv, TypeOK
<1>2. IsFiniteSet(ready) /\ Cardinality(ready) \in Nat
  <2>1. IsFiniteSet(AppIds)
    BY FS_Interval DEF AppIds, ShellId
  <2>. QED BY <2>1, FS_Subset, FS_CardinalityType DEF ProtocolInv, TypeOK
<1>3. /\ Len(blocked) \in Nat /\ next_id \in 2 .. 2 + NumApps /\ unsent \in 0 .. NumApps
  BY DEF ProtocolInv, TypeOK, ShellId
<1>4. StartsQueued = (NumApps - unsent) - (next_id - 2) /\ InHand \in 0 .. 1
  BY DEF StartsQueued, ShellId, InHand
<1>5. /\ StartsQueued \in 0 .. Count(output)
      /\ Len(blocked) = AnswersQueued + InHand + Count(input)
      /\ AnswersQueued = Count(output) - StartsQueued
      /\ Len(blocked) + Cardinality(ready) <= next_id - 2
  BY DEF ProtocolInv, RequestOrder, AnswersQueued, Population, ShellId
<1>6. AnswersQueued \in 0 .. Count(output) /\ Count(output) = StartsQueued + AnswersQueued
  BY <1>1, <1>5
<1>7. /\ Cardinality(ready) # 0 => Count(input) < SIZE
      /\ unsent > 0 \/ InHand = 1 => StartsQueued + AnswersQueued < SIZE
  <2>1. /\ Count(input) \in Nat /\ StartsQueued \in Nat /\ AnswersQueued \in Nat
        /\ InHand \in Nat /\ Len(blocked) \in Nat /\ Cardinality(ready) \in Nat
        /\ unsent \in Nat /\ next_id \in Nat
    BY <1>1, <1>2, <1>3, <1>4, <1>5, <1>6
  <2>2. PICK in \in Nat, starts \in Nat, answers \in Nat, h \in Nat,
             len \in Nat, card \in Nat, u \in Nat, id \in Nat :
          /\ in = Count(input) /\ starts = StartsQueued /\ answers = AnswersQueued
          /\ h = InHand /\ len = Len(blocked) /\ card = Cardinality(ready)
          /\ u = unsent /\ id = next_id
    BY <2>1, Zenon
  <2>3. starts = (NumApps - u) - (id - 2) /\ len = answers + h + in /\ len + card <= id - 2
    BY <2>2, <1>4, <1>5
  <2>4. (card # 0 => in < SIZE) /\ (u > 0 \/ h = 1 => starts + answers < SIZE)
    BY <2>3
  <2>. QED BY <2>2, <2>4
<1>8. ASSUME ready # {} PROVE Count(input) < SIZE
  <2>1. Cardinality(ready) # 0
    BY <1>2, <1>8, FS_EmptySet
  <2>. QED BY <2>1, <1>7
<1>9. ASSUME unsent > 0 \/ hand # None PROVE Count(output) < SIZE
  <2>1. hand # None => InHand = 1
    BY DEF InHand
  <2>. QED BY <2>1, <1>6, <1>7, <1>9
<1>. QED BY <1>1, <1>2, <1>3, <1>5, <1>6, <1>8, <1>9

\* The states in which main leaves the two rings satisfy the invariant.
LEMMA InitProtocolInv == Init => ProtocolInv
<1>. SUFFICES ASSUME Init PROVE ProtocolInv
  OBVIOUS
<1>1. \A Element : NewQueue \in Queues(Element) /\ Count(NewQueue) = 0
  BY NewIsEmpty
<1>2. Count(NewQueue) = 0
  BY <1>1
<1>3. TypeOK
  BY <1>1 DEF Init, TypeOK, ShellId
<1>4. StartsQueued = 0 /\ AnswersQueued = 0 /\ InHand = 0 /\ Count(input) = 0 /\ Count(output) = 0
  BY <1>2 DEF Init, StartsQueued, AnswersQueued, InHand, ShellId
<1>5. RequestOrder
  BY <1>4 DEF RequestOrder, Init
<1>6. Population /\ OnePlace
  BY FS_EmptySet DEF Population, OnePlace, Init, ShellId
<1>. QED BY <1>3, <1>5, <1>6 DEF ProtocolInv

\* QUEUE.output.lock().push(StartProcess): the message goes behind the ones that
\* are there, and no answer is.
LEMMA SendStartInv == ASSUME ProtocolInv, SendStart PROVE ProtocolInv'
<1>. USE DEF ProtocolInv
<1>1. Count(output) < SIZE /\ StartProcess \in Messages
  BY Numbers DEF SendStart, StartProcess, Messages
<1>2. /\ output' \in Queues(Messages)
      /\ Count(output') = Count(output) + 1
      /\ \A i \in 1 .. Count(output) : Contents(output')[i] = Contents(output)[i]
      /\ Contents(output')[Count(output) + 1] = StartProcess
  BY <1>1, PushAppends DEF SendStart, TypeOK
<1>3. TypeOK' /\ OnePlace' /\ Population'
  BY <1>2 DEF SendStart, TypeOK, OnePlace, Population
<1>4. /\ StartsQueued' = StartsQueued + 1 /\ InHand' = InHand
      /\ AnswersQueued = 0 /\ AnswersQueued' = 0
  <2>1. /\ unsent' = unsent - 1 /\ unsent \in 0 .. NumApps /\ next_id \in Nat
        /\ next_id' = next_id /\ hand' = hand
    BY Numbers DEF SendStart
  <2>2. StartsQueued' = StartsQueued + 1 /\ InHand' = InHand
    BY <2>1 DEF StartsQueued, ShellId, InHand
  <2>3. AnswersQueued' = Count(output') - StartsQueued' /\ AnswersQueued = 0
    BY DEF AnswersQueued, RequestOrder, SendStart
  <2>. QED BY <2>2, <2>3, <1>2, Numbers
<1>5. /\ StartsQueued \in Nat /\ Count(output) = StartsQueued /\ Count(output') = StartsQueued'
      /\ StartsQueued' \in 0 .. Count(output')
  BY <1>2, <1>4, Numbers
<1>6. \A i \in 1 .. StartsQueued' : Contents(output')[i].kind = "StartProcess"
  BY <1>2, <1>4, <1>5 DEF RequestOrder, StartProcess
<1>7. RequestOrder'
  BY <1>4, <1>5, <1>6 DEF SendStart, RequestOrder
<1>. QED BY <1>3, <1>7

\* The shell's pop: the oldest request moves from `input` to the shell's hand.
LEMMA TakeRequestInv == ASSUME ProtocolInv, TakeRequest PROVE ProtocolInv'
<1>. USE DEF ProtocolInv
<1>1. /\ input' \in Queues(AppIds) /\ Count(input') = Count(input) - 1
      /\ \A i \in 1 .. Count(input) - 1 : Contents(input')[i] = Contents(input)[i + 1]
  BY PopRemovesOldest DEF TakeRequest, TypeOK
<1>2. /\ Count(input) \in Nat /\ Count(input) > 0
      /\ hand' = Contents(input)[1] /\ hand' \in AppIds
  BY RingEnds DEF TakeRequest, TypeOK
<1>3. TypeOK' /\ OnePlace' /\ Population'
  BY <1>1, <1>2 DEF TakeRequest, TypeOK, OnePlace, Population
<1>4. /\ StartsQueued' = StartsQueued /\ AnswersQueued' = AnswersQueued
      /\ Count(output') = Count(output) /\ blocked' = blocked /\ output' = output
      /\ InHand = 0 /\ InHand' = 1 /\ hand' # None /\ unsent' = 0
  BY <1>2 DEF TakeRequest, StartsQueued, AnswersQueued, InHand
<1>5. AnswersQueued \in Nat /\ Len(blocked) = AnswersQueued + InHand + Count(input)
  BY Numbers DEF RequestOrder
<1>6. Len(blocked') = AnswersQueued' + InHand' + Count(input')
  BY <1>1, <1>2, <1>4, <1>5
<1>7. \A i \in 1 .. Count(input) : Contents(input)[i] = blocked[AnswersQueued + i]
  BY <1>2, <1>4, <1>5 DEF RequestOrder
<1>8. blocked'[AnswersQueued' + 1] = hand'
  <2>1. 1 \in 1 .. Count(input)
    BY <1>2
  <2>. QED BY <2>1, <1>2, <1>4, <1>7
<1>9. ASSUME NEW i \in 1 .. Count(input')
      PROVE  Contents(input')[i] = blocked'[AnswersQueued' + InHand' + i]
  <2>1. /\ i \in 1 .. Count(input) - 1 /\ i + 1 \in 1 .. Count(input)
        /\ AnswersQueued + (i + 1) = AnswersQueued + 1 + i
    BY <1>1, <1>2, <1>5
  <2>. QED BY <2>1, <1>1, <1>4, <1>7
<1>10. RequestOrder'
  BY <1>4, <1>6, <1>8, <1>9 DEF RequestOrder
<1>. QED BY <1>3, <1>10

\* The shell's push: the request in hand becomes the youngest answer.
LEMMA SendAnswerInv == ASSUME ProtocolInv, SendAnswer PROVE ProtocolInv'
<1>. USE DEF ProtocolInv
<1>1. PICK kind \in Answers : output' = Push(output, Answer(kind, hand))
  BY DEF SendAnswer
<1>2. /\ Count(output) < SIZE /\ Answer(kind, hand) \in Messages
      /\ kind # "StartProcess" /\ Answer(kind, hand).kind = kind
      /\ Answer(kind, hand).process_id = hand
  BY Numbers, AnswersAssumption DEF SendAnswer, Answer, Messages, TypeOK
<1>3. /\ output' \in Queues(Messages)
      /\ Count(output') = Count(output) + 1
      /\ \A i \in 1 .. Count(output) : Contents(output')[i] = Contents(output)[i]
      /\ Contents(output')[Count(output) + 1] = Answer(kind, hand)
  BY <1>1, <1>2, PushAppends DEF TypeOK
<1>4. TypeOK' /\ OnePlace' /\ Population'
  BY <1>3 DEF SendAnswer, TypeOK, OnePlace, Population
<1>5. /\ StartsQueued' = StartsQueued /\ InHand = 1 /\ InHand' = 0 /\ hand' = None
      /\ blocked' = blocked /\ input' = input /\ unsent' = unsent /\ hand # None
  BY DEF SendAnswer, StartsQueued, InHand
<1>6. /\ StartsQueued \in Nat /\ AnswersQueued \in Nat /\ Count(input) \in Nat
      /\ Count(output) = StartsQueued + AnswersQueued
  BY Numbers
<1>7. AnswersQueued' = AnswersQueued + 1 /\ StartsQueued' \in 0 .. Count(output')
  BY <1>3, <1>5, <1>6 DEF AnswersQueued
<1>8. ~(unsent > 0) /\ Len(blocked') = AnswersQueued' + InHand' + Count(input')
  BY <1>5, <1>6, <1>7 DEF RequestOrder
<1>9. \A i \in 1 .. StartsQueued' : Contents(output')[i].kind = "StartProcess"
  BY <1>3, <1>5, <1>6 DEF RequestOrder
<1>10. ASSUME NEW i \in 1 .. AnswersQueued'
       PROVE  /\ Contents(output')[StartsQueued' + i].kind # "StartProcess"
              /\ Contents(output')[StartsQueued' + i].process_id = blocked'[i]
  <2>1. CASE i \in 1 .. AnswersQueued
    <3>1. StartsQueued + i \in 1 .. Count(output)
      BY <2>1, <1>6
    <3>. QED BY <3>1, <2>1, <1>3, <1>5 DEF RequestOrder
  <2>2. CASE i = AnswersQueued + 1
    <3>1. StartsQueued + i = Count(output) + 1
      BY <2>2, <1>6
    <3>2. blocked[i] = hand
      BY <2>2, <1>5 DEF RequestOrder
    <3>. QED BY <3>1, <3>2, <1>2, <1>3, <1>5
  <2>. QED BY <2>1, <2>2, <1>6, <1>7
<1>11. ASSUME NEW i \in 1 .. Count(input')
       PROVE  Contents(input')[i] = blocked'[AnswersQueued' + InHand' + i]
  <2>1. i \in Nat /\ AnswersQueued + 1 + 0 + i = AnswersQueued + 1 + i
    BY <1>5, <1>6
  <2>2. Contents(input)[i] = blocked[AnswersQueued + 1 + i]
    BY <1>5 DEF RequestOrder
  <2>. QED BY <2>1, <2>2, <1>5, <1>7
<1>12. RequestOrder'
  BY <1>5, <1>7, <1>8, <1>9, <1>10, <1>11 DEF RequestOrder
<1>. QED BY <1>4, <1>12

\* block_current: the process and its request go to the backs of their queues.
LEMMA BlockCurrentInv ==
  ASSUME ProtocolInv, NEW p \in AppIds, BlockCurrent(p) PROVE ProtocolInv'
<1>. USE DEF ProtocolInv
<1>1. Count(input) < SIZE
  BY Numbers DEF BlockCurrent
<1>2. /\ input' \in Queues(AppIds) /\ Count(input') = Count(input) + 1
      /\ \A i \in 1 .. Count(input) : Contents(input')[i] = Contents(input)[i]
      /\ Contents(input')[Count(input) + 1] = p
  BY <1>1, PushAppends DEF BlockCurrent, TypeOK
<1>3. /\ blocked \in Seq(AppIds) /\ blocked' = Append(blocked, p) /\ p \in ready
      /\ ready' = ready \ {p} /\ output' = output /\ hand' = hand
      /\ unsent' = unsent /\ next_id' = next_id
  BY DEF BlockCurrent, TypeOK
<1>4. /\ Len(blocked') = Len(blocked) + 1 /\ blocked' \in Seq(AppIds)
      /\ \A i \in 1 .. Len(blocked) : blocked'[i] = blocked[i]
      /\ blocked'[Len(blocked) + 1] = p /\ Len(blocked) \in Nat
  BY <1>3
<1>5. TypeOK'
  BY <1>2, <1>3, <1>4 DEF TypeOK
<1>6. Population'
  <2>1. Cardinality(ready') = Cardinality(ready) - 1
    BY <1>3, Numbers, OneLess, Zenon
  <2>. QED BY <2>1, <1>3, <1>4, Numbers DEF Population
<1>7. OnePlace'
  <2>1. \A i \in 1 .. Len(blocked) : blocked[i] # p
    BY <1>3 DEF OnePlace
  <2>2. p < next_id
    BY <1>3 DEF OnePlace
  <2>3. ASSUME NEW i \in 1 .. Len(blocked'), NEW j \in 1 .. Len(blocked'),
               blocked'[i] = blocked'[j]
        PROVE  i = j
    BY <2>1, <2>3, <1>4 DEF OnePlace
  <2>4. ASSUME NEW i \in 1 .. Len(blocked')
        PROVE  blocked'[i] \notin ready' /\ blocked'[i] < next_id'
    BY <2>1, <2>2, <1>3, <1>4 DEF OnePlace
  <2>5. \A r \in ready' : r < next_id'
    BY <1>3 DEF OnePlace
  <2>. QED BY <2>3, <2>4, <2>5 DEF OnePlace
<1>8. /\ StartsQueued' = StartsQueued /\ AnswersQueued' = AnswersQueued /\ InHand' = InHand
      /\ Count(output') = Count(output) /\ Count(input) \in Nat
      /\ AnswersQueued \in Nat /\ InHand \in {0, 1} /\ (hand # None => InHand = 1)
      /\ Len(blocked) = AnswersQueued + InHand + Count(input)
  <2>1. StartsQueued' = StartsQueued /\ Count(output') = Count(output)
    BY <1>3, Zenon DEF StartsQueued
  <2>2. AnswersQueued' = AnswersQueued /\ InHand' = InHand
    BY <2>1, <1>3, Zenon DEF AnswersQueued, InHand
  <2>3. Count(input) \in Nat /\ AnswersQueued \in Nat
    BY Numbers
  <2>4. InHand \in {0, 1} /\ (hand # None => InHand = 1)
    BY Zenon DEF InHand
  <2>5. Len(blocked) = AnswersQueued + InHand + Count(input)
    BY Zenon DEF RequestOrder
  <2>. QED BY <2>1, <2>2, <2>3, <2>4, <2>5, Zenon
<1>9. Len(blocked') = AnswersQueued' + InHand' + Count(input')
  BY <1>2, <1>4, <1>8
<1>10. ASSUME NEW i \in 1 .. AnswersQueued PROVE blocked'[i] = blocked[i]
  BY <1>4, <1>8
<1>11. hand' # None => blocked'[AnswersQueued' + 1] = hand'
  <2>1. hand # None => AnswersQueued + 1 \in 1 .. Len(blocked)
    BY <1>8
  <2>. QED BY <2>1, <1>3, <1>4, <1>8 DEF RequestOrder
<1>12. ASSUME NEW i \in 1 .. Count(input')
       PROVE  Contents(input')[i] = blocked'[AnswersQueued' + InHand' + i]
  <2>1. CASE i \in 1 .. Count(input)
    <3>1. AnswersQueued + InHand + i \in 1 .. Len(blocked)
      BY <2>1, <1>8
    <3>. QED BY <3>1, <2>1, <1>2, <1>4, <1>8 DEF RequestOrder
  <2>2. CASE i = Count(input) + 1
    <3>1. AnswersQueued + InHand + i = Len(blocked) + 1
      BY <2>2, <1>8
    <3>. QED BY <3>1, <2>2, <1>2, <1>4, <1>8, Zenon
  <2>. QED BY <2>1, <2>2, <1>2, <1>8
<1>13. RequestOrder'
  BY <1>3, <1>8, <1>9, <1>10, <1>11, <1>12, Zenon DEF RequestOrder
<1>. QED BY <1>5, <1>6, <1>7, <1>13

\* The exit interrupt takes a process that has no request anywhere.
LEMMA ExitInv ==
  ASSUME ProtocolInv, NEW p \in AppIds, Exit(p) PROVE ProtocolInv'
<1>. USE DEF ProtocolInv
<1>1. Cardinality(ready') = Cardinality(ready) - 1
  BY Numbers, OneLess, Zenon DEF Exit
<1>2. Population'
  BY <1>1, Numbers DEF Exit, Population, ShellId
<1>3. TypeOK' /\ OnePlace'
  BY DEF Exit, TypeOK, OnePlace
<1>4. RequestOrder'
  BY Zenon DEF Exit, RequestOrder, StartsQueued, AnswersQueued, InHand
<1>. QED BY <1>2, <1>3, <1>4

\* StartProcess: run_user_process hands out an id that nobody has.
LEMMA OutputStartInv == ASSUME ProtocolInv, OutputStart PROVE ProtocolInv'
<1>. USE DEF ProtocolInv
<1>1. /\ output' \in Queues(Messages) /\ Count(output') = Count(output) - 1
      /\ \A i \in 1 .. Count(output) - 1 : Contents(output')[i] = Contents(output)[i + 1]
  BY PopRemovesOldest DEF OutputStart, TypeOK
<1>2. Count(output) \in Nat /\ Count(output) > 0 /\ Contents(output)[1].kind = "StartProcess"
  BY RingEnds DEF OutputStart, TypeOK
<1>3. /\ StartsQueued \in Nat /\ AnswersQueued \in Nat /\ next_id \in Nat /\ unsent \in Nat
      /\ Count(output) = StartsQueued + AnswersQueued /\ unsent \in 0 .. NumApps
  BY Numbers
<1>4. StartsQueued > 0
  <2>. SUFFICES ASSUME StartsQueued = 0 PROVE FALSE
    BY <1>3
  <2>1. 1 \in 1 .. AnswersQueued /\ StartsQueued + 1 = 1
    BY <1>2, <1>3
  <2>. QED BY <2>1, <1>2 DEF RequestOrder
<1>5. /\ next_id' = next_id + 1 /\ ready' = ready \cup {next_id} /\ blocked' = blocked
      /\ input' = input /\ hand' = hand /\ unsent' = unsent
  BY DEF OutputStart
<1>6. StartsQueued' = StartsQueued - 1 /\ AnswersQueued' = AnswersQueued /\ InHand' = InHand
  <2>1. StartsQueued' = StartsQueued - 1 /\ InHand' = InHand
    BY <1>3, <1>5 DEF StartsQueued, ShellId, InHand
  <2>2. AnswersQueued' = Count(output') - StartsQueued'
    BY DEF AnswersQueued
  <2>. QED BY <2>1, <2>2, <1>1, <1>3
<1>7. next_id \in AppIds /\ next_id' \in ShellId + 1 .. ShellId + 1 + NumApps
  BY <1>3, <1>4, <1>5 DEF TypeOK, StartsQueued, AppIds, ShellId
<1>8. TypeOK'
  BY <1>1, <1>5, <1>7 DEF TypeOK
<1>9. next_id \notin ready
  BY <1>3 DEF OnePlace
<1>10. Population'
  <2>1. Cardinality(ready') = Cardinality(ready) + 1
    BY <1>5, <1>9, Numbers, OneMore, Zenon
  <2>. QED BY <2>1, <1>3, <1>5, Numbers DEF Population, ShellId
<1>11. OnePlace'
  <2>1. \A i \in 1 .. Len(blocked) : blocked[i] \in Nat /\ blocked[i] < next_id
    BY DEF OnePlace, TypeOK, AppIds, ShellId
  <2>2. \A r \in ready : r \in Nat /\ r < next_id
    BY DEF OnePlace, TypeOK, AppIds, ShellId
  <2>3. \A i \in 1 .. Len(blocked) : blocked[i] \notin ready' /\ blocked[i] < next_id'
    BY <2>1, <1>3, <1>5 DEF OnePlace
  <2>4. \A r \in ready' : r < next_id'
    BY <2>2, <1>3, <1>5
  <2>. QED BY <2>3, <2>4, <1>5 DEF OnePlace
<1>12. ASSUME NEW i \in 1 .. StartsQueued' PROVE Contents(output')[i].kind = "StartProcess"
  <2>1. i \in 1 .. Count(output) - 1 /\ i + 1 \in 1 .. StartsQueued
    BY <1>3, <1>6
  <2>. QED BY <2>1, <1>1 DEF RequestOrder
<1>13. ASSUME NEW i \in 1 .. AnswersQueued'
       PROVE  /\ Contents(output')[StartsQueued' + i].kind # "StartProcess"
              /\ Contents(output')[StartsQueued' + i].process_id = blocked'[i]
  <2>1. /\ StartsQueued' + i \in 1 .. Count(output) - 1 /\ i \in 1 .. AnswersQueued
        /\ (StartsQueued' + i) + 1 = StartsQueued + i
    BY <1>3, <1>4, <1>6
  <2>. QED BY <2>1, <1>1, <1>5 DEF RequestOrder
<1>14. StartsQueued' \in 0 .. Count(output')
  BY <1>1, <1>3, <1>4, <1>6
<1>15. RequestOrder'
  BY <1>5, <1>6, <1>12, <1>13, <1>14 DEF RequestOrder
<1>. QED BY <1>8, <1>10, <1>11, <1>15

\* An answer at the front of `output` belongs to the front of `blocked`.
LEMMA FrontAnswer ==
  ASSUME ProtocolInv, Front(output) # None, Front(output).kind # "StartProcess"
  PROVE  /\ StartsQueued = 0 /\ AnswersQueued > 0 /\ blocked # <<>> /\ Len(blocked) > 0
         /\ Head(blocked) = blocked[1] /\ blocked[1] = Front(output).process_id
<1>. USE DEF ProtocolInv
<1>1. Count(output) \in Nat /\ Count(output) > 0 /\ Contents(output)[1] = Front(output)
  BY RingEnds DEF TypeOK
<1>2. /\ StartsQueued \in Nat /\ AnswersQueued \in Nat /\ Count(input) \in Nat
      /\ Count(output) = StartsQueued + AnswersQueued /\ InHand \in {0, 1}
  BY Numbers DEF InHand
<1>3. StartsQueued = 0
  <2>. SUFFICES ASSUME 1 \in 1 .. StartsQueued PROVE FALSE
    BY <1>2
  <2>. QED BY <1>1 DEF RequestOrder
<1>4. 1 \in 1 .. AnswersQueued /\ StartsQueued + 1 = 1
  BY <1>1, <1>2, <1>3
<1>5. blocked[1] = Front(output).process_id
  BY <1>1, <1>4 DEF RequestOrder
<1>6. Len(blocked) = AnswersQueued + InHand + Count(input)
  BY DEF RequestOrder
<1>7. Len(blocked) > 0 /\ AnswersQueued > 0
  BY <1>2, <1>4, <1>6
<1>8. blocked # <<>> /\ Head(blocked) = blocked[1]
  BY <1>7 DEF TypeOK
<1>. QED BY <1>3, <1>5, <1>7, <1>8

\* Applying an answer pops both queues, so the next answer meets the next process.
LEMMA AnswerApplied ==
  ASSUME ProtocolInv, Front(output) # None, Front(output).kind # "StartProcess",
         output' = Pop(output), blocked' = Tail(blocked),
         UNCHANGED <<input, hand, unsent, next_id>>
  PROVE  /\ output' \in Queues(Messages) /\ blocked' \in Seq(AppIds)
         /\ Len(blocked) \in Nat /\ Len(blocked') = Len(blocked) - 1
         /\ \A i \in 1 .. Len(blocked') : blocked'[i] = blocked[i + 1]
         /\ RequestOrder'
<1>. USE DEF ProtocolInv
<1>1. /\ output' \in Queues(Messages) /\ Count(output') = Count(output) - 1
      /\ \A i \in 1 .. Count(output) - 1 : Contents(output')[i] = Contents(output)[i + 1]
  BY PopRemovesOldest DEF TypeOK
<1>2. /\ StartsQueued = 0 /\ AnswersQueued \in Nat /\ AnswersQueued > 0
      /\ Count(output) = AnswersQueued /\ Count(input) \in Nat
      /\ InHand \in {0, 1} /\ (hand # None => InHand = 1)
  BY FrontAnswer, Numbers DEF InHand
<1>3. /\ blocked' \in Seq(AppIds) /\ Len(blocked) \in Nat
      /\ Len(blocked') = Len(blocked) - 1
      /\ \A i \in 1 .. Len(blocked') : blocked'[i] = blocked[i + 1]
  <2>1. blocked \in Seq(AppIds) /\ blocked # <<>>
    BY FrontAnswer DEF TypeOK
  <2>. QED BY <2>1
<1>4. StartsQueued' = 0 /\ AnswersQueued' = AnswersQueued - 1 /\ InHand' = InHand
  <2>1. StartsQueued' = StartsQueued /\ InHand' = InHand
    BY DEF StartsQueued, InHand
  <2>2. AnswersQueued' = Count(output') - StartsQueued'
    BY DEF AnswersQueued
  <2>. QED BY <2>1, <2>2, <1>1, <1>2
<1>5. Len(blocked) = AnswersQueued + InHand + Count(input)
  BY DEF RequestOrder
<1>6. Len(blocked') = AnswersQueued' + InHand' + Count(input')
  BY <1>2, <1>3, <1>4, <1>5
<1>7. ASSUME NEW i \in 1 .. AnswersQueued'
      PROVE  /\ Contents(output')[StartsQueued' + i].kind # "StartProcess"
             /\ Contents(output')[StartsQueued' + i].process_id = blocked'[i]
  <2>1. /\ i \in 1 .. Count(output) - 1 /\ i + 1 \in 1 .. AnswersQueued
        /\ 0 + i = i /\ 0 + (i + 1) = i + 1 /\ i \in 1 .. Len(blocked')
    BY <1>2, <1>3, <1>4, <1>5
  <2>2. /\ Contents(output)[i + 1].kind # "StartProcess"
        /\ Contents(output)[i + 1].process_id = blocked[i + 1]
    BY <2>1, <1>2 DEF RequestOrder
  <2>. QED BY <2>1, <2>2, <1>1, <1>3, <1>4
<1>8. hand' # None => blocked'[AnswersQueued' + 1] = hand'
  <2>1. hand # None => /\ AnswersQueued' + 1 \in 1 .. Len(blocked')
                       /\ (AnswersQueued' + 1) + 1 = AnswersQueued + 1
    BY <1>2, <1>3, <1>4, <1>5
  <2>. QED BY <2>1, <1>3 DEF RequestOrder
<1>9. ASSUME NEW i \in 1 .. Count(input')
      PROVE  Contents(input')[i] = blocked'[AnswersQueued' + InHand' + i]
  <2>1. /\ AnswersQueued' + InHand' + i \in 1 .. Len(blocked')
        /\ (AnswersQueued' + InHand' + i) + 1 = AnswersQueued + InHand + i
    BY <1>2, <1>4, <1>6
  <2>. QED BY <2>1, <1>3 DEF RequestOrder
<1>10. ~(unsent' > 0) /\ StartsQueued' \in 0 .. Count(output')
  BY <1>1, <1>2, <1>4 DEF RequestOrder
<1>11. \A i \in 1 .. StartsQueued' : Contents(output')[i].kind = "StartProcess"
  BY <1>4
<1>12. RequestOrder'
  BY <1>6, <1>7, <1>8, <1>9, <1>10, <1>11, Zenon DEF RequestOrder
<1>. QED BY <1>1, <1>3, <1>12

\* AllowModuleAccess: the front of `blocked` becomes ready again, or is dropped.
LEMMA OutputAllowInv == ASSUME ProtocolInv, OutputAllow PROVE ProtocolInv'
<1>. USE DEF ProtocolInv
<1>1. /\ output' \in Queues(Messages) /\ blocked' \in Seq(AppIds)
      /\ Len(blocked) \in Nat /\ Len(blocked') = Len(blocked) - 1
      /\ \A i \in 1 .. Len(blocked') : blocked'[i] = blocked[i + 1]
      /\ RequestOrder'
  BY AnswerApplied DEF OutputAllow
<1>2. Len(blocked) > 0 /\ Head(blocked) = blocked[1]
  BY FrontAnswer DEF OutputAllow
<1>3. blocked[1] \in AppIds /\ blocked[1] \notin ready /\ blocked[1] < next_id
  BY <1>1, <1>2 DEF OnePlace, TypeOK
<1>4. (ready' = ready \cup {blocked[1]} \/ ready' = ready) /\ next_id' = next_id
  BY <1>2 DEF OutputAllow
<1>5. TypeOK'
  BY <1>1, <1>3, <1>4 DEF OutputAllow, TypeOK
<1>6. Population'
  <2>1. Cardinality(ready \cup {blocked[1]}) = Cardinality(ready) + 1
    BY <1>3, Numbers, OneMore, Zenon
  <2>2. Cardinality(ready) \in Nat /\ next_id \in Nat
    BY Numbers
  <2>3. Len(blocked) + Cardinality(ready) <= next_id - 2
    BY DEF Population, ShellId
  <2>4. CASE ready' = ready
    BY <2>2, <2>3, <2>4, <1>1, <1>4 DEF Population, ShellId
  <2>5. CASE ready' = ready \cup {blocked[1]}
    BY <2>1, <2>2, <2>3, <2>5, <1>1, <1>4 DEF Population, ShellId
  <2>. QED BY <2>4, <2>5, <1>4
<1>7. OnePlace'
  <2>1. \A i \in 1 .. Len(blocked') : i + 1 \in 1 .. Len(blocked) /\ i + 1 # 1
    BY <1>1
  <2>2. \A i, j \in 1 .. Len(blocked') : i + 1 = j + 1 => i = j
    BY <1>1
  <2>3. \A i, j \in 1 .. Len(blocked') : blocked'[i] = blocked'[j] => i = j
    BY <2>1, <2>2, <1>1 DEF OnePlace
  <2>4. \A i \in 1 .. Len(blocked') : blocked'[i] # blocked[1]
    BY <2>1, <1>1, <1>2 DEF OnePlace
  <2>5. \A i \in 1 .. Len(blocked') : blocked'[i] \notin ready' /\ blocked'[i] < next_id'
    BY <2>1, <2>4, <1>1, <1>4 DEF OnePlace
  <2>6. \A r \in ready' : r < next_id'
    BY <1>3, <1>4 DEF OnePlace
  <2>. QED BY <2>3, <2>5, <2>6 DEF OnePlace
<1>. QED BY <1>1, <1>5, <1>6, <1>7

\* ExitProcess: the front of `blocked` is dropped.
LEMMA OutputExitInv == ASSUME ProtocolInv, OutputExit PROVE ProtocolInv'
<1>. USE DEF ProtocolInv
<1>1. /\ output' \in Queues(Messages) /\ blocked' \in Seq(AppIds)
      /\ Len(blocked) \in Nat /\ Len(blocked') = Len(blocked) - 1
      /\ \A i \in 1 .. Len(blocked') : blocked'[i] = blocked[i + 1]
      /\ RequestOrder'
  BY AnswerApplied DEF OutputExit
<1>2. TypeOK'
  BY <1>1 DEF OutputExit, TypeOK
<1>3. Population'
  <2>1. UNCHANGED <<ready, next_id>> /\ Population
    BY Zenon DEF OutputExit
  <2>2. PICK n \in Nat : n = Cardinality(ready)
    BY Numbers, Zenon
  <2>3. next_id \in Nat /\ ShellId \in Nat
    BY Numbers DEF ShellId
  <2>4. Len(blocked) + n <= next_id - (ShellId + 1)
    BY <2>1, <2>2, Zenon DEF Population
  <2>5. (Len(blocked) - 1) + n <= next_id - (ShellId + 1)
    BY <2>2, <2>3, <2>4, <1>1
  <2>. QED BY <2>1, <2>2, <2>5, <1>1, Zenon DEF Population
<1>4. OnePlace'
  <2>1. \A i \in 1 .. Len(blocked') : i + 1 \in 1 .. Len(blocked)
    BY <1>1
  <2>2. \A i, j \in 1 .. Len(blocked') : i + 1 = j + 1 => i = j
    BY <1>1
  <2>. QED BY <2>1, <2>2, <1>1 DEF OnePlace, OutputExit
<1>. QED BY <1>1, <1>2, <1>3, <1>4

\* Every step of the kernel and the shell preserves the order of the requests.
LEMMA StepProtocolInv == ProtocolInv /\ [Next]_vars => ProtocolInv'
<1>. SUFFICES ASSUME ProtocolInv, [Next]_vars PROVE ProtocolInv'
  OBVIOUS
<1>1. CASE UNCHANGED vars
  BY <1>1, Zenon DEF vars, ProtocolInv, TypeOK, RequestOrder, Population, OnePlace,
              StartsQueued, AnswersQueued, InHand
<1>2. CASE \E p \in AppIds : BlockCurrent(p) \/ Exit(p)
  BY <1>2, BlockCurrentInv, ExitInv
<1>. QED BY <1>1, <1>2, SendStartInv, TakeRequestInv, SendAnswerInv, OutputStartInv,
            OutputAllowInv, OutputExitInv DEF Next

\* The queues between the kernel and the shell always carry the requests in the
\* order of Scheduler::blocked, for every ring size and number of processes.
THEOREM ProtocolCorrect == Spec => []ProtocolInv
BY InitProtocolInv, StepProtocolInv, PTL DEF Spec

\* schedule_next applies every answer to the process it was meant for: its
\* assert_eq! and its two .expect calls on `blocked` never fire.
THEOREM AnswersMatch == Spec => []AnswerMatchesFront
<1>1. ProtocolInv => AnswerMatchesFront
  BY FrontAnswer DEF AnswerMatchesFront
<1>. QED BY <1>1, ProtocolCorrect, PTL

\* SizedQueue::push never overwrites a message of the protocol.
THEOREM NothingOverwritten == Spec => []NoOverwrite
<1>1. ProtocolInv => NoOverwrite
  <2>. SUFFICES ASSUME ProtocolInv PROVE NoOverwrite
    OBVIOUS
  <2>1. Count(input) < SIZE => input.inner[input.push_cursor] = None
    BY RingEnds DEF ProtocolInv, TypeOK
  <2>2. Count(output) < SIZE => output.inner[output.push_cursor] = None
    BY RingEnds DEF ProtocolInv, TypeOK
  <2>. QED BY <2>1, <2>2, Numbers DEF NoOverwrite
<1>. QED BY <1>1, ProtocolCorrect, PTL

\* block_current, schedule_next and run_user_process keep every process in one
\* place.
THEOREM ProcessesInOnePlace == Spec => []OnePlace
BY ProtocolCorrect, PTL DEF ProtocolInv
=============================================================================
