---------------------- MODULE SchedulerHandlerProofs ----------------------
(***************************************************************************)
(* What the proofs about the scheduler rest on (the queues of processes,   *)
(* the rings as Scheduler and ShellProtocol see them, who a message is of  *)
(* and what its process waits for), and the steps of the interrupt         *)
(* handlers: each keeps the invariant and is to ShellProtocol a step of    *)
(* its own or none at all.                                                 *)
(***************************************************************************)
EXTENDS Scheduler, TLAPS

USE SizeAssumption, CapacityAssumption, NoneAssumption
-----------------------------------------------------------------------------
(* Rings, as in ShellProtocolProofs.                                        *)

\* The arithmetic of a cursor of SizedQueue::push and SizedQueue::pop: SIZE steps
\* from a slot meet every slot once and come back.
LEMMA Cursor ==
  ASSUME NEW b \in Slots, NEW i \in Slots
  PROVE  /\ Wrap(b + 0) = b /\ Wrap(b + SIZE) = b /\ 0 \in Slots
         /\ Wrap(b + i) \in Slots
         /\ Advance(b) \in Slots
         /\ Advance(Wrap(b + i)) = Wrap(b + (i + 1))
         /\ Wrap(Advance(b) + i) = Wrap(b + (i + 1))
         /\ i # 0 => Wrap(b + i) # b
BY DEF Slots, Wrap, Advance

\* Where push_cursor is.
LEMMA PushCursor ==
  ASSUME NEW q, NEW a \in Slots, NEW b \in Slots, q.push_cursor = a, q.pop_cursor = b
  PROVE  Count(q) \in 0 .. SIZE /\ a = Wrap(b + Count(q))
<1>1. Count(q) = IF a > b THEN a - b
                 ELSE IF a < b THEN SIZE - b + a ELSE IF Front(q) = None THEN 0 ELSE SIZE
  BY DEF Count
<1>. QED BY <1>1 DEF Slots, Wrap

\* SizedQueue::pop returns None exactly on an empty ring, and the oldest element
\* otherwise; the slot that SizedQueue::push writes is free unless the ring is
\* full.
LEMMA RingEnds ==
  ASSUME NEW Element, None \notin Element, NEW q \in Queues(Element)
  PROVE  /\ Count(q) \in 0 .. SIZE
         /\ Front(q) = None <=> Count(q) = 0
         /\ Count(q) > 0 => Front(q) = Contents(q)[1] /\ Front(q) \in Element
         /\ Count(q) < SIZE => q.inner[q.push_cursor] = None
<1>1. PICK a \in Slots, b \in Slots : q.push_cursor = a /\ q.pop_cursor = b
  BY DEF Queues
<1>2. /\ q.inner \in [Slots -> Element \cup {None}]
      /\ \A i \in Slots : q.inner[Wrap(b + i)] # None <=> i < Count(q)
  BY <1>1 DEF Queues
<1>3. Count(q) \in 0 .. SIZE /\ a = Wrap(b + Count(q))
  BY <1>1, PushCursor
<1>4. 0 \in Slots /\ Wrap(b + 0) = b
  BY Cursor
<1>5. Front(q) # None <=> 0 < Count(q)
  BY <1>1, <1>2, <1>4 DEF Front
<1>6. ASSUME Count(q) > 0 PROVE Front(q) = Contents(q)[1] /\ Front(q) \in Element
  <2>1. 1 \in 1 .. Count(q) /\ b + 1 - 1 = b + 0
    BY <1>3, <1>6 DEF Slots
  <2>2. Contents(q)[1] = q.inner[Wrap(b + 1 - 1)]
    BY <2>1, <1>1 DEF Contents
  <2>. QED BY <2>1, <2>2, <1>1, <1>2, <1>4, <1>5, <1>6 DEF Front
<1>7. ASSUME Count(q) < SIZE PROVE q.inner[q.push_cursor] = None
  <2>1. Count(q) \in Slots /\ ~(Count(q) < Count(q))
    BY <1>3, <1>7 DEF Slots
  <2>. QED BY <2>1, <1>1, <1>2, <1>3
<1>8. Front(q) = None <=> Count(q) = 0
  BY <1>3, <1>5
<1>. QED BY <1>3, <1>6, <1>7, <1>8

\* Every occupied slot of a ring holds one of the elements it stands for.
LEMMA SlotInContents ==
  ASSUME NEW Element, NEW q \in Queues(Element), NEW i \in Slots, q.inner[i] # None
  PROVE  \E j \in 1 .. Count(q) : Contents(q)[j] = q.inner[i]
<1>1. PICK a \in Slots, b \in Slots : q.push_cursor = a /\ q.pop_cursor = b
  BY DEF Queues
<1>2. \A k \in Slots : q.inner[Wrap(b + k)] # None <=> k < Count(q)
  BY <1>1 DEF Queues
<1>3. Count(q) \in 0 .. SIZE
  BY <1>1, PushCursor
<1>4. PICK k \in Slots : Wrap(b + k) = i
  <2>1. CASE i >= b
    <3>1. i - b \in Slots /\ Wrap(b + (i - b)) = i
      BY <2>1 DEF Slots, Wrap
    <3>. QED BY <3>1
  <2>2. CASE i < b
    <3>1. i - b + SIZE \in Slots /\ Wrap(b + (i - b + SIZE)) = i
      BY <2>2 DEF Slots, Wrap
    <3>. QED BY <3>1
  <2>. QED BY <2>1, <2>2 DEF Slots
<1>5. k < Count(q)
  BY <1>2, <1>4
<1>6. k + 1 \in 1 .. Count(q) /\ b + (k + 1) - 1 = b + k
  BY <1>3, <1>5 DEF Slots
<1>7. Contents(q)[k + 1] = q.inner[i]
  BY <1>1, <1>4, <1>6 DEF Contents
<1>. QED BY <1>6, <1>7
-----------------------------------------------------------------------------
(* Queues of processes.                                                     *)

\* The first elements of a sequence.
LEMMA FrontPlaces ==
  ASSUME NEW S, NEW s \in Seq(S), NEW n \in 0 .. Len(s)
  PROVE  /\ SubSeq(s, 1, n) \in Seq(S) /\ Len(SubSeq(s, 1, n)) = n
         /\ \A i \in 1 .. n : SubSeq(s, 1, n)[i] = s[i]
OBVIOUS

\* The elements of a sequence.
LEMMA ElementsOf == ASSUME NEW S, NEW s \in Seq(S) PROVE Range(s) \subseteq S
<1>1. \A i \in DOMAIN s : s[i] \in S
  OBVIOUS
<1>. QED BY <1>1 DEF Range

\* Sequences that agree at every place are equal.
LEMMA SamePlaces ==
  ASSUME NEW S, NEW s \in Seq(S), NEW t \in Seq(S),
         Len(s) = Len(t), \A i \in 1 .. Len(s) : s[i] = t[i]
  PROVE  s = t
<1>1. s = [i \in 1 .. Len(s) |-> s[i]] /\ t = [i \in 1 .. Len(s) |-> t[i]]
  OBVIOUS
<1>. QED BY <1>1, Zenon

\* VecDeque::push_back of a process that is not in the queue.
LEMMA AppendPlace ==
  ASSUME NEW S, NEW s \in Seq(S), NEW p \in S
  PROVE  /\ Append(s, p) \in Seq(S) /\ Append(s, p) # <<>>
         /\ Len(Append(s, p)) = Len(s) + 1 /\ Append(s, p)[Len(s) + 1] = p
         /\ \A i \in 1 .. Len(s) : Append(s, p)[i] = s[i]
         /\ Range(Append(s, p)) = Range(s) \cup {p}
         /\ IsInjective(s) /\ p \notin Range(s) => IsInjective(Append(s, p))
<1>1. /\ Append(s, p) \in Seq(S) /\ Append(s, p) # <<>>
      /\ Len(Append(s, p)) = Len(s) + 1 /\ Append(s, p)[Len(s) + 1] = p
      /\ \A i \in 1 .. Len(s) : Append(s, p)[i] = s[i]
      /\ DOMAIN s = 1 .. Len(s) /\ DOMAIN Append(s, p) = 1 .. Len(s) + 1 /\ Len(s) \in Nat
  OBVIOUS
<1>2. Range(Append(s, p)) = Range(s) \cup {p}
  BY <1>1 DEF Range
<1>3. ASSUME IsInjective(s), p \notin Range(s) PROVE IsInjective(Append(s, p))
  <2>1. \A i \in 1 .. Len(s) : s[i] # p
    BY <1>1, <1>3 DEF Range
  <2>2. \A i, j \in 1 .. Len(s) : s[i] = s[j] => i = j
    BY <1>1, <1>3 DEF IsInjective
  <2>3. \A i \in 1 .. Len(s) + 1 : i \in 1 .. Len(s) \/ i = Len(s) + 1
    BY <1>1
  <2>. QED BY <2>1, <2>2, <2>3, <1>1 DEF IsInjective
<1>. QED BY <1>1, <1>2, <1>3

\* VecDeque::pop_front.
LEMMA TailPlace ==
  ASSUME NEW S, NEW s \in Seq(S), s # <<>>, IsInjective(s)
  PROVE  /\ Head(s) \in S /\ Head(s) = s[1] /\ Head(s) \in Range(s)
         /\ Tail(s) \in Seq(S) /\ Len(Tail(s)) = Len(s) - 1
         /\ Range(Tail(s)) = Range(s) \ {Head(s)}
         /\ IsInjective(Tail(s))
<1>1. /\ Head(s) \in S /\ Head(s) = s[1] /\ Len(s) \in Nat /\ Len(s) > 0
      /\ Tail(s) \in Seq(S) /\ Len(Tail(s)) = Len(s) - 1
      /\ DOMAIN s = 1 .. Len(s) /\ DOMAIN Tail(s) = 1 .. Len(s) - 1
      /\ \A i \in 1 .. Len(s) - 1 : Tail(s)[i] = s[i + 1]
  OBVIOUS
<1>2. \A i, j \in 1 .. Len(s) : s[i] = s[j] => i = j
  BY <1>1 DEF IsInjective
<1>3. Head(s) \in Range(s)
  BY <1>1 DEF Range
<1>4. \A i \in 1 .. Len(s) - 1 : i + 1 \in 1 .. Len(s) /\ i + 1 # 1
  BY <1>1
<1>5. \A i \in 1 .. Len(s) : i = 1 \/ (i - 1 \in 1 .. Len(s) - 1 /\ (i - 1) + 1 = i)
  BY <1>1
<1>6. Range(Tail(s)) \subseteq Range(s) \ {Head(s)}
  BY <1>1, <1>2, <1>4 DEF Range
<1>7. ASSUME NEW x \in Range(s) \ {Head(s)} PROVE x \in Range(Tail(s))
  <2>1. PICK i \in 1 .. Len(s) : s[i] = x
    BY <1>1 DEF Range
  <2>2. i - 1 \in 1 .. Len(s) - 1 /\ (i - 1) + 1 = i
    BY <2>1, <1>1, <1>5
  <2>3. Tail(s)[i - 1] = x
    BY <2>1, <2>2, <1>1
  <2>. QED BY <2>2, <2>3, <1>1, Zenon DEF Range
<1>8. IsInjective(Tail(s))
  <2>1. \A i, j \in 1 .. Len(s) - 1 : i + 1 = j + 1 => i = j
    BY <1>1
  <2>. QED BY <2>1, <1>1, <1>2, <1>4 DEF IsInjective
<1>. QED BY <1>1, <1>3, <1>6, <1>7, <1>8

RunQueues == [Normal : Seq(Ids \ {IdleId}), Idle : Seq({IdleId})]

\* The processes that `current` c, run queues q and `blocked` b hold, and the
\* part of OnePlace that is about them.
LiveIn(c, q, b) == ({c} \ {None}) \cup Range(b) \cup Range(q.Normal) \cup Range(q.Idle)

Placed(c, q, b) ==
  /\ c \in Ids \cup {None} /\ q \in RunQueues /\ b \in Seq(AppIds)
  /\ IsInjective(q.Normal) /\ IsInjective(b)
  /\ Range(q.Normal) \cap Range(b) = {}
  /\ c \notin Range(q.Normal) \cup Range(b)
  /\ q.Idle = IF c = IdleId THEN <<>> ELSE <<IdleId>>

\* Range of the run queue of the idle process.
LEMMA IdleRange == Range(<<>>) = {} /\ Range(<<IdleId>>) = {IdleId}
<1>1. DOMAIN <<>> = {} /\ DOMAIN <<IdleId>> = {1} /\ <<IdleId>>[1] = IdleId
  OBVIOUS
<1>. QED BY <1>1 DEF Range

\* Every process is somewhere among Ids, and never None.
LEMMA LiveIds ==
  ASSUME NEW c, NEW q, NEW b, Placed(c, q, b)
  PROVE  /\ LiveIn(c, q, b) \subseteq Ids /\ IdleId \in LiveIn(c, q, b)
         /\ Range(q.Normal) \subseteq Ids \ {IdleId} /\ Range(b) \subseteq AppIds
         /\ AppIds \subseteq Ids \ {IdleId} /\ IdleId \in Ids /\ ShellId \in Ids \ {IdleId}
         /\ Range(q.Idle) = {IdleId} \ {c} /\ None \notin LiveIn(c, q, b)
<1>1. AppIds \subseteq Ids \ {IdleId} /\ IdleId \in Ids /\ ShellId \in Ids \ {IdleId}
  BY DEF AppIds, Ids, IdleId, ShellId
<1>2. q.Normal \in Seq(Ids \ {IdleId}) /\ b \in Seq(AppIds)
  BY DEF Placed, RunQueues
<1>3. Range(q.Normal) \subseteq Ids \ {IdleId} /\ Range(b) \subseteq AppIds
  BY <1>2, ElementsOf
<1>4. Range(q.Idle) = {IdleId} \ {c}
  BY IdleRange DEF Placed
<1>5. c \in Ids \cup {None} /\ None \notin Ids
  BY DEF Placed
<1>. QED BY <1>1, <1>3, <1>4, <1>5 DEF LiveIn

\* add_to_queue of a process that is nowhere keeps every process in one place.
LEMMA AddPlaced ==
  ASSUME NEW c, NEW q, NEW b, Placed(c, q, b),
         NEW p \in Ids \ {IdleId}, p \notin LiveIn(c, q, b)
  PROVE  /\ Placed(c, AddToQueue(q, p), b)
         /\ LiveIn(c, AddToQueue(q, p), b) = LiveIn(c, q, b) \cup {p}
<1>1. q \in RunQueues /\ q.Normal \in Seq(Ids \ {IdleId}) /\ q.Idle \in Seq({IdleId})
  BY DEF Placed, RunQueues
<1>2. /\ AddToQueue(q, p).Normal = Append(q.Normal, p)
      /\ AddToQueue(q, p).Idle = q.Idle
      /\ AddToQueue(q, p) \in RunQueues
  <2>1. AddToQueue(q, p) = [q EXCEPT !["Normal"] = Append(@, p)]
    BY DEF AddToQueue, Priority
  <2>2. PICK n \in Seq(Ids \ {IdleId}) : n = Append(q.Normal, p)
    BY <1>1, AppendPlace, Zenon
  <2>3. AddToQueue(q, p) = [q EXCEPT !["Normal"] = n]
    BY <2>1, <2>2, <1>1 DEF RunQueues
  <2>. QED BY <2>2, <2>3, <1>1, Zenon DEF RunQueues
<1>3. /\ Range(Append(q.Normal, p)) = Range(q.Normal) \cup {p}
      /\ IsInjective(Append(q.Normal, p))
  <2>1. p \notin Range(q.Normal) /\ IsInjective(q.Normal)
    BY DEF LiveIn, Placed
  <2>. QED BY <2>1, <1>1, AppendPlace
<1>4. p \notin Range(b) /\ p # c
  BY DEF LiveIn
<1>. QED BY <1>2, <1>3, <1>4 DEF Placed, LiveIn

\* The front of `blocked` leaves it.
LEMMA UnblockPlaced ==
  ASSUME NEW c, NEW q, NEW b, Placed(c, q, b), b # <<>>
  PROVE  /\ Placed(c, q, Tail(b))
         /\ LiveIn(c, q, Tail(b)) = LiveIn(c, q, b) \ {Head(b)}
         /\ Head(b) \in LiveIn(c, q, b) /\ Head(b) \in AppIds /\ Head(b) \in Range(b)
         /\ Head(b) \notin Range(Tail(b)) /\ Range(Tail(b)) = Range(b) \ {Head(b)}
<1>1. /\ Head(b) \in AppIds /\ Head(b) \in Range(b) /\ Tail(b) \in Seq(AppIds)
      /\ Range(Tail(b)) = Range(b) \ {Head(b)} /\ IsInjective(Tail(b))
  BY TailPlace DEF Placed
<1>2. Range(q.Idle) = {IdleId} \ {c} /\ AppIds \subseteq Ids \ {IdleId}
  BY LiveIds
<1>3. Head(b) \notin Range(q.Normal) /\ Head(b) # c /\ Head(b) \notin Range(q.Idle)
  BY <1>1, <1>2 DEF Placed
<1>4. Placed(c, q, Tail(b))
  BY <1>1 DEF Placed
<1>5. LiveIn(c, q, Tail(b)) = LiveIn(c, q, b) \ {Head(b)}
  BY <1>1, <1>3 DEF LiveIn
<1>. QED BY <1>1, <1>4, <1>5 DEF LiveIn

\* The running process leaves the CPU: it is dropped, ...
LEMMA LeavePlaced ==
  ASSUME NEW p \in Ids \ {IdleId}, NEW q, NEW b, Placed(p, q, b)
  PROVE  /\ Placed(None, q, b) /\ LiveIn(None, q, b) = LiveIn(p, q, b) \ {p}
<1>1. /\ Range(q.Normal) \subseteq Ids \ {IdleId} /\ Range(b) \subseteq AppIds
      /\ AppIds \subseteq Ids \ {IdleId} /\ IdleId \in Ids
      /\ Range(q.Idle) = {IdleId} \ {p}
  BY LiveIds
<1>2. p \notin Range(q.Normal) \cup Range(b) /\ q.Idle = <<IdleId>> /\ None # IdleId
  BY <1>1 DEF Placed
<1>3. Placed(None, q, b)
  BY <1>1, <1>2 DEF Placed
<1>. QED BY <1>1, <1>2, <1>3 DEF LiveIn

\* ... or goes to the back of its run queue (preempt_current), ...
LEMMA PreemptPlaced ==
  ASSUME NEW p \in Ids, NEW q, NEW b, Placed(p, q, b)
  PROVE  /\ Placed(None, AddToQueue(q, p), b)
         /\ LiveIn(None, AddToQueue(q, p), b) = LiveIn(p, q, b)
<1>1. CASE p # IdleId
  <2>1. Placed(None, q, b) /\ LiveIn(None, q, b) = LiveIn(p, q, b) \ {p}
    BY <1>1, LeavePlaced
  <2>2. p \in LiveIn(p, q, b)
    BY DEF LiveIn
  <2>3. p \in Ids \ {IdleId} /\ p \notin LiveIn(None, q, b)
    BY <2>1, <1>1, Zenon
  <2>4. /\ Placed(None, AddToQueue(q, p), b)
        /\ LiveIn(None, AddToQueue(q, p), b) = LiveIn(None, q, b) \cup {p}
    BY <2>1, <2>3, AddPlaced
  <2>5. (LiveIn(p, q, b) \ {p}) \cup {p} = LiveIn(p, q, b)
    BY <2>2, Zenon
  <2>. QED BY <2>1, <2>4, <2>5, Zenon
<1>2. CASE p = IdleId
  <2>1. q \in RunQueues /\ q.Idle = <<>> /\ b \in Seq(AppIds)
    BY <1>2 DEF Placed
  <2>2. AddToQueue(q, p) = [q EXCEPT !["Idle"] = Append(@, IdleId)]
    BY <1>2 DEF AddToQueue, Priority
  <2>3. Append(<<>>, IdleId) = <<IdleId>> /\ <<IdleId>> \in Seq({IdleId})
    OBVIOUS
  <2>4. AddToQueue(q, p) = [q EXCEPT !["Idle"] = <<IdleId>>]
    BY <2>1, <2>2, <2>3, Zenon DEF RunQueues
  <2>5. /\ AddToQueue(q, p) \in RunQueues /\ AddToQueue(q, p).Normal = q.Normal
        /\ AddToQueue(q, p).Idle = <<IdleId>>
    BY <2>1, <2>3, <2>4, Zenon DEF RunQueues
  <2>6. /\ None \notin Range(q.Normal) /\ None \notin Range(b) /\ None # IdleId
        /\ Range(q.Idle) = {} /\ Range(<<IdleId>>) = {IdleId}
    BY <1>2, LiveIds, IdleRange
  <2>7. Placed(None, AddToQueue(q, p), b)
    BY <2>5, <2>6 DEF Placed
  <2>. QED BY <2>5, <2>6, <2>7, <1>2 DEF LiveIn
<1>. QED BY <1>1, <1>2

\* ... or goes to the back of `blocked` (block_current).
LEMMA BlockPlaced ==
  ASSUME NEW p \in AppIds, NEW q, NEW b, Placed(p, q, b)
  PROVE  /\ Placed(None, q, Append(b, p))
         /\ LiveIn(None, q, Append(b, p)) = LiveIn(p, q, b)
<1>1. p \in Ids \ {IdleId} /\ None \notin LiveIn(p, q, b) /\ None # p
  BY LiveIds
<1>2. Placed(None, q, b) /\ LiveIn(None, q, b) = LiveIn(p, q, b) \ {p}
  BY <1>1, LeavePlaced
<1>3. p \notin Range(b) /\ p \notin Range(q.Normal) /\ IsInjective(b) /\ b \in Seq(AppIds)
  BY DEF Placed
<1>4. /\ Append(b, p) \in Seq(AppIds) /\ IsInjective(Append(b, p))
      /\ Range(Append(b, p)) = Range(b) \cup {p}
  BY <1>3, AppendPlace
<1>5. Placed(None, q, Append(b, p))
  BY <1>1, <1>2, <1>3, <1>4 DEF Placed
<1>. QED BY <1>1, <1>2, <1>3, <1>4, <1>5 DEF LiveIn

\* The second half of schedule_next: it loses no process, puts none in two places
\* and resumes one that has a saved context, which is then the only one without.
LEMMA Dispatched ==
  ASSUME NEW q, NEW b, NEW contexts \in SUBSET Ids, Placed(current, q, b),
         LiveIn(current, q, b) \subseteq contexts, Dispatch(q, contexts), blocked' = b
  PROVE  /\ Placed(current', queue', blocked')
         /\ Live' = LiveIn(current, q, b)
         /\ current' \in Ids /\ cr3' = current' /\ mode' = "user"
         /\ context' \in SUBSET Ids /\ Live' \ context' = {current'}
<1>1. /\ q \in RunQueues /\ q.Normal \in Seq(Ids \ {IdleId}) /\ b \in Seq(AppIds)
      /\ current \in Ids \cup {None} /\ IsInjective(q.Normal)
      /\ q.Idle = IF current = IdleId THEN <<>> ELSE <<IdleId>>
  BY DEF Placed, RunQueues
<1>2. /\ cr3' = current' /\ mode' = "user" /\ context' = contexts \ {current'}
  BY DEF Dispatch
<1>3. /\ Placed(current', queue', blocked') /\ LiveIn(current', queue', b) = LiveIn(current, q, b)
      /\ current' \in LiveIn(current, q, b)
  <2>1. CASE current # None
    <3>1. current' = current /\ queue' = q
      BY <2>1 DEF Dispatch
    <3>. QED BY <3>1, <2>1 DEF LiveIn
  <2>2. CASE current = None /\ q.Normal # <<>>
    <3>1. current' = Head(q.Normal) /\ queue' = [q EXCEPT !["Normal"] = Tail(@)]
      BY <2>2 DEF Dispatch, FirstPriority
    <3>2. /\ Head(q.Normal) \in Ids \ {IdleId} /\ Head(q.Normal) \in Range(q.Normal)
          /\ Tail(q.Normal) \in Seq(Ids \ {IdleId}) /\ IsInjective(Tail(q.Normal))
          /\ Range(Tail(q.Normal)) = Range(q.Normal) \ {Head(q.Normal)}
      BY <2>2, <1>1, TailPlace
    <3>3. PICK n \in Seq(Ids \ {IdleId}) : n = Tail(q.Normal)
      BY <3>2, Zenon
    <3>4. queue' = [q EXCEPT !["Normal"] = n]
      BY <3>1, <3>3, <1>1 DEF RunQueues
    <3>5. queue' \in RunQueues /\ queue'.Normal = Tail(q.Normal) /\ queue'.Idle = q.Idle
      BY <3>3, <3>4, <1>1, Zenon DEF RunQueues
    <3>6. IdleId # None /\ Head(q.Normal) # None
      BY <3>2, LiveIds DEF Placed
    <3>7. Placed(current', queue', b)
      BY <3>1, <3>2, <3>5, <3>6, <2>2, <1>1 DEF Placed
    <3>8. LiveIn(current', queue', b) = LiveIn(current, q, b)
      BY <3>1, <3>2, <3>5, <3>6, <2>2 DEF LiveIn
    <3>9. current' \in LiveIn(current, q, b)
      BY <3>1, <3>2 DEF LiveIn
    <3>. QED BY <3>7, <3>8, <3>9
  <2>3. CASE current = None /\ q.Normal = <<>>
    <3>1. q.Idle = <<IdleId>> /\ IdleId # None /\ IdleId \in Ids
      BY <2>3, <1>1, LiveIds
    <3>2. current' = Head(q["Idle"]) /\ queue' = [q EXCEPT !["Idle"] = Tail(@)]
      BY <2>3 DEF Dispatch, FirstPriority
    <3>3. Head(<<IdleId>>) = IdleId /\ Tail(<<IdleId>>) = <<>> /\ <<>> \in Seq({IdleId})
      OBVIOUS
    <3>4. current' = IdleId /\ queue' = [q EXCEPT !["Idle"] = <<>>]
      BY <3>1, <3>2, <3>3, <1>1, Zenon DEF RunQueues
    <3>5. queue' \in RunQueues /\ queue'.Normal = q.Normal /\ queue'.Idle = <<>>
      BY <3>3, <3>4, <1>1, Zenon DEF RunQueues
    <3>6. Range(<<>>) = {} /\ Range(<<IdleId>>) = {IdleId} /\ IdleId \notin AppIds
      BY IdleRange DEF IdleId, AppIds, ShellId
    <3>7. Range(b) \subseteq AppIds
      BY LiveIds
    <3>8. Placed(current', queue', b)
      BY <3>1, <3>4, <3>5, <3>6, <3>7, <2>3 DEF Placed
    <3>9. LiveIn(current', queue', b) = LiveIn(current, q, b) /\ current' \in LiveIn(current, q, b)
      BY <3>1, <3>4, <3>5, <3>6, <2>3 DEF LiveIn
    <3>. QED BY <3>8, <3>9
  <2>. QED BY <2>1, <2>2, <2>3
<1>4. Live' = LiveIn(current', queue', b)
  BY DEF Live, LiveIn
<1>5. LiveIn(current, q, b) \subseteq Ids
  BY LiveIds
<1>. QED BY <1>2, <1>3, <1>4, <1>5

-----------------------------------------------------------------------------
(* The rings of the scheduler and those of the protocol.                    *)

\* Rings of which only the types of the fields are known.
RingsOf(Element) ==
  [inner : [Slots -> Element \cup {None}], push_cursor : Slots, pop_cursor : Slots]

\* SizedQueue::push and SizedQueue::pop keep the types of a ring's fields.
LEMMA RingTypes ==
  ASSUME NEW Element, NEW q \in RingsOf(Element), NEW e \in Element
  PROVE  Push(q, e) \in RingsOf(Element) /\ Pop(q) \in RingsOf(Element)
<1>1. PICK a \in Slots, b \in Slots, f \in [Slots -> Element \cup {None}] :
        q.push_cursor = a /\ q.pop_cursor = b /\ q.inner = f
  BY DEF RingsOf
<1>2. Advance(a) \in Slots /\ Advance(b) \in Slots
  BY Cursor
<1>3. [f EXCEPT ![a] = e] \in [Slots -> Element \cup {None}]
  OBVIOUS
<1>4. [f EXCEPT ![b] = None] \in [Slots -> Element \cup {None}]
  OBVIOUS
<1>5. Push(q, e) \in RingsOf(Element)
  BY <1>1, <1>2, <1>3 DEF Push, RingsOf
<1>6. Pop(q) \in RingsOf(Element)
  BY <1>1, <1>2, <1>4 DEF Pop, RingsOf
<1>. QED BY <1>5, <1>6

\* ShellQueue::input and the protocol's ring of process ids move in step.
LEMMA RequestersCommute ==
  ASSUME NEW q \in RingsOf(Requests), NEW e \in Requests
  PROVE  /\ Requesters(Push(q, e)) = Push(Requesters(q), e.process_id)
         /\ Requesters(Pop(q)) = Pop(Requesters(q))
         /\ Front(Requesters(q)) = IF Front(q) = None THEN None ELSE Front(q).process_id
         /\ Front(Requesters(q)) # None <=> Front(q) # None
<1>. DEFINE Id(r) == IF r = None THEN None ELSE r.process_id
<1>1. PICK a \in Slots, b \in Slots, f \in [Slots -> Requests \cup {None}] :
        q = [inner |-> f, push_cursor |-> a, pop_cursor |-> b]
  BY DEF RingsOf
<1>2. ASSUME NEW g, NEW x, NEW y
      PROVE  Requesters([inner |-> g, push_cursor |-> x, pop_cursor |-> y])
               = [inner |-> [i \in Slots |-> Id(g[i])], push_cursor |-> x, pop_cursor |-> y]
  BY DEF Requesters
<1>3. e # None /\ \A r \in Requests \cup {None} : Id(r) # None <=> r # None
  <2>1. None \notin AppIds
    BY DEF AppIds, Ids, IdleId, ShellId
  <2>. QED BY <2>1 DEF Requests
<1>4. Requesters(q) = [inner |-> [i \in Slots |-> Id(f[i])], push_cursor |-> a, pop_cursor |-> b]
  BY <1>1, <1>2
<1>5. Front(Requesters(q)) = Id(f[b]) /\ Front(q) = f[b]
  BY <1>1, <1>4 DEF Front
<1>6. Requesters(Push(q, e)) = Push(Requesters(q), e.process_id)
  <2>1. Push(q, e) = [inner |-> [f EXCEPT ![a] = e], push_cursor |-> Advance(a), pop_cursor |-> b]
    BY <1>1 DEF Push
  <2>2. [i \in Slots |-> Id([f EXCEPT ![a] = e][i])]
          = [[i \in Slots |-> Id(f[i])] EXCEPT ![a] = e.process_id]
    BY <1>3, Zenon
  <2>. QED BY <2>1, <2>2, <1>2, <1>4 DEF Push
<1>7. Requesters(Pop(q)) = Pop(Requesters(q))
  <2>1. CASE f[b] = None
    BY <2>1, <1>5 DEF Pop
  <2>2. CASE f[b] # None
    <3>1. Pop(q) = [inner |-> [f EXCEPT ![b] = None], push_cursor |-> a, pop_cursor |-> Advance(b)]
      BY <2>2, <1>1, <1>5 DEF Pop
    <3>2. [i \in Slots |-> Id([f EXCEPT ![b] = None][i])]
            = [[i \in Slots |-> Id(f[i])] EXCEPT ![b] = None]
      BY Zenon
    <3>3. Front(Requesters(q)) # None
      BY <2>2, <1>3, <1>5
    <3>. QED BY <3>1, <3>2, <3>3, <1>2, <1>4 DEF Pop
  <2>. QED BY <2>1, <2>2
<1>. QED BY <1>3, <1>5, <1>6, <1>7

\* A request with or without its address occupies the same slot.
LEMMA RequestersTyped ==
  ASSUME NEW q \in RingsOf(Requests)
  PROVE  /\ Count(Requesters(q)) = Count(q)
         /\ \A i \in Slots : /\ Requesters(q).inner[i] # None <=> q.inner[i] # None
                             /\ q.inner[i] # None
                                  => Requesters(q).inner[i] = q.inner[i].process_id
         /\ Requesters(q) \in Queues(AppIds) => q \in Queues(Requests)
<1>1. PICK a \in Slots, b \in Slots, f \in [Slots -> Requests \cup {None}] :
        q = [inner |-> f, push_cursor |-> a, pop_cursor |-> b]
  BY DEF RingsOf
<1>2. /\ Requesters(q).push_cursor = a /\ Requesters(q).pop_cursor = b
      /\ q.push_cursor = a /\ q.pop_cursor = b /\ q.inner = f
      /\ Requesters(q).inner = [i \in Slots |-> IF f[i] = None THEN None ELSE f[i].process_id]
  BY <1>1 DEF Requesters
<1>3. \A r \in Requests : r.process_id # None
  <2>1. None \notin AppIds
    BY DEF AppIds, Ids, IdleId, ShellId
  <2>. QED BY <2>1 DEF Requests
<1>4. \A i \in Slots : /\ Requesters(q).inner[i] # None <=> q.inner[i] # None
                       /\ q.inner[i] # None
                            => Requesters(q).inner[i] = q.inner[i].process_id
  BY <1>2, <1>3
<1>5. Count(Requesters(q)) = Count(q)
  <2>1. Front(Requesters(q)) = None <=> Front(q) = None
    BY <1>2, <1>4 DEF Front
  <2>. QED BY <2>1, <1>2 DEF Count
<1>6. ASSUME Requesters(q) \in Queues(AppIds) PROVE q \in Queues(Requests)
  <2>1. ASSUME NEW i \in Slots PROVE q.inner[Wrap(q.pop_cursor + i)] # None <=> i < Count(q)
    <3>1. Wrap(b + i) \in Slots
      BY Cursor
    <3>2. Requesters(q).inner[Wrap(b + i)] # None <=> i < Count(Requesters(q))
      BY <1>2, <1>6 DEF Queues
    <3>. QED BY <3>1, <3>2, <1>2, <1>4, <1>5
  <2>. QED BY <2>1 DEF Queues, RingsOf
<1>. QED BY <1>4, <1>5, <1>6

\* ShellQueue::output and the protocol's ring of messages move in step.
LEMMA UnaddressedCommute ==
  ASSUME NEW q \in RingsOf(Messages), NEW e \in Messages
  PROVE  /\ Unaddressed(Push(q, e))
              = Push(Unaddressed(q), [kind |-> e.kind, process_id |-> e.process_id])
         /\ Unaddressed(Pop(q)) = Pop(Unaddressed(q))
         /\ Front(q) # None
              => Front(Unaddressed(q))
                   = [kind |-> Front(q).kind, process_id |-> Front(q).process_id]
         /\ Front(Unaddressed(q)) # None <=> Front(q) # None
<1>. DEFINE Part(m) == IF m = None THEN None ELSE [kind |-> m.kind, process_id |-> m.process_id]
<1>1. PICK a \in Slots, b \in Slots, f \in [Slots -> Messages \cup {None}] :
        q = [inner |-> f, push_cursor |-> a, pop_cursor |-> b]
  BY DEF RingsOf
<1>2. ASSUME NEW g, NEW x, NEW y
      PROVE  Unaddressed([inner |-> g, push_cursor |-> x, pop_cursor |-> y])
               = [inner |-> [i \in Slots |-> Part(g[i])], push_cursor |-> x, pop_cursor |-> y]
  BY DEF Unaddressed
<1>3. e # None /\ \A m \in Messages \cup {None} : Part(m) # None <=> m # None
  <2>1. \A m \in Messages : [kind |-> m.kind, process_id |-> m.process_id]
                              \in [kind : Kinds, process_id : AppIds \cup {0}]
    BY DEF Messages
  <2>. QED BY <2>1
<1>. HIDE DEF Part
<1>4. Unaddressed(q) = [inner |-> [i \in Slots |-> Part(f[i])], push_cursor |-> a, pop_cursor |-> b]
  BY <1>1, <1>2
<1>5. Front(Unaddressed(q)) = Part(f[b]) /\ Front(q) = f[b]
  BY <1>1, <1>4 DEF Front
<1>6. Unaddressed(Push(q, e)) = Push(Unaddressed(q), Part(e))
  <2>1. Push(q, e) = [inner |-> [f EXCEPT ![a] = e], push_cursor |-> Advance(a), pop_cursor |-> b]
    BY <1>1 DEF Push
  <2>2. [i \in Slots |-> Part([f EXCEPT ![a] = e][i])]
          = [[i \in Slots |-> Part(f[i])] EXCEPT ![a] = Part(e)]
    BY <1>3, Zenon
  <2>. QED BY <2>1, <2>2, <1>2, <1>4 DEF Push
<1>7. Unaddressed(Pop(q)) = Pop(Unaddressed(q))
  <2>1. CASE f[b] = None
    <3>1. Front(Unaddressed(q)) = None
      BY <2>1, <1>3, <1>5
    <3>. QED BY <3>1, <2>1, <1>5, Zenon DEF Pop
  <2>2. CASE f[b] # None
    <3>1. Pop(q) = [inner |-> [f EXCEPT ![b] = None], push_cursor |-> a, pop_cursor |-> Advance(b)]
      BY <2>2, <1>1, <1>5 DEF Pop
    <3>2. [i \in Slots |-> Part([f EXCEPT ![b] = None][i])]
            = [[i \in Slots |-> Part(f[i])] EXCEPT ![b] = None]
      BY Zenon DEF Part
    <3>3. Front(Unaddressed(q)) # None
      BY <2>2, <1>3, <1>5
    <3>. QED BY <3>1, <3>2, <3>3, <1>2, <1>4 DEF Pop
  <2>. QED BY <2>1, <2>2
<1>8. Part(e) = [kind |-> e.kind, process_id |-> e.process_id]
  BY <1>3 DEF Part
<1>9. f[b] # None => Part(f[b]) = [kind |-> f[b].kind, process_id |-> f[b].process_id]
  BY DEF Part
<1>. QED BY <1>3, <1>5, <1>6, <1>7, <1>8, <1>9

\* A message with or without its address occupies the same slot.
LEMMA UnaddressedTyped ==
  ASSUME NEW q \in RingsOf(Messages)
  PROVE  /\ Count(Unaddressed(q)) = Count(q)
         /\ \A i \in Slots : /\ Unaddressed(q).inner[i] # None <=> q.inner[i] # None
                             /\ q.inner[i] # None
                                  => Unaddressed(q).inner[i]
                                       = [kind |-> q.inner[i].kind,
                                          process_id |-> q.inner[i].process_id]
         /\ Unaddressed(q) \in Queues([kind : Kinds, process_id : AppIds \cup {0}])
              => q \in Queues(Messages)
<1>1. PICK a \in Slots, b \in Slots, f \in [Slots -> Messages \cup {None}] :
        q = [inner |-> f, push_cursor |-> a, pop_cursor |-> b]
  BY DEF RingsOf
<1>2. /\ Unaddressed(q).push_cursor = a /\ Unaddressed(q).pop_cursor = b
      /\ q.push_cursor = a /\ q.pop_cursor = b /\ q.inner = f
      /\ Unaddressed(q).inner
           = [i \in Slots |-> IF f[i] = None THEN None
                              ELSE [kind |-> f[i].kind, process_id |-> f[i].process_id]]
  BY <1>1 DEF Unaddressed
<1>3. \A m \in Messages : [kind |-> m.kind, process_id |-> m.process_id] # None
  <2>1. \A m \in Messages : [kind |-> m.kind, process_id |-> m.process_id]
                              \in [kind : Kinds, process_id : AppIds \cup {0}]
    BY DEF Messages
  <2>. QED BY <2>1
<1>4. \A i \in Slots : /\ Unaddressed(q).inner[i] # None <=> q.inner[i] # None
                       /\ q.inner[i] # None
                            => Unaddressed(q).inner[i]
                                 = [kind |-> q.inner[i].kind,
                                    process_id |-> q.inner[i].process_id]
  BY <1>2, <1>3
<1>5. Count(Unaddressed(q)) = Count(q)
  <2>1. Front(Unaddressed(q)) = None <=> Front(q) = None
    BY <1>2, <1>4 DEF Front
  <2>. QED BY <2>1, <1>2 DEF Count
<1>6. ASSUME Unaddressed(q) \in Queues([kind : Kinds, process_id : AppIds \cup {0}])
      PROVE  q \in Queues(Messages)
  <2>1. ASSUME NEW i \in Slots PROVE q.inner[Wrap(q.pop_cursor + i)] # None <=> i < Count(q)
    <3>1. Wrap(b + i) \in Slots
      BY Cursor
    <3>2. Unaddressed(q).inner[Wrap(b + i)] # None <=> i < Count(Unaddressed(q))
      BY <1>2, <1>6 DEF Queues
    <3>. QED BY <3>1, <3>2, <1>2, <1>4, <1>5
  <2>. QED BY <2>1 DEF Queues, RingsOf
<1>. QED BY <1>4, <1>5, <1>6

-----------------------------------------------------------------------------
(* The state of the scheduler and the state of the protocol.                *)

\* SchedulerInv without the conjunct of ShellProtocol, and without what follows
\* from that about the rings.
LocalTypes ==
  /\ mode \in {"user", "block", "schedule", "panic"}
  /\ context \in SUBSET Ids
  /\ cr3 \in Ids \cup {None}
  /\ mapped \in [Ids -> SUBSET Modules]
  /\ next_id \in ShellId + 1 .. ShellId + 1 + NumApps
  /\ input \in RingsOf(Requests)
  /\ output \in RingsOf(Messages)
  /\ events \in Seq({"key", "quit"})
  /\ lock \in [{"input", "output", "events"} -> Ids \cup {None}]
  /\ pc \in [Ids \ {IdleId} -> Points]
  /\ hand \in Requests \cup {None}
  /\ unsent \in 0 .. NumApps
  /\ polled \in 0 .. MaxEvents

LocalInv ==
  /\ LocalTypes
  /\ Placed(current, queue, blocked) /\ \A p \in Live : p < next_id
  /\ ContextNoneIffRunning /\ ModeInv /\ ShellInv /\ AddressInv

\* `current`, the run queues and `blocked` again, as arguments.
LEMMA LiveIsLiveIn == Live = LiveIn(current, queue, blocked)
BY DEF Live, LiveIn

\* The invariant holds the local one, ...
LEMMA InvLocal == ASSUME SchedulerInv PROVE LocalInv
<1>1. input \in RingsOf(Requests) /\ output \in RingsOf(Messages)
  BY DEF SchedulerInv, TypeOK, Queues, RingsOf
<1>2. LocalTypes
  BY <1>1 DEF SchedulerInv, TypeOK, LocalTypes
<1>3. Placed(current, queue, blocked) /\ \A p \in Live : p < next_id
  BY DEF SchedulerInv, TypeOK, OnePlace, Placed, RunQueues
<1>. QED BY <1>2, <1>3 DEF SchedulerInv, LocalInv

\* The rings of the protocol are rings of SizedQueue.
LEMMA ProtocolRings ==
  ASSUME Protocol!ProtocolInv
  PROVE  /\ Requesters(input) \in Queues(AppIds)
         /\ Unaddressed(output) \in Queues([kind : Kinds, process_id : AppIds \cup {0}])
<1>1. Requesters(input) \in Queues(AppIds)
  BY DEF Protocol!ProtocolInv, Protocol!TypeOK, Protocol!Queues, Queues, Protocol!Slots, Slots,
         Protocol!AppIds, AppIds, Protocol!ShellId, ShellId, Protocol!Wrap, Wrap,
         Protocol!Count, Count, Protocol!Front, Front
<1>2. Unaddressed(output) \in Queues([kind : Kinds, process_id : AppIds \cup {0}])
  BY DEF Protocol!ProtocolInv, Protocol!TypeOK, Protocol!Queues, Queues, Protocol!Slots, Slots,
         Protocol!AppIds, AppIds, Protocol!ShellId, ShellId, Protocol!Wrap, Wrap,
         Protocol!Count, Count, Protocol!Front, Front, Protocol!Messages, Kinds
<1>. QED BY <1>1, <1>2

\* ... and follows from it and the invariant of the protocol.
LEMMA LocalProtocolInv == ASSUME LocalInv, Protocol!ProtocolInv PROVE SchedulerInv
<1>3. input \in Queues(Requests) /\ output \in Queues(Messages)
  BY ProtocolRings, RequestersTyped, UnaddressedTyped, Zenon DEF LocalInv, LocalTypes
<1>4. TypeOK
  BY <1>3 DEF TypeOK, LocalInv, LocalTypes, Placed, RunQueues
<1>5. OnePlace
  BY DEF OnePlace, LocalInv, Placed
<1>. QED BY <1>4, <1>5 DEF LocalInv, SchedulerInv

\* The blocked processes whose requests are on their way: all of them, or all but
\* the one for which block_current waits.
LEMMA RequestedIs ==
  ASSUME SchedulerInv
  PROVE  /\ Requested \in Seq(AppIds) /\ Range(Requested) \subseteq Range(blocked)
         /\ mode # "block" => Requested = blocked
         /\ mode = "block" => LET p == blocked[Len(blocked)]
                              IN  /\ p \in AppIds /\ p \in Range(blocked)
                                  /\ Range(Requested) = Range(blocked) \ {p}
                                  /\ blocked = Append(Requested, p)
<1>1. blocked \in Seq(AppIds) /\ IsInjective(blocked) /\ (mode = "block" => blocked # <<>>)
  BY DEF SchedulerInv, TypeOK, OnePlace, ModeInv
<1>2. CASE mode # "block"
  BY <1>1, <1>2, SMTT(30) DEF Requested
<1>3. CASE mode = "block"
  <2>. DEFINE n == Len(blocked)
  <2>1. n \in Nat /\ n > 0 /\ DOMAIN blocked = 1 .. n /\ blocked[n] \in AppIds
    BY <1>1, <1>3
  <2>2. Requested = SubSeq(blocked, 1, n - 1)
    BY <1>3 DEF Requested
  <2>3. /\ Requested \in Seq(AppIds) /\ Len(Requested) = n - 1
        /\ DOMAIN Requested = 1 .. n - 1
        /\ \A i \in 1 .. n - 1 : Requested[i] = blocked[i]
    BY <2>1, <2>2, <1>1, FrontPlaces
  <2>. HIDE DEF n
  <2>4. \A i, j \in 1 .. n : blocked[i] = blocked[j] => i = j
    BY <2>1, <1>1 DEF IsInjective
  <2>5. \A i \in 1 .. n : i = n \/ i \in 1 .. n - 1
    BY <2>1
  <2>6. \A i \in 1 .. n - 1 : i \in 1 .. n /\ i # n
    BY <2>1
  <2>7. blocked[n] \in Range(blocked)
    BY <2>1 DEF Range
  <2>8. Range(Requested) \subseteq Range(blocked) \ {blocked[n]}
    BY <2>1, <2>3, <2>4, <2>6 DEF Range
  <2>9. ASSUME NEW x \in Range(blocked) \ {blocked[n]} PROVE x \in Range(Requested)
    <3>1. PICK i \in 1 .. n : blocked[i] = x
      BY <2>1 DEF Range
    <3>2. i \in 1 .. n - 1
      BY <3>1, <2>5
    <3>. QED BY <3>1, <3>2, <2>3 DEF Range
  <2>10. blocked = Append(Requested, blocked[n])
    <3>1. /\ Append(Requested, blocked[n]) \in Seq(AppIds)
          /\ Len(Append(Requested, blocked[n])) = (n - 1) + 1
          /\ Append(Requested, blocked[n])[(n - 1) + 1] = blocked[n]
          /\ \A i \in 1 .. n - 1 : Append(Requested, blocked[n])[i] = blocked[i]
      BY <2>1, <2>3, AppendPlace
    <3>2. (n - 1) + 1 = n /\ Len(blocked) = n
      BY <2>1 DEF n
    <3>3. \A i \in 1 .. n : Append(Requested, blocked[n])[i] = blocked[i]
      BY <3>1, <3>2, <2>5
    <3>. QED BY <3>1, <3>2, <3>3, <1>1, SamePlaces
  <2>. QED BY <2>1, <2>3, <2>7, <2>8, <2>9, <2>10, <1>3, Zenon DEF n
<1>. QED BY <1>2, <1>3

\* The invariant of the protocol in the scheduler's own terms.
LEMMA Order ==
  ASSUME SchedulerInv
  PROVE  LET in == Requesters(input)
             out == Unaddressed(output)
             starts == (NumApps - unsent) - (next_id - 2)
             answers == Count(out) - starts
             held == IF hand = None THEN 0 ELSE 1
         IN  /\ in \in Queues(AppIds) /\ out \in Queues([kind : Kinds, process_id : AppIds \cup {0}])
             /\ starts \in 0 .. Count(out)
             /\ Len(Requested) = answers + held + Count(in)
             /\ \A i \in 1 .. starts : Contents(out)[i].kind = "StartProcess"
             /\ \A i \in 1 .. answers : /\ Contents(out)[starts + i].kind # "StartProcess"
                                        /\ Contents(out)[starts + i].process_id = Requested[i]
             /\ hand # None => Requested[answers + 1] = hand.process_id
             /\ \A i \in 1 .. Count(in) : Contents(in)[i] = Requested[answers + held + i]
<1>3. \A q : Protocol!Count(q) = Count(q) /\ Protocol!Contents(q) = Contents(q)
  BY DEF Protocol!Count, Count, Protocol!Front, Front, Protocol!Contents, Contents,
         Protocol!Wrap, Wrap
<1>4. Protocol!RequestOrder
  BY DEF SchedulerInv, Protocol!ProtocolInv
<1>5. (IF hand = None THEN None ELSE hand.process_id) # None <=> hand # None
  <2>1. hand # None => hand.process_id \in AppIds
    BY DEF SchedulerInv, TypeOK, Requests
  <2>2. None \notin AppIds
    BY DEF AppIds, Ids, IdleId, ShellId
  <2>. QED BY <2>1, <2>2
<1>6. Protocol!StartsQueued = (NumApps - unsent) - (next_id - 2)
  BY DEF Protocol!StartsQueued, Protocol!ShellId
<1>7. Protocol!AnswersQueued = Count(Unaddressed(output)) - Protocol!StartsQueued
  BY <1>3, Zenon DEF Protocol!AnswersQueued
<1>8. Protocol!InHand = IF hand = None THEN 0 ELSE 1
  BY <1>5, Zenon DEF Protocol!InHand
<1>9. /\ Protocol!StartsQueued \in 0 .. Count(Unaddressed(output))
      /\ Len(Requested) = Protocol!AnswersQueued + Protocol!InHand + Count(Requesters(input))
      /\ \A i \in 1 .. Protocol!StartsQueued : Contents(Unaddressed(output))[i].kind = "StartProcess"
  BY <1>3, <1>4, Zenon DEF Protocol!RequestOrder
<1>10. \A i \in 1 .. Protocol!AnswersQueued :
         /\ Contents(Unaddressed(output))[Protocol!StartsQueued + i].kind # "StartProcess"
         /\ Contents(Unaddressed(output))[Protocol!StartsQueued + i].process_id = Requested[i]
  BY <1>3, <1>4, Zenon DEF Protocol!RequestOrder
<1>11. hand # None => Requested[Protocol!AnswersQueued + 1] = hand.process_id
  BY <1>4, <1>5, Zenon DEF Protocol!RequestOrder
<1>12. \A i \in 1 .. Count(Requesters(input)) :
         Contents(Requesters(input))[i] = Requested[Protocol!AnswersQueued + Protocol!InHand + i]
  BY <1>3, <1>4, Zenon DEF Protocol!RequestOrder
<1>13. /\ Requesters(input) \in Queues(AppIds)
       /\ Unaddressed(output) \in Queues([kind : Kinds, process_id : AppIds \cup {0}])
  BY ProtocolRings, Zenon DEF SchedulerInv
<1>. QED BY <1>6, <1>7, <1>8, <1>9, <1>10, <1>11, <1>12, <1>13, Zenon

\* Where the answers, the request in hand and the queued requests are in what
\* has been requested.
LEMMA Places ==
  ASSUME NEW a \in Nat, NEW h \in 0 .. 1, NEW c \in Nat, NEW n \in Nat, n = a + h + c
  PROVE  /\ \A j \in 1 .. c : a + h + j \in 1 .. n
         /\ h = 1 => a + 1 \in 1 .. n
         /\ \A j \in 1 .. a : j \in 1 .. n
OBVIOUS

\* Every request that is on its way, and every answer, is about a blocked process.
LEMMA Owners ==
  ASSUME SchedulerInv
  PROVE  /\ \A i \in Slots : input.inner[i] # None => input.inner[i].process_id \in Range(blocked)
         /\ hand # None => hand.process_id \in Range(blocked)
         /\ \A i \in Slots :
              output.inner[i] # None /\ output.inner[i].kind # "StartProcess"
                => output.inner[i].process_id \in Range(blocked)
<1>. DEFINE in == Requesters(input)
            out == Unaddressed(output)
            starts == (NumApps - unsent) - (next_id - 2)
            answers == Count(out) - starts
            held == IF hand = None THEN 0 ELSE 1
<1>1. /\ Requested \in Seq(AppIds) /\ Len(Requested) \in Nat
      /\ \A i \in 1 .. Len(Requested) : Requested[i] \in Range(blocked)
  <2>1. Requested \in Seq(AppIds) /\ Range(Requested) \subseteq Range(blocked)
    BY RequestedIs
  <2>2. DOMAIN Requested = 1 .. Len(Requested) /\ Len(Requested) \in Nat
    BY <2>1
  <2>. QED BY <2>1, <2>2, Zenon DEF Range
<1>2. /\ in \in Queues(AppIds) /\ out \in Queues([kind : Kinds, process_id : AppIds \cup {0}])
      /\ starts \in 0 .. Count(out) /\ Len(Requested) = answers + held + Count(in)
      /\ \A i \in 1 .. starts : Contents(out)[i].kind = "StartProcess"
      /\ \A i \in 1 .. answers : Contents(out)[starts + i].process_id = Requested[i]
      /\ hand # None => Requested[answers + 1] = hand.process_id
      /\ \A i \in 1 .. Count(in) : Contents(in)[i] = Requested[answers + held + i]
  BY Order, Zenon
<1>3. Count(out) \in Nat /\ Count(in) \in Nat
  <2>1. None \notin AppIds
    BY DEF AppIds, Ids, IdleId, ShellId
  <2>2. Count(in) \in 0 .. SIZE
    BY <2>1, <1>2, RingEnds
  <2>3. Count(out) \in 0 .. SIZE
    BY <1>2, RingEnds, Zenon
  <2>. QED BY <2>2, <2>3
<1>4. /\ \A i \in Slots : input.inner[i] # None
           => in.inner[i] # None /\ in.inner[i] = input.inner[i].process_id
      /\ \A i \in Slots : output.inner[i] # None
           => /\ out.inner[i] # None /\ out.inner[i].kind = output.inner[i].kind
              /\ out.inner[i].process_id = output.inner[i].process_id
  <2>1. input \in RingsOf(Requests) /\ output \in RingsOf(Messages)
    BY InvLocal DEF LocalInv, LocalTypes
  <2>2. \A i \in Slots : input.inner[i] # None
           => in.inner[i] # None /\ in.inner[i] = input.inner[i].process_id
    BY <2>1, RequestersTyped
  <2>3. \A i \in Slots : output.inner[i] # None
           => /\ out.inner[i] # None
              /\ out.inner[i] = [kind |-> output.inner[i].kind,
                                 process_id |-> output.inner[i].process_id]
    BY <2>1, UnaddressedTyped
  <2>4. ASSUME NEW i \in Slots, output.inner[i] # None
        PROVE  /\ out.inner[i] # None /\ out.inner[i].kind = output.inner[i].kind
               /\ out.inner[i].process_id = output.inner[i].process_id
    <3>1. PICK k, d : k = output.inner[i].kind /\ d = output.inner[i].process_id
      BY Zenon
    <3>2. out.inner[i] # None /\ out.inner[i] = [kind |-> k, process_id |-> d]
      BY <3>1, <2>3, <2>4
    <3>. QED BY <3>1, <3>2
  <2>. QED BY <2>2, <2>4
<1>5. held \in 0 .. 1 /\ (hand # None => held = 1)
  OBVIOUS
<1>6. answers \in Nat /\ Count(out) = starts + answers /\ starts \in Nat
  BY <1>2, <1>3
<1>. HIDE DEF in, out, starts, answers, held
<1>6a. /\ \A j \in 1 .. Count(in) : answers + held + j \in 1 .. Len(Requested)
       /\ held = 1 => answers + 1 \in 1 .. Len(Requested)
       /\ \A j \in 1 .. answers : j \in 1 .. Len(Requested)
  <2>1. PICK a \in Nat, h \in 0 .. 1, c \in Nat, n \in Nat :
          /\ a = answers /\ h = held /\ c = Count(in) /\ n = Len(Requested)
          /\ n = a + h + c
    <3>1. answers \in Nat /\ held \in 0 .. 1 /\ Count(in) \in Nat /\ Len(Requested) \in Nat
      BY <1>1, <1>3, <1>5, <1>6, Zenon
    <3>2. Len(Requested) = answers + held + Count(in)
      BY <1>2, Zenon
    <3>. QED BY <3>1, <3>2, Zenon
  <2>2. /\ \A j \in 1 .. c : a + h + j \in 1 .. n
        /\ h = 1 => a + 1 \in 1 .. n
        /\ \A j \in 1 .. a : j \in 1 .. n
    BY <2>1, Places, Zenon
  <2>. QED BY <2>1, <2>2, Zenon
<1>7. ASSUME NEW i \in Slots, input.inner[i] # None
      PROVE  input.inner[i].process_id \in Range(blocked)
  <2>1. PICK j \in 1 .. Count(in) : Contents(in)[j] = in.inner[i]
    <3>1. in.inner[i] # None /\ in \in Queues(AppIds)
      BY <1>2, <1>4, <1>7, Zenon
    <3>. QED BY <3>1, SlotInContents, Zenon
  <2>2. answers + held + j \in 1 .. Len(Requested)
    BY <2>1, <1>6a, Zenon
  <2>3. in.inner[i] = Requested[answers + held + j]
    BY <2>1, <1>2, Zenon
  <2>4. in.inner[i] = input.inner[i].process_id
    BY <1>4, <1>7, Zenon
  <2>. QED BY <2>2, <2>3, <2>4, <1>1, Zenon
<1>8. ASSUME hand # None PROVE hand.process_id \in Range(blocked)
  <2>1. answers + 1 \in 1 .. Len(Requested)
    BY <1>5, <1>6a, <1>8, Zenon
  <2>2. hand.process_id = Requested[answers + 1]
    BY <1>2, <1>8, Zenon
  <2>. QED BY <2>1, <2>2, <1>1, Zenon
<1>9. ASSUME NEW i \in Slots, output.inner[i] # None, output.inner[i].kind # "StartProcess"
      PROVE  output.inner[i].process_id \in Range(blocked)
  <2>1. PICK j \in 1 .. Count(out) : Contents(out)[j] = out.inner[i]
    <3>1. /\ out.inner[i] # None
          /\ out \in Queues([kind : Kinds, process_id : AppIds \cup {0}])
      BY <1>2, <1>4, <1>9, Zenon
    <3>. QED BY <3>1, SlotInContents, Zenon
  <2>2. j \notin 1 .. starts
    <3>1. out.inner[i].kind = output.inner[i].kind
      BY <1>4, <1>9, Zenon
    <3>2. Contents(out)[j].kind # "StartProcess"
      BY <2>1, <3>1, <1>9, Zenon
    <3>. QED BY <3>2, <1>2, Zenon
  <2>3. j - starts \in 1 .. answers /\ starts + (j - starts) = j
        /\ j - starts \in 1 .. Len(Requested)
    <3>1. j - starts \in 1 .. answers /\ starts + (j - starts) = j
      BY <2>1, <2>2, <1>3, <1>6
    <3>. QED BY <3>1, <1>6a, Zenon
  <2>4. Contents(out)[j].process_id = Requested[j - starts]
    BY <2>3, <1>2, Zenon
  <2>. QED BY <2>1, <2>3, <2>4, <1>1, <1>4, <1>9, Zenon
<1>. QED BY <1>7, <1>8, <1>9

\* The answer that schedule_next takes, if it is one, is for the front of
\* `blocked`; a StartProcess finds an id left.
LEMMA FrontMessage ==
  ASSUME SchedulerInv, Front(output) # None, mode = "schedule"
  PROVE  /\ Front(output) \in Messages
         /\ Front(output).kind = "StartProcess" => next_id \in AppIds
         /\ Front(output).kind # "StartProcess"
              => /\ blocked # <<>> /\ Head(blocked) = Front(output).process_id
                 /\ Front(output).addr = Needs[pc[Head(blocked)]]
<1>. DEFINE in == Requesters(input)
            out == Unaddressed(output)
            starts == (NumApps - unsent) - (next_id - 2)
            answers == Count(out) - starts
            held == IF hand = None THEN 0 ELSE 1
<1>1. Requested = blocked /\ blocked \in Seq(AppIds)
  BY RequestedIs
<1>2. /\ in \in Queues(AppIds) /\ out \in Queues([kind : Kinds, process_id : AppIds \cup {0}])
      /\ starts \in 0 .. Count(out) /\ Len(Requested) = answers + held + Count(in)
      /\ \A i \in 1 .. starts : Contents(out)[i].kind = "StartProcess"
      /\ \A i \in 1 .. answers : /\ Contents(out)[starts + i].kind # "StartProcess"
                                 /\ Contents(out)[starts + i].process_id = Requested[i]
  BY Order, Zenon
<1>3. /\ Front(out) # None /\ Front(out).kind = Front(output).kind
      /\ Front(out).process_id = Front(output).process_id /\ Front(output) \in Messages
      /\ Front(output) = output.inner[output.pop_cursor] /\ output.pop_cursor \in Slots
  <2>1. output \in RingsOf(Messages)
    BY InvLocal DEF LocalInv, LocalTypes
  <2>2. Front(output) = output.inner[output.pop_cursor] /\ output.pop_cursor \in Slots
    BY <2>1 DEF RingsOf, Front
  <2>3. Front(output) \in Messages
    BY <2>1, <2>2 DEF RingsOf
  <2>4. /\ Front(out) # None
        /\ Front(out) = [kind |-> Front(output).kind, process_id |-> Front(output).process_id]
    BY <2>1, <2>3, UnaddressedCommute, Zenon
  <2>. HIDE DEF out
  <2>. QED BY <2>2, <2>3, <2>4
<1>4. Count(out) \in Nat /\ Count(in) \in Nat /\ Count(out) > 0 /\ Contents(out)[1] = Front(out)
  <2>1. None \notin AppIds
    BY DEF AppIds, Ids, IdleId, ShellId
  <2>2. Count(in) \in 0 .. SIZE
    BY <2>1, <1>2, RingEnds
  <2>3. /\ Count(out) \in 0 .. SIZE /\ Count(out) # 0
        /\ Count(out) > 0 => Contents(out)[1] = Front(out)
    BY <1>2, <1>3, RingEnds, Zenon
  <2>. HIDE DEF in, out
  <2>. QED BY <2>2, <2>3
<1>5. held \in 0 .. 1 /\ answers \in Nat /\ Count(out) = starts + answers /\ starts \in Nat
  BY <1>2, <1>4
<1>6. starts > 0 => next_id \in AppIds
  <2>1. unsent \in 0 .. NumApps /\ next_id \in 2 .. 2 + NumApps
    BY DEF SchedulerInv, TypeOK, ShellId
  <2>. QED BY <2>1 DEF AppIds, ShellId
<1>. HIDE DEF in, out, starts, answers, held
<1>7. ASSUME Front(output).kind = "StartProcess" PROVE starts > 0
  <2>. SUFFICES ASSUME starts = 0 PROVE FALSE
    BY <1>5
  <2>1. 1 \in 1 .. answers /\ starts + 1 = 1
    BY <1>4, <1>5
  <2>. QED BY <2>1, <1>2, <1>3, <1>4, <1>7
<1>8. ASSUME Front(output).kind # "StartProcess"
      PROVE  /\ blocked # <<>> /\ Head(blocked) = Front(output).process_id
             /\ Front(output).addr = Needs[pc[Head(blocked)]]
  <2>1. starts = 0
    <3>. SUFFICES ASSUME 1 \in 1 .. starts PROVE FALSE
      BY <1>5
    <3>. QED BY <1>2, <1>3, <1>4, <1>8
  <2>2. 1 \in 1 .. answers /\ starts + 1 = 1 /\ Len(blocked) > 0
    BY <2>1, <1>1, <1>2, <1>4, <1>5
  <2>3. blocked[1] = Front(output).process_id
    BY <2>2, <1>1, <1>2, <1>3, <1>4
  <2>4. blocked # <<>> /\ Head(blocked) = blocked[1]
    BY <2>2, <1>1
  <2>5. Front(output).addr = Needs[pc[Front(output).process_id]]
    BY <1>3, <1>8, Zenon DEF SchedulerInv, AddressInv
  <2>. QED BY <2>3, <2>4, <2>5
<1>. QED BY <1>3, <1>6, <1>7, <1>8

-----------------------------------------------------------------------------
(* One step.                                                                *)

\* What a step of the scheduler is to the protocol.
ProtocolStep == Protocol!Next \/ UNCHANGED Protocol!vars

\* The protocol does not see a step that moves no message and no process between
\* `blocked` and the rest.
LEMMA Unseen ==
  ASSUME UNCHANGED <<input, output, hand, unsent, next_id, Requested>>,
         (Live \cap AppIds)' = Live \cap AppIds
  PROVE  ProtocolStep
<1>1. Requesters(input)' = Requesters(input) /\ Unaddressed(output)' = Unaddressed(output)
  BY DEF Requesters, Unaddressed
<1>2. ((Live \cap AppIds) \ Range(Requested))' = (Live \cap AppIds) \ Range(Requested)
  BY DEF Range
<1>3. (IF hand = None THEN None ELSE hand.process_id)' = IF hand = None THEN None ELSE hand.process_id
  OBVIOUS
<1>. QED BY <1>1, <1>2, <1>3 DEF ProtocolStep, Protocol!vars

\* While a process runs, it is in no queue and has no saved context.
LEMMA RunningFacts ==
  ASSUME SchedulerInv, NEW p \in Ids, Running(p)
  PROVE  /\ current = p /\ mode = "user" /\ Placed(p, queue, blocked) /\ Requested = blocked
         /\ p \in Live /\ p \notin Range(blocked) /\ p \notin Range(queue.Normal)
         /\ Live \ context = {p} /\ Live \subseteq Ids
<1>1. current = p /\ mode = "user"
  BY DEF Running
<1>2. Placed(p, queue, blocked)
  BY <1>1, InvLocal DEF LocalInv
<1>3. Requested = blocked
  BY <1>1 DEF Requested
<1>4. Live \ context = {p}
  BY <1>1 DEF SchedulerInv, ContextNoneIffRunning
<1>5. p \notin Range(blocked) /\ p \notin Range(queue.Normal)
  BY <1>2 DEF Placed
<1>6. Live \subseteq Ids
  BY <1>1, <1>2, LiveIds, LiveIsLiveIn
<1>. QED BY <1>1, <1>2, <1>3, <1>4, <1>5, <1>6

\* A request keeps its address as long as its process does not move on, which a
\* blocked one does not; so only what is new in the rings or in the shell's hand
\* has to be looked at.
LEMMA AddressMoved ==
  ASSUME SchedulerInv, \A r \in Range(blocked) : pc'[r] = pc[r],
         \A i \in Slots : input'.inner[i] \in {None, input.inner[i]}
           \/ input'.inner[i].addr = Needs[pc'[input'.inner[i].process_id]],
         hand' \in {None, hand} \/ hand'.addr = Needs[pc'[hand'.process_id]],
         \A i \in Slots : output'.inner[i] \in {None, output.inner[i]}
           \/ output'.inner[i].kind = "StartProcess"
           \/ output'.inner[i].addr = Needs[pc'[output'.inner[i].process_id]]
  PROVE  AddressInv'
<1>0. AddressInv
  BY Zenon DEF SchedulerInv
<1>1. ASSUME NEW i \in Slots, input.inner[i] # None
      PROVE  input.inner[i].addr = Needs[pc'[input.inner[i].process_id]]
  BY <1>0, <1>1, Owners, Zenon DEF AddressInv
<1>2. ASSUME hand # None PROVE hand.addr = Needs[pc'[hand.process_id]]
  BY <1>0, <1>2, Owners, Zenon DEF AddressInv
<1>3. ASSUME NEW i \in Slots, output.inner[i] # None, output.inner[i].kind # "StartProcess"
      PROVE  output.inner[i].addr = Needs[pc'[output.inner[i].process_id]]
  BY <1>0, <1>3, Owners, Zenon DEF AddressInv
<1>4. ASSUME NEW i \in Slots, input'.inner[i] # None
      PROVE  input'.inner[i].addr = Needs[pc'[input'.inner[i].process_id]]
  BY <1>1, <1>4, Zenon
<1>5. ASSUME hand' # None PROVE hand'.addr = Needs[pc'[hand'.process_id]]
  BY <1>2, <1>5, Zenon
<1>6. ASSUME NEW i \in Slots, output'.inner[i] # None, output'.inner[i].kind # "StartProcess"
      PROVE  output'.inner[i].addr = Needs[pc'[output'.inner[i].process_id]]
  BY <1>3, <1>6, Zenon
<1>. QED BY <1>4, <1>5, <1>6, Zenon DEF AddressInv, Slots

\* In particular nothing is new where rings and hand stay the same.
LEMMA AddressKept ==
  ASSUME SchedulerInv, UNCHANGED <<input, output, hand>>,
         \A r \in Range(blocked) : pc'[r] = pc[r]
  PROVE  AddressInv'
BY AddressMoved

\* What a push or a pop changes of the slots.
LEMMA SlotsAfter ==
  ASSUME NEW Element, NEW q \in RingsOf(Element), NEW e, NEW i \in Slots
  PROVE  /\ Push(q, e).inner[i] \in {e, q.inner[i]}
         /\ Pop(q).inner[i] \in {None, q.inner[i]}
<1>1. PICK a \in Slots, b \in Slots, f \in [Slots -> Element \cup {None}] :
        q.push_cursor = a /\ q.pop_cursor = b /\ q.inner = f
  BY DEF RingsOf
<1>2. Push(q, e).inner = [f EXCEPT ![a] = e]
  BY <1>1 DEF Push
<1>3. Pop(q).inner = f \/ Pop(q).inner = [f EXCEPT ![b] = None]
  BY <1>1 DEF Pop
<1>. QED BY <1>1, <1>2, <1>3, Zenon

\* A step of one process does not move the others' program points.
LEMMA PointKept ==
  ASSUME SchedulerInv, NEW p \in Ids \ {IdleId}, p \notin Range(blocked),
         NEW x \in Points, pc' = [pc EXCEPT ![p] = x]
  PROVE  /\ pc' \in [Ids \ {IdleId} -> Points] /\ pc'[p] = x
         /\ \A r \in Range(blocked) : pc'[r] = pc[r]
         /\ p # ShellId => pc'[ShellId] = pc[ShellId]
<1>1. pc \in [Ids \ {IdleId} -> Points]
  BY DEF SchedulerInv, TypeOK
<1>2. Range(blocked) \subseteq AppIds /\ AppIds \subseteq Ids \ {IdleId} /\ ShellId \in Ids \ {IdleId}
  BY InvLocal, LiveIds DEF LocalInv
<1>. QED BY <1>1, <1>2

\* The modules at the program points that need one.
LEMMA NeedsModules ==
  /\ DOMAIN Needs \subseteq Points /\ \A x \in DOMAIN Needs : Needs[x] \in Modules
  /\ {"start", "start_push", "drain", "defer", "exit", "in_lock", "in_pop", "out_lock",
      "out_push", "in_unlock", "poll", "lock", "push"} = Points
  /\ DOMAIN Needs = {"poll", "lock", "push"}
BY SMTT(30) DEF Needs, Points, Modules

\* preempt_current, from the timer or from `defer`.
LEMMA PreemptInv ==
  ASSUME SchedulerInv, NEW p \in Ids, Timer(p) \/ (p # IdleId /\ Defer(p))
  PROVE  LocalInv' /\ ProtocolStep
<1>1. /\ current = p /\ mode = "user" /\ Placed(p, queue, blocked) /\ Requested = blocked
      /\ p \in Live /\ p \notin Range(blocked) /\ Live \ context = {p} /\ Live \subseteq Ids
  BY RunningFacts DEF Timer, Defer, PreemptCurrent, SetCurrentContext
<1>2. /\ context' = context \cup {p} /\ queue' = AddToQueue(queue, p) /\ current' = None
      /\ mode' = "schedule"
      /\ UNCHANGED <<blocked, cr3, mapped, next_id, input, output, events, lock, hand, unsent, polled>>
  BY DEF Timer, Defer, PreemptCurrent, SetCurrentContext, shellVars
<1>3. Placed(current', queue', blocked') /\ Live' = Live
  <2>1. /\ Placed(None, AddToQueue(queue, p), blocked)
        /\ LiveIn(None, AddToQueue(queue, p), blocked) = LiveIn(p, queue, blocked)
    BY <1>1, PreemptPlaced
  <2>2. Live' = LiveIn(current', queue', blocked') /\ Live = LiveIn(p, queue, blocked)
    BY <1>1, Zenon DEF Live, LiveIn
  <2>. QED BY <2>1, <2>2, <1>2
<1>4. /\ pc' \in [Ids \ {IdleId} -> Points] /\ \A r \in Range(blocked) : pc'[r] = pc[r]
      /\ ShellInv'
  <2>1. CASE Timer(p)
    <3>1. UNCHANGED <<pc, hand, unsent>>
      BY <2>1, <1>2, Zenon DEF Timer
    <3>2. pc \in [Ids \ {IdleId} -> Points] /\ ShellInv
      BY Zenon DEF SchedulerInv, TypeOK
    <3>3. ShellInv'
      BY <3>1, <3>2, Zenon DEF ShellInv
    <3>. QED BY <3>1, <3>2, <3>3, Zenon
  <2>2. CASE p # IdleId /\ Defer(p)
    <3>1. PICK x \in Points : /\ x = IF p = ShellId THEN "in_lock" ELSE "poll"
                              /\ pc' = [pc EXCEPT ![p] = x] /\ pc[p] = "defer"
      BY <2>2, NeedsModules, Zenon DEF Defer
    <3>2. /\ pc' \in [Ids \ {IdleId} -> Points] /\ pc'[p] = x
          /\ \A r \in Range(blocked) : pc'[r] = pc[r]
          /\ p # ShellId => pc'[ShellId] = pc[ShellId]
      BY <3>1, <2>2, <1>1, PointKept, Zenon
    <3>3. ShellInv'
      <4>1. ShellInv /\ UNCHANGED <<hand, unsent, polled>>
        BY <1>2 DEF SchedulerInv
      <4>2. CASE p # ShellId
        BY <4>1, <4>2, <3>2, Zenon DEF ShellInv
      <4>3. CASE p = ShellId
        BY <4>1, <4>3, <3>1, <3>2 DEF ShellInv
      <4>. QED BY <4>2, <4>3, Zenon
    <3>. QED BY <3>2, <3>3, Zenon
  <2>. QED BY <2>1, <2>2, Zenon
<1>5. LocalTypes'
  BY <1>2, <1>4, InvLocal, Zenon DEF LocalInv, LocalTypes
<1>6. ContextNoneIffRunning' /\ \A r \in Live' : r < next_id'
  BY <1>1, <1>2, <1>3, Zenon DEF ContextNoneIffRunning, SchedulerInv, OnePlace
<1>7. ModeInv' /\ AddressInv'
  <2>1. \A r \in Range(blocked) : pc'[r] \in DOMAIN Needs
    BY <1>4 DEF SchedulerInv, ModeInv
  <2>. QED BY <2>1, <1>2, <1>4, AddressKept DEF ModeInv
<1>8. ProtocolStep
  BY <1>1, <1>2, <1>3, Unseen DEF Requested
<1>. QED BY <1>3, <1>4, <1>5, <1>6, <1>7, <1>8 DEF LocalInv

\* The handlers that go back to the process they interrupted.
LEMMA InPlaceInv ==
  ASSUME SchedulerInv, NEW p \in Ids, NEW m \in Modules,
         ServeInPlace(p) \/ FaultAll(p, m) \/ FaultExit(p)
  PROVE  LocalInv' /\ ProtocolStep
<1>1. /\ current = p /\ mode = "user" /\ Placed(p, queue, blocked) /\ Requested = blocked
      /\ p \in Live /\ p \notin Range(blocked) /\ Live \ context = {p} /\ Live \subseteq Ids
  BY RunningFacts DEF ServeInPlace, FaultAll, FaultExit, SetCurrentContext
<1>2. /\ context' = context \cup {p} /\ mode' \in {"schedule", "panic"}
      /\ UNCHANGED <<current, queue, blocked, cr3, next_id, input, output, events, lock, pc,
                     hand, unsent, polled>>
  BY DEF ServeInPlace, FaultAll, FaultExit, SetCurrentContext, shellVars
<1>3. mapped' \in [Ids -> SUBSET Modules]
  <2>1. mapped \in [Ids -> SUBSET Modules]
    BY Zenon DEF SchedulerInv, TypeOK
  <2>2. CASE mapped' = mapped
    BY <2>1, <2>2
  <2>3. CASE FaultAll(p, m)
    BY <2>1, <2>3 DEF FaultAll
  <2>. QED BY <2>2, <2>3 DEF ServeInPlace, FaultExit
<1>4. LocalTypes'
  <2>1. LocalTypes
    BY InvLocal DEF LocalInv
  <2>2. context' \in SUBSET Ids /\ mode' \in {"user", "block", "schedule", "panic"}
    BY <2>1, <1>2, Zenon DEF LocalTypes
  <2>. QED BY <2>1, <2>2, <1>2, <1>3, Zenon DEF LocalTypes
<1>5. Placed(current', queue', blocked') /\ Live' = Live
  BY <1>1, <1>2, Zenon DEF Live
<1>6. ContextNoneIffRunning' /\ \A r \in Live' : r < next_id'
  BY <1>1, <1>2, <1>5, Zenon DEF ContextNoneIffRunning, SchedulerInv, OnePlace
<1>7. AddressInv'
  BY <1>2, AddressKept, Zenon
<1>8. ModeInv' /\ ShellInv'
  BY <1>2 DEF SchedulerInv, ModeInv, ShellInv
<1>9. ProtocolStep
  BY <1>1, <1>2, <1>5, Unseen, Zenon DEF Requested
<1>. QED BY <1>4, <1>5, <1>6, <1>7, <1>8, <1>9, Zenon DEF LocalInv

\* exit_interrupt_handler: to the protocol a process leaves, unless it is the shell.
LEMMA ExitInv ==
  ASSUME SchedulerInv, NEW p \in Ids \ {IdleId}, Exit(p)
  PROVE  LocalInv' /\ ProtocolStep
<1>1. /\ current = p /\ mode = "user" /\ Placed(p, queue, blocked) /\ Requested = blocked
      /\ p \in Live /\ p \notin Range(blocked) /\ Live \ context = {p} /\ Live \subseteq Ids
  BY RunningFacts, Zenon DEF Exit
<1>2. /\ current' = None /\ cr3' = None /\ mapped' = [mapped EXCEPT ![p] = {}]
      /\ mode' = "schedule"
      /\ UNCHANGED <<queue, blocked, context, next_id, input, output, events, lock, pc,
                     hand, unsent, polled>>
  BY Zenon DEF Exit, shellVars
<1>3. Placed(current', queue', blocked') /\ Live' = Live \ {p}
  <2>1. /\ Placed(None, queue, blocked)
        /\ LiveIn(None, queue, blocked) = LiveIn(p, queue, blocked) \ {p}
    BY <1>1, LeavePlaced
  <2>2. Live' = LiveIn(current', queue', blocked') /\ Live = LiveIn(p, queue, blocked)
    BY <1>1, Zenon DEF Live, LiveIn
  <2>. QED BY <2>1, <2>2, <1>2
<1>4. LocalTypes'
  BY <1>2, InvLocal, Zenon DEF LocalInv, LocalTypes
<1>5. ContextNoneIffRunning' /\ \A r \in Live' : r < next_id'
  BY <1>1, <1>2, <1>3, Zenon DEF ContextNoneIffRunning, SchedulerInv, OnePlace
<1>6. AddressInv'
  BY <1>2, AddressKept, Zenon
<1>7. ModeInv' /\ ShellInv'
  BY <1>2, Zenon DEF SchedulerInv, ModeInv, ShellInv
<1>8. Requested' = Requested
  BY <1>1, <1>2 DEF Requested
<1>9. ProtocolStep
  <2>1. CASE p \notin AppIds
    BY <2>1, <1>2, <1>3, <1>8, Unseen, Zenon
  <2>2. CASE p \in AppIds
    <3>1. p \in (Live \cap AppIds) \ Range(Requested)
      BY <2>2, <1>1
    <3>2. ((Live \cap AppIds) \ Range(Requested))' = ((Live \cap AppIds) \ Range(Requested)) \ {p}
      <4>1. Range(Requested)' = Range(Requested) /\ AppIds' = AppIds
        BY <1>8 DEF Range
      <4>. QED BY <4>1, <1>3
    <3>3. Requesters(input)' = Requesters(input) /\ Unaddressed(output)' = Unaddressed(output)
      BY <1>2 DEF Requesters, Unaddressed
    <3>4. Protocol!Exit(p)
      BY <3>1, <3>2, <3>3, <1>2, <1>8 DEF Protocol!Exit
    <3>5. p \in Protocol!AppIds
      BY <2>2 DEF Protocol!AppIds, Protocol!ShellId, AppIds, ShellId
    <3>. QED BY <3>4, <3>5 DEF ProtocolStep, Protocol!Next
  <2>. QED BY <2>1, <2>2, Zenon
<1>. QED BY <1>3, <1>4, <1>5, <1>6, <1>7, <1>9, Zenon DEF LocalInv

\* The page fault of a process with AccessPolicy::Normal, up to the lock.
LEMMA FaultNormalInv ==
  ASSUME SchedulerInv, NEW p \in AppIds, FaultNormal(p)
  PROVE  LocalInv' /\ ProtocolStep
<1>0. p \in Ids \ {IdleId}
  BY InvLocal, LiveIds, SMTT(30) DEF LocalInv
<1>1. /\ current = p /\ mode = "user" /\ Placed(p, queue, blocked) /\ Requested = blocked
      /\ p \in Live /\ p \notin Range(blocked) /\ Live \ context = {p} /\ Live \subseteq Ids
  BY <1>0, RunningFacts, Zenon DEF FaultNormal, SetCurrentContext
<1>2. /\ context' = context \cup {p} /\ current' = None /\ cr3' = None
      /\ blocked' = Append(blocked, p) /\ mode' = "block" /\ pc[p] \in DOMAIN Needs
      /\ UNCHANGED <<queue, mapped, next_id, input, output, events, lock, pc,
                     hand, unsent, polled>>
  BY DEF FaultNormal, SetCurrentContext, shellVars
<1>3. Placed(current', queue', blocked') /\ Live' = Live
  <2>1. /\ Placed(None, queue, Append(blocked, p))
        /\ LiveIn(None, queue, Append(blocked, p)) = LiveIn(p, queue, blocked)
    BY <1>1, BlockPlaced, Zenon
  <2>2. Live' = LiveIn(current', queue', blocked') /\ Live = LiveIn(p, queue, blocked)
    BY <1>1, Zenon DEF Live, LiveIn
  <2>. QED BY <2>1, <2>2, <1>2
<1>4. LocalTypes'
  BY <1>0, <1>2, InvLocal, Zenon DEF LocalInv, LocalTypes
<1>5. ContextNoneIffRunning' /\ \A r \in Live' : r < next_id'
  BY <1>1, <1>2, <1>3, Zenon DEF ContextNoneIffRunning, SchedulerInv, OnePlace
<1>6. AddressInv' /\ ShellInv'
  BY <1>2, AddressKept DEF SchedulerInv, ShellInv
<1>7. blocked \in Seq(AppIds)
  BY <1>1 DEF Placed
<1>8. ModeInv'
  <2>1. Append(blocked, p) # <<>> /\ Range(Append(blocked, p)) = Range(blocked) \cup {p}
    BY <1>7, AppendPlace
  <2>. QED BY <2>1, <1>2 DEF SchedulerInv, ModeInv
<1>9. Requested' = Requested
  <2>1. /\ Append(blocked, p) \in Seq(AppIds) /\ Len(Append(blocked, p)) = Len(blocked) + 1
        /\ \A i \in 1 .. Len(blocked) : Append(blocked, p)[i] = blocked[i]
        /\ Len(blocked) \in Nat /\ (Len(blocked) + 1) - 1 = Len(blocked)
    <3>1. Len(blocked) \in Nat
      BY <1>7
    <3>2. (Len(blocked) + 1) - 1 = Len(blocked)
      BY <3>1
    <3>3. /\ Append(blocked, p) \in Seq(AppIds) /\ Len(Append(blocked, p)) = Len(blocked) + 1
          /\ \A i \in 1 .. Len(blocked) : Append(blocked, p)[i] = blocked[i]
      BY <1>7
    <3>. QED BY <3>1, <3>2, <3>3, Zenon
  <2>2. PICK s \in Seq(AppIds) : s = SubSeq(Append(blocked, p), 1, Len(blocked))
    BY <2>1, FrontPlaces
  <2>3. Len(s) = Len(blocked) /\ \A i \in 1 .. Len(blocked) : s[i] = blocked[i]
    BY <2>1, <2>2, FrontPlaces
  <2>4. s = blocked
    BY <2>3, <1>7, SamePlaces
  <2>5. Requested' = SubSeq(Append(blocked, p), 1, (Len(blocked) + 1) - 1)
    BY <2>1, <1>2, Zenon DEF Requested
  <2>. QED BY <2>1, <2>2, <2>4, <2>5, <1>1, Zenon
<1>10. ProtocolStep
  BY <1>2, <1>3, <1>9, Unseen
<1>. QED BY <1>3, <1>4, <1>5, <1>6, <1>8, <1>10, Zenon DEF LocalInv

\* The operations on rings that ShellProtocol uses.
LEMMA SameQueue ==
  ASSUME NEW q, NEW e
  PROVE  /\ Protocol!Push(q, e) = Push(q, e) /\ Protocol!Pop(q) = Pop(q)
         /\ Protocol!Front(q) = Front(q)
BY DEF Protocol!Push, Push, Protocol!Pop, Pop, Protocol!Front, Front, Protocol!Advance, Advance

\* The rest of block_current: to the protocol the process is blocked now.
LEMMA SendRequestInv ==
  ASSUME SchedulerInv, SendRequest
  PROVE  LocalInv' /\ ProtocolStep
<1>. DEFINE p == blocked[Len(blocked)]
            e == [process_id |-> p, addr |-> Needs[pc[p]]]
<1>1. /\ mode = "block" /\ mode' = "schedule" /\ input' = Push(input, e)
      /\ UNCHANGED <<current, queue, blocked, context, cr3, mapped, next_id, output,
                     events, lock, pc, hand, unsent, polled>>
  BY Zenon DEF SendRequest, shellVars
<1>2. /\ p \in AppIds /\ p \in Range(blocked) /\ Range(Requested) = Range(blocked) \ {p}
      /\ blocked = Append(Requested, p)
  BY <1>1, RequestedIs, Zenon
<1>3. e \in Requests /\ e.process_id = p /\ e.addr = Needs[pc[p]]
  <2>1. Needs[pc[p]] \in Modules
    BY <1>2, NeedsModules DEF SchedulerInv, ModeInv
  <2>. QED BY <2>1, <1>2, Zenon DEF Requests
<1>. HIDE DEF p, e
<1>4. input \in RingsOf(Requests)
  BY InvLocal, Zenon DEF LocalInv, LocalTypes
<1>5. LocalTypes'
  BY <1>1, <1>3, <1>4, RingTypes, InvLocal, Zenon DEF LocalInv, LocalTypes
<1>6. Placed(current', queue', blocked') /\ Live' = Live
  BY <1>1, InvLocal, Zenon DEF Live, LocalInv
<1>7. ContextNoneIffRunning' /\ \A r \in Live' : r < next_id'
  BY <1>1, <1>6, Zenon DEF ContextNoneIffRunning, SchedulerInv, OnePlace
<1>8. ModeInv' /\ ShellInv'
  BY <1>1 DEF SchedulerInv, ModeInv, ShellInv
<1>9. AddressInv'
  <2>1. \A i \in Slots : input'.inner[i] \in {e, input.inner[i]}
    BY <1>1, <1>4, SlotsAfter, Zenon
  <2>2. \A i \in Slots : input'.inner[i] \in {None, input.inner[i]}
           \/ input'.inner[i].addr = Needs[pc'[input'.inner[i].process_id]]
    BY <2>1, <1>1, <1>3, Zenon
  <2>3. /\ \A r \in Range(blocked) : pc'[r] = pc[r]
        /\ hand' \in {None, hand}
        /\ \A i \in Slots : output'.inner[i] \in {None, output.inner[i]}
    BY <1>1, Zenon
  <2>. QED BY <2>2, <2>3, AddressMoved, Zenon
<1>10. Requested' = blocked
  BY <1>1 DEF Requested
<1>11. Protocol!BlockCurrent(p)
  <2>1. p \in Live
    BY <1>2 DEF Live
  <2>2. p \in (Live \cap AppIds) \ Range(Requested)
    BY <2>1, <1>2
  <2>3. ((Live \cap AppIds) \ Range(Requested))' = ((Live \cap AppIds) \ Range(Requested)) \ {p}
    <3>1. Range(Requested)' = Range(blocked) /\ AppIds' = AppIds
      BY <1>10 DEF Range
    <3>. QED BY <3>1, <1>2, <1>6
  <2>4. Requesters(input)' = Protocol!Push(Requesters(input), p)
    <3>1. Requesters(Push(input, e)) = Push(Requesters(input), p)
      BY <1>3, <1>4, RequestersCommute
    <3>2. Requesters(input)' = Requesters(Push(input, e))
      BY <1>1 DEF Requesters
    <3>. QED BY <3>1, <3>2, SameQueue
  <2>5. Unaddressed(output)' = Unaddressed(output)
    BY <1>1 DEF Unaddressed
  <2>. QED BY <2>2, <2>3, <2>4, <2>5, <1>1, <1>2, <1>10 DEF Protocol!BlockCurrent
<1>12. ProtocolStep
  <2>1. p \in Protocol!AppIds
    BY <1>2, SMTT(30) DEF Protocol!AppIds, Protocol!ShellId, AppIds, ShellId
  <2>. QED BY <2>1, <1>11 DEF ProtocolStep, Protocol!Next
<1>. QED BY <1>5, <1>6, <1>7, <1>8, <1>9, <1>12 DEF LocalInv
===========================================================================
