---------------------------- MODULE VirtioProofs ----------------------------
(***************************************************************************)
(* A virtqueue is right for every size of it and of its indices.           *)
(***************************************************************************)
EXTENDS Virtio, Integers, FiniteSetTheorems, NaturalsInduction, WellFoundedInduction, TLAPS

\* Where an index points in a ring, how far an index is behind another, and the
\* values of the indices.
Slot(n) == n % QUEUE_SIZE
Dist(i, s) == (i + (IndexModulus - s)) % IndexModulus
Indices == 0 .. IndexModulus - 1

Words == Kinds \cup {"ok", "err", "GET_DISPLAY_INFO", "CREATE_2D", "ATTACH_BACKING", "SET_SCANOUT",
                     "TRANSFER_TO_HOST_2D", "RESOURCE_FLUSH"}
Messages == [n : Nat, kind : Words]

\* The types of the queue, of the device and of the GPU driver.
QueueTypes ==
  /\ desc \in [Desc -> [next : Desc, flags : SUBSET {"next", "write"}]]
  /\ buffer \in [Desc -> Messages]
  /\ ring \in [Desc -> Desc] /\ idx \in Indices
  /\ available \in SUBSET Desc /\ popped \in Nat
  /\ used \in [ring : [Desc -> Desc], idx : Nat, pending : BOOLEAN]
  /\ device \in [seen : Indices, held : SUBSET Desc]
  /\ gpu \in [call : {"none", "display_info", "initialize_framebuffer", "flush"},
              todo : Seq(Words), result : Words \cup {"none"}, done : SUBSET Words]
  /\ hist \in [used : Nat, done : Seq([ids : Seq(Desc), last : Messages]), ignored : Nat, missed : Nat]

\* What the device has completed is popped or waits to be, and all of it but an
\* element that is not published is below the device's index.
Counted ==
  /\ hist.used = popped + Len(hist.done)
  /\ used.idx + (IF used.pending THEN 1 ELSE 0) = hist.used
  /\ used.pending => Len(hist.done) > 0

\* The first n entries of a line of descriptors, and that none is there twice.
Line(w, n) == {w[k] : k \in 0 .. n - 1}
Distinct(w, n) == \A k, m \in 0 .. n - 1 : w[k] = w[m] => k = m

\* Every descriptor is available, in the line w to the device, held by it, or in
\* the line h back to the driver.
Parts(av, w, n, held, h, l) ==
  /\ av \in SUBSET Desc /\ held \in SUBSET Desc
  /\ Line(w, n) \in SUBSET Desc /\ Line(h, l) \in SUBSET Desc
  /\ Distinct(w, n) /\ Distinct(h, l)
  /\ \A d \in Desc : d \in av \/ d \in Line(w, n) \/ d \in held \/ d \in Line(h, l)
  /\ \A d \in av : d \notin Line(w, n) /\ d \notin held /\ d \notin Line(h, l)
  /\ \A d \in held : d \notin Line(w, n) /\ d \notin Line(h, l)
  /\ \A d \in Line(w, n) : d \notin Line(h, l)
  /\ Cardinality(av) + n + Cardinality(held) + l = QUEUE_SIZE

\* The line of heads from the device's place in the available ring, and the one
\* from pop_index in the used ring.
Waits == [k \in Nat |-> ring[Slot(device.seen + k)]]
Dones == [k \in Nat |-> used.ring[Slot(popped + k)]]

InputPoints == {"fill", "publish", "poll", "refill", "republish", "deliver"}
GpuPoints == {"idle", "send", "sendPublish", "notify", "wait"}

\* The input driver's queue: single buffers, each in one part.
InputInv ==
  /\ driver = "input" /\ pc \notin GpuPoints /\ gpu.call = "none"
  /\ \A d \in Desc : desc[d].next = 0 /\ "next" \notin desc[d].flags
  /\ Parts(available, Waits, NumWaiting, device.held, Dones, Len(hist.done))
  /\ \A j \in 1 .. Len(hist.done) :
       /\ hist.done[j].ids = <<Dones[j - 1]>>
       /\ hist.done[j].last = buffer[Dones[j - 1]]

\* The command has been written to the first descriptor, which leads to the second.
Sent ==
  /\ available = Desc \ {0, 1}
  /\ desc[0] = [next |-> 1, flags |-> {"next"}] /\ desc[1] = [next |-> 0, flags |-> {"write"}]
  /\ gpu.todo # <<>> /\ buffer[0].kind = Head(gpu.todo)

\* Where the chain is: nowhere, with the driver, waiting, at the device, answered.
Nothing == idx = device.seen /\ device.held = {} /\ hist.done = <<>>
Offered == idx = Increment(device.seen) /\ ring[Slot(device.seen)] = 0
             /\ device.held = {} /\ hist.done = <<>>
Worked == idx = device.seen /\ device.held = {0} /\ hist.done = <<>>
Answered ==
  /\ idx = device.seen /\ device.held = {}
  /\ hist.done = <<[ids |-> <<0, 1>>, last |-> buffer[1]]>>
  /\ used.ring[Slot(popped)] = 0
  /\ buffer[1].kind \in {"ok", "err"}
  /\ buffer[1].kind = "ok" => Head(gpu.todo) \in gpu.done

\* The commands of initialize_framebuffer that are not to come have been carried out.
Progress ==
  gpu.call = "initialize_framebuffer" =>
    \/ gpu.todo = <<"CREATE_2D", "ATTACH_BACKING", "SET_SCANOUT">>
    \/ gpu.todo = <<"ATTACH_BACKING", "SET_SCANOUT">> /\ {"CREATE_2D"} \subseteq gpu.done
    \/ gpu.todo = <<"SET_SCANOUT">> /\ {"CREATE_2D", "ATTACH_BACKING"} \subseteq gpu.done
    \/ /\ gpu.todo = <<>>
       /\ gpu.result = "ok" => {"CREATE_2D", "ATTACH_BACKING", "SET_SCANOUT"} \subseteq gpu.done

\* The GPU driver's queue: one chain at a time, always of the first two descriptors.
GpuInv ==
  /\ driver = "gpu" /\ pc \notin InputPoints
  /\ \A d \in Desc : d # 0 => desc[d].next = 0
  /\ pc \notin {"sendPublish", "notify", "wait"} => available = Desc /\ Nothing
  /\ pc = "sendPublish" => Sent /\ Nothing /\ ring[Slot(idx)] = 0
  /\ pc \in {"notify", "wait"} => Sent /\ (Offered \/ Worked \/ Answered)
  /\ pc = "send" => gpu.todo # <<>>
  /\ gpu.todo # <<>> => gpu.result = "none"
  /\ Progress

\* The inductive invariant: nothing is promised once the device's index has wrapped.
HistType == DOMAIN hist = {"used", "done", "ignored", "missed"} /\ hist.used \in Nat
VirtioInv ==
  HistType /\ (BeforeWrap => QueueTypes /\ Counted /\ (InputInv \/ GpuInv))

\* A multiple of the divisor more does not change the remainder.
LEMMA ModAdd ==
  ASSUME NEW m \in Nat \ {0}, NEW p \in Nat, NEW k \in Nat
  PROVE  (p * m + k) % m = k % m
<1>1. PICK q \in Nat, r \in 0 .. m - 1 : k = q * m + r /\ k % m = r
  <2>1. k \div m \in Nat /\ k % m \in 0 .. m - 1 /\ k = (k \div m) * m + (k % m)
    OBVIOUS
  <2>. QED BY <2>1
<1>2. PICK n \in Nat : n = p + q
  OBVIOUS
<1>3. p * m + k = n * m + r
  BY <1>1, <1>2
<1>4. (n * m + r) % m = r
  OBVIOUS
<1>. QED BY <1>1, <1>3, <1>4, Zenon

\* The remainder of what is less than twice the divisor.
LEMMA ModSmall ==
  ASSUME NEW m \in Nat \ {0}, NEW x \in Nat, x < m + m
  PROVE  x % m = IF x < m THEN x ELSE x - m
OBVIOUS

\* The sizes of the queue and of its indices.
LEMMA QueueSizes ==
  /\ QUEUE_SIZE \in Nat \ {0} /\ QUEUE_SIZE >= 2 /\ IndexModulus \in Nat \ {0}
  /\ QUEUE_SIZE < IndexModulus /\ IndexModulus % QUEUE_SIZE = 0
  /\ 0 \in Desc /\ 1 \in Desc
<1>1. /\ QUEUE_SIZE \in Nat \ {0} /\ QUEUE_SIZE % 2 = 0 /\ IndexModulus \in Nat \ {0}
      /\ QUEUE_SIZE < IndexModulus /\ IndexModulus % QUEUE_SIZE = 0
  BY SizeAssumption
<1>2. QUEUE_SIZE >= 2
  BY <1>1
<1>. QED BY <1>1, <1>2 DEF Desc

\* Where an index points in a ring.
LEMMA Slots ==
  ASSUME NEW i \in Nat
  PROVE  /\ Slot(i) \in Desc
         /\ \A k, m \in Desc : k # m => Slot(i + k) # Slot(i + m)
         /\ Slot(IndexModulus + i) = Slot(i)
<1>1. QUEUE_SIZE \in Nat \ {0} /\ IndexModulus \in Nat \ {0} /\ IndexModulus % QUEUE_SIZE = 0
  BY QueueSizes
<1>2. PICK q \in Nat, r \in 0 .. QUEUE_SIZE - 1 : i = q * QUEUE_SIZE + r
  <2>1. /\ i \div QUEUE_SIZE \in Nat /\ i % QUEUE_SIZE \in 0 .. QUEUE_SIZE - 1
        /\ i = (i \div QUEUE_SIZE) * QUEUE_SIZE + (i % QUEUE_SIZE)
    BY <1>1
  <2>. QED BY <2>1
<1>3. Slot(i) \in Desc
  BY <1>1 DEF Slot, Desc
<1>4. ASSUME NEW k \in Desc PROVE Slot(i + k) = IF r + k < QUEUE_SIZE THEN r + k ELSE (r + k) - QUEUE_SIZE
  <2>1. /\ r + k \in Nat /\ r + k < QUEUE_SIZE + QUEUE_SIZE
        /\ i + k = q * QUEUE_SIZE + (r + k)
    BY <1>1, <1>2 DEF Desc
  <2>2. (q * QUEUE_SIZE + (r + k)) % QUEUE_SIZE = (r + k) % QUEUE_SIZE
    BY <2>1, <1>1, ModAdd
  <2>3. (r + k) % QUEUE_SIZE = IF r + k < QUEUE_SIZE THEN r + k ELSE (r + k) - QUEUE_SIZE
    BY <2>1, <1>1, ModSmall
  <2>. QED BY <2>1, <2>2, <2>3, Zenon DEF Slot
<1>5. ASSUME NEW k \in Desc, NEW m \in Desc, k # m PROVE Slot(i + k) # Slot(i + m)
  <2>1. /\ Slot(i + k) = IF r + k < QUEUE_SIZE THEN r + k ELSE (r + k) - QUEUE_SIZE
        /\ Slot(i + m) = IF r + m < QUEUE_SIZE THEN r + m ELSE (r + m) - QUEUE_SIZE
    BY <1>4
  <2>. QED BY <2>1, <1>1, <1>5 DEF Desc
<1>6. Slot(IndexModulus + i) = Slot(i)
  <2>1. PICK p \in Nat : IndexModulus = p * QUEUE_SIZE
    BY <1>1
  <2>2. (p * QUEUE_SIZE + i) % QUEUE_SIZE = i % QUEUE_SIZE
    BY <1>1, ModAdd, Zenon
  <2>. QED BY <2>1, <2>2, Zenon DEF Slot
<1>. QED BY <1>3, <1>5, <1>6

\* An index one step on, and the number of entries between two indices.
LEMMA Steps ==
  ASSUME NEW i \in Indices, NEW s \in Indices
  PROVE  /\ Increment(i) \in Indices /\ Dist(i, s) \in Indices
         /\ \A k \in Nat : Slot(Increment(i) + k) = Slot(i + (k + 1))
         /\ Dist(i, s) = 0 <=> i = s
         /\ Dist(i, s) + 1 < IndexModulus => Dist(Increment(i), s) = Dist(i, s) + 1
         /\ i # s => Dist(i, Increment(s)) = Dist(i, s) - 1
         /\ Slot(s + Dist(i, s)) = Slot(i)
         /\ Dist(Increment(s), s) = 1
<1>1. IndexModulus \in Nat \ {0} /\ IndexModulus > 1
  BY QueueSizes
<1>2. \A j \in Indices : Increment(j) = IF j + 1 = IndexModulus THEN 0 ELSE j + 1
  <2>. TAKE j \in Indices
  <2>1. j + 1 \in Nat /\ j + 1 < IndexModulus + IndexModulus /\ j + 1 <= IndexModulus
    BY <1>1 DEF Indices
  <2>2. (j + 1) % IndexModulus = IF j + 1 < IndexModulus THEN j + 1 ELSE (j + 1) - IndexModulus
    BY <2>1, <1>1, ModSmall
  <2>. QED BY <2>1, <2>2, <1>1 DEF Increment
<1>3. \A j, t \in Indices : Dist(j, t) = IF j < t THEN (j + IndexModulus) - t ELSE j - t
  <2>. TAKE j, t \in Indices
  <2>1. /\ j + (IndexModulus - t) \in Nat /\ j + (IndexModulus - t) < IndexModulus + IndexModulus
        /\ j \in Nat /\ t \in Nat
    BY <1>1 DEF Indices
  <2>2. (j + (IndexModulus - t)) % IndexModulus
          = IF j + (IndexModulus - t) < IndexModulus THEN j + (IndexModulus - t)
            ELSE (j + (IndexModulus - t)) - IndexModulus
    BY <2>1, <1>1, ModSmall, Zenon
  <2>. QED BY <2>1, <2>2, <1>1 DEF Dist
<1>4. \A j \in Indices : Increment(j) \in Indices
  BY <1>1, <1>2 DEF Indices
<1>5. Dist(i, s) \in Indices /\ (Dist(i, s) = 0 <=> i = s)
  BY <1>1, <1>3 DEF Indices
<1>6. ASSUME NEW k \in Nat PROVE Slot(Increment(i) + k) = Slot(i + (k + 1))
  <2>1. CASE i + 1 = IndexModulus
    <3>1. Increment(i) + k = k /\ i + (k + 1) = IndexModulus + k
      BY <2>1, <1>2 DEF Indices
    <3>. QED BY <3>1, Slots
  <2>2. CASE i + 1 # IndexModulus
    <3>1. Increment(i) + k = i + (k + 1)
      BY <2>2, <1>2 DEF Indices
    <3>. QED BY <3>1
  <2>. QED BY <2>1, <2>2
<1>7. Dist(i, s) + 1 < IndexModulus => Dist(Increment(i), s) = Dist(i, s) + 1
  <2>1. Dist(Increment(i), s) = IF Increment(i) < s THEN (Increment(i) + IndexModulus) - s ELSE Increment(i) - s
    BY <1>3, <1>4
  <2>. QED BY <2>1, <1>1, <1>2, <1>3 DEF Indices
<1>8. i # s => Dist(i, Increment(s)) = Dist(i, s) - 1
  <2>1. Dist(i, Increment(s)) = IF i < Increment(s) THEN (i + IndexModulus) - Increment(s) ELSE i - Increment(s)
    BY <1>3, <1>4
  <2>. QED BY <2>1, <1>1, <1>2, <1>3 DEF Indices
<1>9. Slot(s + Dist(i, s)) = Slot(i)
  <2>1. i \in Nat /\ (s + Dist(i, s) = i \/ s + Dist(i, s) = IndexModulus + i)
    BY <1>1, <1>3 DEF Indices
  <2>. QED BY <2>1, Slots
<1>10. Dist(Increment(s), s) = 1
  <2>1. Dist(Increment(s), s) = IF Increment(s) < s THEN (Increment(s) + IndexModulus) - s ELSE Increment(s) - s
    BY <1>3, <1>4
  <2>. QED BY <2>1, <1>1, <1>2 DEF Indices
<1>. QED BY <1>4, <1>5, <1>6, <1>7, <1>8, <1>9, <1>10

-----------------------------------------------------------------------------
(* The parts of the input queue, and a descriptor that goes from one to the next *)

\* The sets of descriptors are finite; one more or one less counts one.
LEMMA DescSets ==
  ASSUME NEW S \in SUBSET Desc
  PROVE  /\ Cardinality(S) \in Nat
         /\ \A d \in Desc : d \notin S => Cardinality(S \cup {d}) = Cardinality(S) + 1
         /\ \A d \in S : Cardinality(S \ {d}) = Cardinality(S) - 1 /\ Cardinality(S) > 0
         /\ Cardinality(S) > 0 => S # {}
         /\ Cardinality(Desc) = QUEUE_SIZE
<1>1. QUEUE_SIZE \in Nat /\ QUEUE_SIZE >= 2
  BY QueueSizes
<1>2. IsFiniteSet(Desc) /\ Cardinality(Desc) = QUEUE_SIZE
  <2>1. 0 \in Int /\ QUEUE_SIZE - 1 \in Int
    BY <1>1
  <2>2. /\ IsFiniteSet(0 .. QUEUE_SIZE - 1)
        /\ Cardinality(0 .. QUEUE_SIZE - 1)
             = IF 0 > QUEUE_SIZE - 1 THEN 0 ELSE ((QUEUE_SIZE - 1) - 0) + 1
    BY <2>1, FS_Interval
  <2>3. ~(0 > QUEUE_SIZE - 1) /\ ((QUEUE_SIZE - 1) - 0) + 1 = QUEUE_SIZE
    BY <1>1
  <2>. QED BY <2>2, <2>3, Zenon DEF Desc
<1>3. IsFiniteSet(S)
  BY <1>2, FS_Subset, Zenon
<1>4. Cardinality(S) \in Nat
  BY <1>3, FS_CardinalityType, Zenon
<1>5. ASSUME NEW d \in Desc, d \notin S PROVE Cardinality(S \cup {d}) = Cardinality(S) + 1
  BY <1>3, <1>5, FS_AddElement, Zenon
<1>6. ASSUME NEW d \in S PROVE Cardinality(S \ {d}) = Cardinality(S) - 1 /\ Cardinality(S) > 0
  <2>1. Cardinality(S \ {d}) = Cardinality(S) - 1
    BY <1>3, FS_RemoveElement, Zenon
  <2>2. S # {} /\ Cardinality(S) # 0
    BY <1>3, FS_EmptySet, Zenon
  <2>. QED BY <2>1, <2>2, <1>4
<1>7. Cardinality(S) > 0 => S # {}
  <2>1. Cardinality({}) = 0
    BY FS_EmptySet, Zenon
  <2>. QED BY <2>1
<1>. QED BY <1>2, <1>4, <1>5, <1>6, <1>7

\* A line with one entry more at its end.
LEMMA LineGrows ==
  ASSUME NEW w, NEW v, NEW n \in Nat, Distinct(w, n), v[n] \notin Line(w, n),
         \A k \in 0 .. n - 1 : v[k] = w[k]
  PROVE  Line(v, n + 1) = Line(w, n) \cup {v[n]} /\ Distinct(v, n + 1)
<1>1. \A k : k \in 0 .. (n + 1) - 1 <=> k \in 0 .. n - 1 \/ k = n
  OBVIOUS
<1>2. n \notin 0 .. n - 1
  OBVIOUS
<1>3. Line(v, n + 1) = Line(w, n) \cup {v[n]}
  BY <1>1, Zenon DEF Line
<1>4. \A k \in 0 .. n - 1 : v[k] # v[n]
  BY Zenon DEF Line
<1>5. Distinct(v, n + 1)
  BY <1>1, <1>2, <1>4, Zenon DEF Distinct
<1>. QED BY <1>3, <1>5

\* A line without its first entry.
LEMMA LineShrinks ==
  ASSUME NEW w, NEW v, NEW n \in Nat, n > 0, Distinct(w, n),
         \A k \in 0 .. n - 2 : v[k] = w[k + 1]
  PROVE  /\ Line(v, n - 1) = Line(w, n) \ {w[0]} /\ Distinct(v, n - 1)
         /\ w[0] \in Line(w, n)
<1>1. /\ 0 \in 0 .. n - 1
      /\ \A k \in 0 .. n - 2 : k + 1 \in 0 .. n - 1 /\ k + 1 # 0
      /\ \A k, m \in 0 .. n - 2 : k + 1 = m + 1 => k = m
      /\ (n - 1) - 1 = n - 2
  OBVIOUS
<1>2. ASSUME NEW m \in 0 .. n - 1, m # 0 PROVE \E k \in 0 .. n - 2 : k + 1 = m
  <2>1. m - 1 \in 0 .. n - 2 /\ (m - 1) + 1 = m
    BY <1>2
  <2>. QED BY <2>1, Zenon
<1>3. w[0] \in Line(w, n)
  BY <1>1, Zenon DEF Line
<1>4. ASSUME NEW x PROVE x \in Line(v, n - 1) <=> x \in Line(w, n) \ {w[0]}
  <2>1. ASSUME x \in Line(v, n - 1) PROVE x \in Line(w, n) \ {w[0]}
    <3>1. PICK k \in 0 .. n - 2 : x = v[k]
      BY <2>1, <1>1, Zenon DEF Line
    <3>2. x = w[k + 1] /\ k + 1 \in 0 .. n - 1 /\ k + 1 # 0
      BY <3>1, <1>1, Zenon
    <3>. QED BY <3>2, <1>1, Zenon DEF Line, Distinct
  <2>2. ASSUME x \in Line(w, n) \ {w[0]} PROVE x \in Line(v, n - 1)
    <3>1. PICK m \in 0 .. n - 1 : x = w[m] /\ m # 0
      BY <2>2, Zenon DEF Line
    <3>2. PICK k \in 0 .. n - 2 : k + 1 = m
      BY <3>1, <1>2, Zenon
    <3>. QED BY <3>1, <3>2, <1>1, Zenon DEF Line
  <2>. QED BY <2>1, <2>2
<1>5. ASSUME NEW k \in 0 .. n - 2, NEW m \in 0 .. n - 2, v[k] = v[m] PROVE k = m
  <2>1. w[k + 1] = w[m + 1] /\ k + 1 \in 0 .. n - 1 /\ m + 1 \in 0 .. n - 1
    BY <1>1, <1>5, Zenon
  <2>2. k + 1 = m + 1
    BY <2>1, Zenon DEF Distinct
  <2>. QED BY <2>2, <1>1, Zenon
<1>6. Distinct(v, n - 1)
  BY <1>1, <1>5, Zenon DEF Distinct
<1>. QED BY <1>3, <1>4, <1>6, Zenon

\* push: an available descriptor goes to the end of the line to the device.
LEMMA PartsFill ==
  ASSUME NEW av, NEW w, NEW n \in Nat, NEW held, NEW h, NEW l \in Nat, NEW v, NEW d \in av,
         Parts(av, w, n, held, h, l), v[n] = d, \A k \in 0 .. n - 1 : v[k] = w[k]
  PROVE  Parts(av \ {d}, v, n + 1, held, h, l)
<1>1. d \in Desc /\ d \notin Line(w, n) /\ d \notin held /\ d \notin Line(h, l) /\ av \in SUBSET Desc
  BY Zenon DEF Parts
<1>2. Line(v, n + 1) = Line(w, n) \cup {d} /\ Distinct(v, n + 1)
  <2>1. Distinct(w, n)
    BY Zenon DEF Parts
  <2>2. Line(v, n + 1) = Line(w, n) \cup {v[n]} /\ Distinct(v, n + 1)
    BY <1>1, <2>1, LineGrows
  <2>. QED BY <2>2
<1>3. Cardinality(av \ {d}) + (n + 1) + Cardinality(held) + l = QUEUE_SIZE
  <2>1. Cardinality(av \ {d}) = Cardinality(av) - 1 /\ Cardinality(av) \in Nat
    BY <1>1, DescSets
  <2>2. held \in SUBSET Desc /\ Cardinality(av) + n + Cardinality(held) + l = QUEUE_SIZE
    BY Zenon DEF Parts
  <2>3. Cardinality(held) \in Nat
    BY <2>2, DescSets
  <2>. QED BY <2>1, <2>2, <2>3, QueueSizes
<1>. QED BY <1>1, <1>2, <1>3, Zenon DEF Parts

\* The device takes the first of the line.
LEMMA PartsFetch ==
  ASSUME NEW av, NEW w, NEW n \in Nat, NEW held, NEW h, NEW l \in Nat, NEW v, n > 0,
         Parts(av, w, n, held, h, l), \A k \in 0 .. n - 2 : v[k] = w[k + 1]
  PROVE  Parts(av, v, n - 1, held \cup {w[0]}, h, l)
<1>1. Line(v, n - 1) = Line(w, n) \ {w[0]} /\ Distinct(v, n - 1) /\ w[0] \in Line(w, n)
  <2>1. Distinct(w, n)
    BY Zenon DEF Parts
  <2>. QED BY <2>1, LineShrinks
<1>2. w[0] \in Desc /\ w[0] \notin held /\ w[0] \notin av /\ w[0] \notin Line(h, l)
  BY <1>1, Zenon DEF Parts
<1>3. Cardinality(av) + (n - 1) + Cardinality(held \cup {w[0]}) + l = QUEUE_SIZE
  <2>1. /\ held \in SUBSET Desc /\ av \in SUBSET Desc
        /\ Cardinality(av) + n + Cardinality(held) + l = QUEUE_SIZE
    BY Zenon DEF Parts
  <2>2. /\ Cardinality(held) \in Nat /\ Cardinality(av) \in Nat
        /\ Cardinality(held \cup {w[0]}) = Cardinality(held) + 1
    BY <2>1, <1>2, DescSets
  <2>. QED BY <2>1, <2>2, QueueSizes
<1>. QED BY <1>1, <1>2, <1>3, Zenon DEF Parts

\* The device puts one that it holds at the end of the line to the driver.
LEMMA PartsComplete ==
  ASSUME NEW av, NEW w, NEW n \in Nat, NEW held, NEW h, NEW l \in Nat, NEW v, NEW d \in held,
         Parts(av, w, n, held, h, l), v[l] = d, \A k \in 0 .. l - 1 : v[k] = h[k]
  PROVE  Parts(av, w, n, held \ {d}, v, l + 1)
<1>1. d \in Desc /\ d \notin Line(w, n) /\ d \notin av /\ d \notin Line(h, l) /\ held \in SUBSET Desc
  BY Zenon DEF Parts
<1>2. Line(v, l + 1) = Line(h, l) \cup {d} /\ Distinct(v, l + 1)
  <2>1. Distinct(h, l)
    BY Zenon DEF Parts
  <2>2. Line(v, l + 1) = Line(h, l) \cup {v[l]} /\ Distinct(v, l + 1)
    BY <1>1, <2>1, LineGrows
  <2>. QED BY <2>2
<1>3. Cardinality(av) + n + Cardinality(held \ {d}) + (l + 1) = QUEUE_SIZE
  <2>1. Cardinality(held \ {d}) = Cardinality(held) - 1 /\ Cardinality(held) \in Nat
    BY <1>1, DescSets
  <2>2. av \in SUBSET Desc /\ Cardinality(av) + n + Cardinality(held) + l = QUEUE_SIZE
    BY Zenon DEF Parts
  <2>3. Cardinality(av) \in Nat
    BY <2>2, DescSets
  <2>. QED BY <2>1, <2>2, <2>3, QueueSizes
<1>. QED BY <1>1, <1>2, <1>3, Zenon DEF Parts

\* pop: the first of the line to the driver is available again.
LEMMA PartsPop ==
  ASSUME NEW av, NEW w, NEW n \in Nat, NEW held, NEW h, NEW l \in Nat, NEW v, l > 0,
         Parts(av, w, n, held, h, l), \A k \in 0 .. l - 2 : v[k] = h[k + 1]
  PROVE  Parts(av \cup {h[0]}, w, n, held, v, l - 1)
<1>1. Line(v, l - 1) = Line(h, l) \ {h[0]} /\ Distinct(v, l - 1) /\ h[0] \in Line(h, l)
  <2>1. Distinct(h, l)
    BY Zenon DEF Parts
  <2>. QED BY <2>1, LineShrinks
<1>2. h[0] \in Desc /\ h[0] \notin held /\ h[0] \notin av /\ h[0] \notin Line(w, n)
  BY <1>1, Zenon DEF Parts
<1>3. Cardinality(av \cup {h[0]}) + n + Cardinality(held) + (l - 1) = QUEUE_SIZE
  <2>1. /\ held \in SUBSET Desc /\ av \in SUBSET Desc
        /\ Cardinality(av) + n + Cardinality(held) + l = QUEUE_SIZE
    BY Zenon DEF Parts
  <2>2. /\ Cardinality(held) \in Nat /\ Cardinality(av) \in Nat
        /\ Cardinality(av \cup {h[0]}) = Cardinality(av) + 1
    BY <2>1, <1>2, DescSets
  <2>. QED BY <2>1, <2>2, QueueSizes
<1>. QED BY <1>1, <1>2, <1>3, Zenon DEF Parts

-----------------------------------------------------------------------------
(* The input driver's queue                                                 *)

InputState == QueueTypes /\ Counted /\ InputInv

\* A set of numbers has a lowest one.
LEMMA LowestIs ==
  ASSUME NEW S \in SUBSET Nat, S # {}
  PROVE  Lowest(S) \in S /\ \A x \in S : Lowest(S) <= x
<1>. DEFINE R == {ij \in Nat \X Nat : ij[1] < ij[2]}
<1>1. IsWellFoundedOn(R, Nat)
  BY NatLessThanWellFounded DEF OpToRel
<1>. HIDE DEF R
<1>2. PICK x \in S : \A y \in S : ~(<<y, x>> \in R)
  BY <1>1, WFMin, Zenon
<1>3. \A y \in S : ~(y < x)
  BY <1>2, Zenon DEF R
<1>4. \A y \in S : x <= y
  BY <1>3
<1>. QED BY <1>4, Zenon DEF Lowest

\* A chain of one.
LEMMA Chains ==
  ASSUME NEW x
  PROVE  Head(<<x>>) = x /\ Last(<<x>>) = x /\ Range(<<x>>) = {x} /\ Len(<<x>>) = 1
BY DEF Last, Range

\* How many wait, and that no line is longer than the queue.
LEMMA InputCounts ==
  ASSUME InputState
  PROVE  /\ NumWaiting = Dist(idx, device.seen) + (IF Filled THEN 1 ELSE 0)
         /\ Dist(idx, device.seen) \in Nat /\ NumWaiting \in Nat /\ Len(hist.done) \in Nat
         /\ Cardinality(available) \in Nat /\ Cardinality(device.held) \in Nat
         /\ Cardinality(available) + NumWaiting + Cardinality(device.held) + Len(hist.done) = QUEUE_SIZE
<1>1. /\ idx \in Indices /\ device.seen \in Indices /\ device.held \in SUBSET Desc
      /\ available \in SUBSET Desc /\ Len(hist.done) \in Nat
  BY DEF InputState, QueueTypes
<1>2. NumWaiting = Dist(idx, device.seen) + (IF Filled THEN 1 ELSE 0)
  BY Zenon DEF NumWaiting, Dist
<1>3. Dist(idx, device.seen) \in Nat
  <2>1. Dist(idx, device.seen) \in Indices
    BY <1>1, Steps, Zenon
  <2>. QED BY <2>1, QueueSizes DEF Indices
<1>4. NumWaiting \in Nat
  BY <1>2, <1>3
<1>5. Cardinality(available) \in Nat /\ Cardinality(device.held) \in Nat
  BY <1>1, DescSets
<1>6. Cardinality(available) + NumWaiting + Cardinality(device.held) + Len(hist.done) = QUEUE_SIZE
  BY Zenon DEF InputState, InputInv, Parts
<1>. QED BY <1>1, <1>2, <1>3, <1>4, <1>5, <1>6

\* A step that leaves the queue alone.
LEMMA InputFrame ==
  ASSUME InputState, UNCHANGED <<driver, desc, buffer, ring, idx, available, popped, used, device, gpu>>,
         hist'.used = hist.used, hist'.done = hist.done, QueueTypes', Filled' <=> Filled, pc' \notin GpuPoints
  PROVE  InputState'
<1>1. Counted'
  BY DEF InputState, Counted
<1>2. Waits' = Waits /\ Dones' = Dones
  BY Zenon DEF Waits, Dones
<1>3. NumWaiting' = NumWaiting
  BY Zenon DEF NumWaiting
<1>4. InputInv'
  BY <1>2, <1>3, Zenon DEF InputState, InputInv
<1>. QED BY <1>1, <1>4 DEF InputState

\* The first half of push.
LEMMA InputFill ==
  ASSUME InputState, Fill(None), ~Filled, Filled', pc' \notin GpuPoints,
         UNCHANGED <<driver, used, device, gpu, hist>>
  PROVE  InputState'
<1>1. /\ desc \in [Desc -> [next : Desc, flags : SUBSET {"next", "write"}]]
      /\ buffer \in [Desc -> Messages] /\ ring \in [Desc -> Desc]
      /\ idx \in Indices /\ device.seen \in Indices /\ available \in SUBSET Desc
  BY DEF InputState, QueueTypes
<1>2. ChainLength = 1
  BY DEF InputState, InputInv, ChainLength
<1>3. Cardinality(available) >= 1 /\ available # {}
  <2>1. Cardinality(available) >= 1
    BY <1>2, Zenon DEF Fill, CanPush
  <2>2. Cardinality(available) > 0
    BY <2>1, InputCounts
  <2>. QED BY <2>1, <2>2, <1>1, DescSets
<1>4. PICK f \in available : f = Lowest(available)
  <2>1. available \in SUBSET Nat
    BY <1>1 DEF Desc
  <2>. QED BY <2>1, <1>3, LowestIs, Zenon
<1>5. Chain = <<f>>
  BY <1>2, <1>4, Zenon DEF Chain
<1>6. f \in Desc /\ Head(Chain) = f /\ Last(Chain) = f /\ Range(Chain) = {f}
  BY <1>1, <1>4, <1>5, Chains
<1>7. /\ available' = available \ {f} /\ idx' = idx /\ popped' = popped
      /\ ring' = [ring EXCEPT ![Slot(idx)] = f]
  BY <1>6, Zenon DEF Fill, Slot
<1>8. desc' = [d \in Desc |-> IF d = f THEN [desc[d] EXCEPT !.flags = {"write"}] ELSE desc[d]]
  <2>1. desc' = [d \in Desc |-> IF d = f THEN [desc[d] EXCEPT !.flags = {"write"}]
                               ELSE IF d = f THEN [next |-> Chain[2], flags |-> {"next"}]
                               ELSE desc[d]]
    BY <1>6, Zenon DEF Fill, LinkAll
  <2>. QED BY <2>1
<1>9. buffer' = [d \in Desc |-> IF d = f THEN None ELSE buffer[d]]
  <2>1. buffer' = [d \in Desc |-> IF d = f THEN None ELSE IF d = f THEN None ELSE buffer[d]]
    BY <1>6, Zenon DEF Fill
  <2>. QED BY <2>1
<1>10. None \in Messages
  BY DEF None, Message, Messages, Words, Kinds
<1>11. QueueTypes'
  <2>1. desc' \in [Desc -> [next : Desc, flags : SUBSET {"next", "write"}]]
    BY <1>1, <1>8
  <2>2. buffer' \in [Desc -> Messages]
    BY <1>1, <1>9, <1>10
  <2>3. ring' \in [Desc -> Desc]
    BY <1>1, <1>6, <1>7, Zenon
  <2>. QED BY <2>1, <2>2, <2>3, <1>1, <1>7, Zenon DEF InputState, QueueTypes
<1>12. Counted'
  BY <1>7, Zenon DEF InputState, Counted
<1>13. \A d \in Desc : desc'[d].next = 0 /\ "next" \notin desc'[d].flags
  BY <1>1, <1>8 DEF InputState, InputInv
<1>14. /\ NumWaiting = Dist(idx, device.seen) /\ NumWaiting' = NumWaiting + 1
       /\ NumWaiting \in Nat /\ NumWaiting \in Desc
       /\ \A k \in 0 .. NumWaiting - 1 : k \in Desc /\ k # NumWaiting /\ k \in Nat
  <2>1. NumWaiting = Dist(idx, device.seen) + 0 /\ NumWaiting' = Dist(idx, device.seen) + 1
    <3>1. NumWaiting = Dist(idx, device.seen) + (IF Filled THEN 1 ELSE 0)
      BY Zenon DEF NumWaiting, Dist
    <3>2. NumWaiting' = Dist(idx, device.seen) + (IF Filled' THEN 1 ELSE 0)
      BY <1>7, Zenon DEF NumWaiting, Dist
    <3>. QED BY <3>1, <3>2, Zenon
  <2>2. PICK w \in Nat : w = NumWaiting /\ w = Dist(idx, device.seen)
    <3>1. NumWaiting \in Nat /\ NumWaiting + 0 = NumWaiting
      BY InputCounts
    <3>2. Dist(idx, device.seen) + 0 = Dist(idx, device.seen)
      BY InputCounts
    <3>. QED BY <3>1, <3>2, <2>1, Zenon
  <2>3. PICK a \in Nat, h \in Nat, l \in Nat : a >= 1 /\ a + w + h + l = QUEUE_SIZE
    <3>1. /\ Cardinality(available) + w + Cardinality(device.held) + Len(hist.done) = QUEUE_SIZE
          /\ Cardinality(available) \in Nat /\ Cardinality(device.held) \in Nat
          /\ Len(hist.done) \in Nat
      BY <2>2, InputCounts, Zenon
    <3>. QED BY <3>1, <1>3, Zenon
  <2>4. w \in Desc /\ \A k \in 0 .. w - 1 : k \in Desc /\ k # w /\ k \in Nat
    BY <2>3, QueueSizes DEF Desc
  <2>. QED BY <2>1, <2>2, <2>4, Zenon
<1>15. /\ Waits'[NumWaiting] = f
       /\ \A k \in 0 .. NumWaiting - 1 : Waits'[k] = Waits[k]
  <2>1. Slot(device.seen + NumWaiting) = Slot(idx)
    BY <1>1, <1>14, Steps
  <2>2. device.seen \in Nat
    BY <1>1, QueueSizes DEF Indices
  <2>3. Slot(idx) \in Desc
    BY <2>1, <2>2, <1>14, Slots
  <2>4. ASSUME NEW k \in 0 .. NumWaiting - 1 PROVE Slot(device.seen + k) # Slot(idx)
    BY <2>1, <2>2, <1>14, Slots
  <2>5. /\ \A k \in Nat : Waits[k] = ring[Slot(device.seen + k)]
        /\ \A k \in Nat : Waits'[k] = ring'[Slot(device.seen + k)]
    BY Zenon DEF Waits
  <2>6. \A k \in 0 .. NumWaiting - 1 : Slot(device.seen + k) \in Desc
    <3>1. \A k \in 0 .. NumWaiting - 1 : device.seen + k \in Nat
      BY <2>2, <1>14
    <3>. QED BY <3>1, Slots
  <2>. QED BY <2>1, <2>3, <2>4, <2>5, <2>6, <1>1, <1>7, <1>14, Zenon
<1>16. Dones' = Dones
  BY <1>7, Zenon DEF Dones
<1>17. Parts(available, Waits, NumWaiting, device.held, Dones, Len(hist.done))
  BY Zenon DEF InputState, InputInv
<1>18. Parts(available', Waits', NumWaiting', device.held', Dones', Len(hist.done)')
  <2>1. Len(hist.done) \in Nat
    BY InputCounts
  <2>2. Parts(available \ {f}, Waits', NumWaiting + 1, device.held, Dones, Len(hist.done))
    BY <2>1, <1>14, <1>15, <1>17, PartsFill
  <2>. QED BY <2>2, <1>7, <1>14, <1>16, Zenon
<1>19. ASSUME NEW j \in 1 .. Len(hist.done)
       PROVE  hist.done[j].ids = <<Dones[j - 1]>> /\ hist.done[j].last = buffer'[Dones[j - 1]]
  <2>1. j - 1 \in 0 .. Len(hist.done) - 1
    BY InputCounts
  <2>2. Dones[j - 1] \in Desc /\ Dones[j - 1] # f
    BY <2>1, <1>17, Zenon DEF Parts, Line
  <2>. QED BY <2>2, <1>9, Zenon DEF InputState, InputInv
<1>20. InputInv'
  BY <1>13, <1>16, <1>18, <1>19, Zenon DEF InputState, InputInv
<1>. QED BY <1>11, <1>12, <1>20 DEF InputState

\* The second half of push.
LEMMA InputPublish ==
  ASSUME InputState, Publish, Filled, ~Filled', pc' \notin GpuPoints,
         UNCHANGED <<driver, used, device, gpu, hist>>
  PROVE  InputState'
<1>1. idx \in Indices /\ device.seen \in Indices
  BY DEF InputState, QueueTypes
<1>2. idx' = Increment(idx) /\ UNCHANGED <<desc, buffer, ring, available, popped>>
  BY DEF Publish
<1>3. Increment(idx) \in Indices
  BY <1>1, Steps
<1>4. QueueTypes' /\ Counted'
  BY <1>2, <1>3, Zenon DEF InputState, QueueTypes, Counted
<1>5. Dist(Increment(idx), device.seen) = Dist(idx, device.seen) + 1
  <2>1. Dist(idx, device.seen) + 1 < IndexModulus
    <3>1. PICK a \in Nat, w \in Nat, h \in Nat, l \in Nat :
            w = Dist(idx, device.seen) /\ a + (w + 1) + h + l = QUEUE_SIZE
      <4>1. NumWaiting = Dist(idx, device.seen) + 1
        BY InputCounts, Zenon
      <4>. QED BY <4>1, InputCounts, Zenon
    <3>2. w + 1 < IndexModulus
      BY <3>1, QueueSizes
    <3>. QED BY <3>1, <3>2, Zenon
  <2>. QED BY <2>1, <1>1, Steps
<1>6. NumWaiting' = NumWaiting
  <2>1. NumWaiting = Dist(idx, device.seen) + 1
    BY Zenon DEF NumWaiting, Dist
  <2>2. NumWaiting' = Dist(Increment(idx), device.seen) + 0
    BY <1>2, Zenon DEF NumWaiting, Dist
  <2>. QED BY <2>1, <2>2, <1>5, InputCounts
<1>7. Waits' = Waits /\ Dones' = Dones
  BY <1>2, Zenon DEF Waits, Dones
<1>8. InputInv'
  BY <1>2, <1>6, <1>7, Zenon DEF InputState, InputInv
<1>. QED BY <1>4, <1>8 DEF InputState

\* What pop finds: the chain at the front of what the device has completed.
LEMMA InputPopped ==
  ASSUME InputState, ~NothingUsed
  PROVE  /\ Len(hist.done) > (IF used.pending THEN 1 ELSE 0)
         /\ PoppedChain = <<Dones[0]>> /\ Dones[0] \in Desc
         /\ Head(hist.done).ids = <<Dones[0]>>
         /\ buffer[Dones[0]] = Head(hist.done).last
<1>1. /\ used.idx \in Nat /\ popped \in Nat /\ used.ring \in [Desc -> Desc] /\ Len(hist.done) \in Nat
      /\ used.pending \in BOOLEAN /\ hist.done \in Seq([ids : Seq(Desc), last : Messages])
  BY DEF InputState, QueueTypes
<1>2. Len(hist.done) > (IF used.pending THEN 1 ELSE 0)
  BY <1>1 DEF InputState, Counted, NothingUsed
<1>3. Dones[0] = used.ring[Slot(popped)]
  <2>1. Dones[0] = used.ring[Slot(popped + 0)] /\ popped + 0 = popped
    BY <1>1 DEF Dones
  <2>. QED BY <2>1
<1>4. Slot(popped) \in Desc
  BY <1>1, Slots
<1>5. Dones[0] \in Desc
  BY <1>1, <1>3, <1>4
<1>6. PoppedChain = <<Dones[0]>>
  <2>1. desc[Dones[0]].next = 0
    BY <1>5, Zenon DEF InputState, InputInv
  <2>. QED BY <2>1, <1>3, Zenon DEF PoppedChain, Slot
<1>7. 1 \in 1 .. Len(hist.done) /\ Head(hist.done) = hist.done[1] /\ 1 - 1 = 0
  BY <1>1, <1>2
<1>8. hist.done[1].ids = <<Dones[1 - 1]>> /\ hist.done[1].last = buffer[Dones[1 - 1]]
  BY <1>7, Zenon DEF InputState, InputInv
<1>. QED BY <1>2, <1>5, <1>6, <1>7, <1>8, Zenon

\* pop.
LEMMA InputPop ==
  ASSUME InputState, Pop, ~Filled, ~Filled', pc' \notin GpuPoints,
         UNCHANGED <<driver, used, device, gpu>>
  PROVE  InputState'
<1>. DEFINE l == Len(hist.done)
<1>1. /\ popped \in Nat /\ l \in Nat /\ hist.done \in Seq([ids : Seq(Desc), last : Messages])
      /\ available \in SUBSET Desc /\ device.seen \in Indices
      /\ hist \in [used : Nat, done : Seq([ids : Seq(Desc), last : Messages]), ignored : Nat, missed : Nat]
  BY DEF InputState, QueueTypes
<1>2. l > 0 /\ PoppedChain = <<Dones[0]>> /\ Dones[0] \in Desc
  BY InputPopped, <1>1 DEF Pop
<1>3. Returned = {Dones[0]}
  BY <1>2, Chains, Zenon DEF Returned
<1>4. /\ available' = available \cup {Dones[0]} /\ popped' = popped + 1
      /\ UNCHANGED <<desc, buffer, ring, idx>>
  BY <1>3, Zenon DEF Pop
<1>5. /\ hist'.done = Tail(hist.done) /\ hist'.used = hist.used
      /\ hist' \in [used : Nat, done : Seq([ids : Seq(Desc), last : Messages]), ignored : Nat, missed : Nat]
  <2>1. hist.done # <<>> /\ Tail(hist.done) \in Seq([ids : Seq(Desc), last : Messages])
    BY <1>1, <1>2
  <2>2. hist' = [hist EXCEPT !.done = Tail(hist.done)]
    BY <2>1, <1>1 DEF Pop
  <2>. QED BY <2>1, <2>2, <1>1, Zenon
<1>6. /\ Len(hist'.done) = l - 1 /\ l - 1 \in Nat
      /\ \A j \in 1 .. l - 1 : hist'.done[j] = hist.done[j + 1]
  BY <1>1, <1>2, <1>5
<1>7. QueueTypes'
  <2>1. available' \in SUBSET Desc /\ popped' \in Nat
    BY <1>1, <1>2, <1>4
  <2>. QED BY <2>1, <1>4, <1>5, Zenon DEF InputState, QueueTypes
<1>8. Counted'
  <2>1. /\ hist.used = popped + l /\ used.idx + (IF used.pending THEN 1 ELSE 0) = hist.used
        /\ l > (IF used.pending THEN 1 ELSE 0)
    BY InputPopped DEF InputState, Counted, Pop
  <2>2. used.idx \in Nat /\ used.pending \in BOOLEAN /\ used' = used
    BY DEF InputState, QueueTypes
  <2>3. /\ hist.used = (popped + 1) + (l - 1) /\ (used.pending => l - 1 > 0)
    BY <2>1, <2>2, <1>1
  <2>. QED BY <2>1, <2>2, <2>3, <1>4, <1>5, <1>6, Zenon DEF Counted
<1>9. \A k \in Nat : Dones'[k] = Dones[k + 1]
  <2>. TAKE k \in Nat
  <2>1. Dones'[k] = used.ring[Slot((popped + 1) + k)] /\ Dones[k + 1] = used.ring[Slot(popped + (k + 1))]
    BY <1>4 DEF Dones
  <2>2. (popped + 1) + k = popped + (k + 1)
    BY <1>1
  <2>. QED BY <2>1, <2>2, Zenon
<1>10. NumWaiting' = NumWaiting /\ NumWaiting \in Nat /\ Waits' = Waits
  BY <1>4, InputCounts, Zenon DEF NumWaiting, Waits
<1>11. Parts(available', Waits', NumWaiting', device.held', Dones', Len(hist.done)')
  <2>1. Parts(available, Waits, NumWaiting, device.held, Dones, l)
    BY Zenon DEF InputState, InputInv
  <2>2. \A k \in 0 .. l - 2 : Dones'[k] = Dones[k + 1]
    BY <1>9, <1>1
  <2>3. Parts(available \cup {Dones[0]}, Waits, NumWaiting, device.held, Dones', l - 1)
    BY <2>1, <2>2, <1>1, <1>2, <1>10, PartsPop, Zenon
  <2>. QED BY <2>3, <1>4, <1>6, <1>10, Zenon
<1>12. ASSUME NEW j \in 1 .. Len(hist'.done)
       PROVE  hist'.done[j].ids = <<Dones'[j - 1]>> /\ hist'.done[j].last = buffer[Dones'[j - 1]]
  <2>1. j + 1 \in 1 .. l /\ j \in 1 .. l - 1 /\ j - 1 \in Nat /\ (j - 1) + 1 = (j + 1) - 1
    <3>1. l \in Nat /\ j \in 1 .. l - 1
      BY <1>1, <1>6, Zenon
    <3>. QED BY <3>1
  <2>2. hist'.done[j] = hist.done[j + 1]
    BY <2>1, <1>6, Zenon
  <2>3. Dones'[j - 1] = Dones[(j + 1) - 1]
    BY <2>1, <1>9, Zenon
  <2>4. hist.done[j + 1].ids = <<Dones[(j + 1) - 1]>> /\ hist.done[j + 1].last = buffer[Dones[(j + 1) - 1]]
    BY <2>1, Zenon DEF InputState, InputInv
  <2>. QED BY <2>2, <2>3, <2>4, Zenon
<1>13. InputInv'
  BY <1>4, <1>11, <1>12, Zenon DEF InputState, InputInv
<1>. QED BY <1>7, <1>8, <1>13 DEF InputState

\* The device takes a chain.
LEMMA InputFetch ==
  ASSUME InputState, DeviceFetch PROVE InputState'
<1>1. /\ ring \in [Desc -> Desc] /\ device.held \in SUBSET Desc
      /\ idx \in Indices /\ device.seen \in Indices /\ device.seen \in Nat
  BY QueueSizes DEF InputState, QueueTypes, Indices
<1>2. /\ device.seen # idx
      /\ device' = [seen |-> Increment(device.seen), held |-> device.held \union {ring[Slot(device.seen)]}]
      /\ UNCHANGED <<driver, pc, desc, buffer, ring, idx, available, popped, used, gpu, hist>>
  BY DEF DeviceFetch, queueVars, Slot
<1>3. Waits[0] = ring[Slot(device.seen)]
  <2>1. Waits[0] = ring[Slot(device.seen + 0)] /\ device.seen + 0 = device.seen
    BY <1>1 DEF Waits
  <2>. QED BY <2>1
<1>4. /\ device'.seen = Increment(device.seen) /\ device'.held = device.held \cup {Waits[0]}
      /\ Increment(device.seen) \in Indices
  BY <1>1, <1>2, <1>3, Steps
<1>5. QueueTypes'
  <2>1. Slot(device.seen) \in Desc
    BY <1>1, Slots
  <2>2. device' \in [seen : Indices, held : SUBSET Desc]
    BY <2>1, <1>1, <1>2, <1>4
  <2>. QED BY <2>2, <1>2, Zenon DEF InputState, QueueTypes
<1>6. Counted'
  BY <1>2, Zenon DEF InputState, Counted
<1>7. Dist(idx, Increment(device.seen)) = Dist(idx, device.seen) - 1 /\ Dist(idx, device.seen) > 0
  <2>1. Dist(idx, device.seen) \in Nat /\ Dist(idx, device.seen) # 0
    BY <1>1, <1>2, InputCounts, Steps, Zenon
  <2>2. Dist(idx, Increment(device.seen)) = Dist(idx, device.seen) - 1
    BY <1>1, <1>2, Steps, Zenon
  <2>. QED BY <2>1, <2>2
<1>8. NumWaiting' = NumWaiting - 1 /\ NumWaiting > 0 /\ NumWaiting \in Nat
  <2>1. NumWaiting' = Dist(idx, Increment(device.seen)) + (IF Filled THEN 1 ELSE 0)
    BY <1>2, <1>4, Zenon DEF NumWaiting, Dist, Filled
  <2>2. PICK w \in Nat, b \in Nat : /\ w = Dist(idx, device.seen) /\ w > 0
                                   /\ b = IF Filled THEN 1 ELSE 0
    <3>1. (IF Filled THEN 1 ELSE 0) \in Nat
      OBVIOUS
    <3>. QED BY <3>1, <1>7, InputCounts, Zenon
  <2>3. NumWaiting = w + b /\ NumWaiting' = (w - 1) + b
    BY <2>1, <2>2, <1>7, InputCounts, Zenon
  <2>. QED BY <2>2, <2>3
<1>9. \A k \in Nat : Waits'[k] = Waits[k + 1]
  <2>. TAKE k \in Nat
  <2>1. Waits'[k] = ring[Slot(Increment(device.seen) + k)] /\ Waits[k + 1] = ring[Slot(device.seen + (k + 1))]
    BY <1>2, <1>4 DEF Waits
  <2>2. Slot(Increment(device.seen) + k) = Slot(device.seen + (k + 1))
    BY <1>1, Steps
  <2>. QED BY <2>1, <2>2, Zenon
<1>10. Dones' = Dones
  BY <1>2, Zenon DEF Dones
<1>11. Parts(available', Waits', NumWaiting', device.held', Dones', Len(hist.done)')
  <2>1. Parts(available, Waits, NumWaiting, device.held, Dones, Len(hist.done))
    BY Zenon DEF InputState, InputInv
  <2>2. \A k \in 0 .. NumWaiting - 2 : Waits'[k] = Waits[k + 1]
    BY <1>9, <1>8
  <2>3. Len(hist.done) \in Nat
    BY InputCounts
  <2>4. Parts(available, Waits', NumWaiting - 1, device.held \cup {Waits[0]}, Dones, Len(hist.done))
    BY <2>1, <2>2, <2>3, <1>8, PartsFetch
  <2>. QED BY <2>4, <1>2, <1>4, <1>8, <1>10, Zenon
<1>12. InputInv'
  BY <1>2, <1>10, <1>11, Zenon DEF InputState, InputInv
<1>. QED BY <1>5, <1>6, <1>12 DEF InputState

\* The device completes a chain.
LEMMA InputComplete ==
  ASSUME InputState, DeviceComplete PROVE InputState'
<1>. DEFINE l == Len(hist.done)
            Completed == [ids : Seq(Desc), last : Messages]
<1>1. /\ popped \in Nat /\ l \in Nat /\ hist.done \in Seq(Completed) /\ device.held \in SUBSET Desc
      /\ used \in [ring : [Desc -> Desc], idx : Nat, pending : BOOLEAN]
      /\ device \in [seen : Indices, held : SUBSET Desc] /\ buffer \in [Desc -> Messages]
      /\ hist \in [used : Nat, done : Seq(Completed), ignored : Nat, missed : Nat]
  BY DEF InputState, QueueTypes
<1>2. PICK head \in device.held, value \in [n : {hist.used + 1}, kind : Kinds] :
        /\ used' = [used EXCEPT !.ring[used.idx % QUEUE_SIZE] = head, !.pending = TRUE]
        /\ device' = [device EXCEPT !.held = @ \ {head}]
        /\ buffer' = [buffer EXCEPT ![Last(DeviceChain(head))] = value]
        /\ hist' = [hist EXCEPT !.used = @ + 1,
                                !.done = Append(@, [ids |-> DeviceChain(head), last |-> value])]
        /\ gpu' = IF value.kind = "ok"
                  THEN [gpu EXCEPT !.done = @ \union {buffer[head].kind}] ELSE gpu
  BY Zenon DEF DeviceComplete, InputState, InputInv
<1>3. ~used.pending /\ UNCHANGED <<driver, pc, desc, ring, idx, available, popped>>
  BY DEF DeviceComplete
<1>4. head \in Desc /\ value \in Messages /\ gpu' = gpu
  <2>1. value.kind # "ok"
    BY DEF Kinds
  <2>2. value \in Messages
    BY <1>1 DEF Messages, Words, Kinds
  <2>. QED BY <2>1, <2>2, <1>1, <1>2
<1>5. DeviceChain(head) = <<head>> /\ Last(DeviceChain(head)) = head
  <2>1. "next" \notin desc[head].flags
    BY <1>4, Zenon DEF InputState, InputInv
  <2>2. DeviceChain(head) = <<head>>
    BY <2>1, Zenon DEF DeviceChain
  <2>. QED BY <2>2, Chains, Zenon
<1>6. used.idx = popped + l /\ l < QUEUE_SIZE /\ hist.used = popped + l
  <2>1. used.idx = popped + l /\ hist.used = popped + l
    BY <1>1, <1>3 DEF InputState, Counted
  <2>2. Cardinality(device.held) > 0
    BY <1>1, DescSets, Zenon
  <2>. QED BY <2>1, <2>2, InputCounts, QueueSizes
<1>7. Slot(popped + l) \in Desc /\ \A k \in 0 .. l - 1 : Slot(popped + k) # Slot(popped + l) /\ Slot(popped + k) \in Desc
  <2>1. popped + l \in Nat /\ l \in Desc /\ \A k \in 0 .. l - 1 : k \in Desc /\ k # l /\ popped + k \in Nat
    <3>1. PICK n \in Nat, p \in Nat, q \in Nat : n = l /\ p = popped /\ q = QUEUE_SIZE /\ n < q
      BY <1>1, <1>6, QueueSizes
    <3>2. p + n \in Nat /\ n \in 0 .. q - 1 /\ \A k \in 0 .. n - 1 : k \in 0 .. q - 1 /\ k # n /\ p + k \in Nat
      BY <3>1
    <3>. QED BY <3>1, <3>2, Zenon DEF Desc
  <2>2. Slot(popped + l) \in Desc /\ \A k \in 0 .. l - 1 : Slot(popped + k) \in Desc
    BY <2>1, Slots, Zenon
  <2>3. \A k, m \in Desc : k # m => Slot(popped + k) # Slot(popped + m)
    BY <1>1, Slots, Zenon
  <2>. QED BY <2>1, <2>2, <2>3, Zenon
<1>8. /\ used'.ring = [used.ring EXCEPT ![Slot(popped + l)] = head] /\ used'.idx = used.idx /\ used'.pending = TRUE
      /\ used' \in [ring : [Desc -> Desc], idx : Nat, pending : BOOLEAN]
  <2>1. used' = [used EXCEPT !.ring[Slot(popped + l)] = head, !.pending = TRUE]
    BY <1>2, <1>6, Zenon DEF Slot
  <2>. QED BY <2>1, <1>1, <1>4, <1>7, Zenon
<1>9. buffer' = [buffer EXCEPT ![head] = value] /\ buffer' \in [Desc -> Messages]
  <2>1. buffer' = [buffer EXCEPT ![head] = value]
    BY <1>2, <1>5, Zenon
  <2>. QED BY <2>1, <1>1, <1>4
<1>10. /\ hist'.done = Append(hist.done, [ids |-> <<head>>, last |-> value]) /\ hist'.used = hist.used + 1
       /\ hist' \in [used : Nat, done : Seq(Completed), ignored : Nat, missed : Nat]
  <2>1. hist' = [hist EXCEPT !.used = @ + 1, !.done = Append(@, [ids |-> <<head>>, last |-> value])]
    BY <1>2, <1>5, Zenon
  <2>2. <<head>> \in Seq(Desc)
    BY <1>4
  <2>3. Append(hist.done, [ids |-> <<head>>, last |-> value]) \in Seq(Completed)
    BY <2>2, <1>1, <1>4
  <2>4. PICK u \in Nat, d \in Seq(Completed) :
          u = hist.used + 1 /\ d = Append(hist.done, [ids |-> <<head>>, last |-> value])
    <3>1. hist.used + 1 \in Nat
      BY <1>1
    <3>. QED BY <3>1, <2>3, Zenon
  <2>5. hist' = [used |-> u, done |-> d, ignored |-> hist.ignored, missed |-> hist.missed]
    BY <2>1, <2>4, <1>1, Zenon
  <2>. QED BY <2>4, <2>5, <1>1
<1>11. /\ Len(hist'.done) = l + 1 /\ hist'.done[l + 1] = [ids |-> <<head>>, last |-> value]
       /\ \A j \in 1 .. l : hist'.done[j] = hist.done[j]
  BY <1>1, <1>10
<1>12. device'.held = device.held \ {head} /\ device'.seen = device.seen
       /\ device' \in [seen : Indices, held : SUBSET Desc]
  BY <1>1, <1>2
<1>13. QueueTypes'
  BY <1>3, <1>4, <1>8, <1>9, <1>10, <1>12, Zenon DEF InputState, QueueTypes
<1>14. Counted'
  BY <1>1, <1>3, <1>6, <1>8, <1>10, <1>11 DEF Counted
<1>15. Dones'[l] = head /\ \A k \in 0 .. l - 1 : Dones'[k] = Dones[k]
  <2>1. /\ \A k \in Nat : Dones[k] = used.ring[Slot(popped + k)]
        /\ \A k \in Nat : Dones'[k] = used'.ring[Slot(popped + k)]
    BY <1>3, Zenon DEF Dones
  <2>2. \A k \in 0 .. l - 1 : k \in Nat
    BY <1>1
  <2>3. used.ring \in [Desc -> Desc]
    BY <1>1
  <2>4. /\ used'.ring[Slot(popped + l)] = head
        /\ \A k \in 0 .. l - 1 : used'.ring[Slot(popped + k)] = used.ring[Slot(popped + k)]
    <3>1. PICK r, t : r \in [Desc -> Desc] /\ r = used.ring /\ t = used'.ring /\ t = [r EXCEPT ![Slot(popped + l)] = head]
      BY <2>3, <1>8, Zenon
    <3>2. t[Slot(popped + l)] = head /\ \A k \in 0 .. l - 1 : t[Slot(popped + k)] = r[Slot(popped + k)]
      BY <3>1, <1>7, Zenon
    <3>. QED BY <3>1, <3>2, Zenon
  <2>. QED BY <2>1, <2>2, <2>4, <1>1, Zenon
<1>16. NumWaiting' = NumWaiting /\ NumWaiting \in Nat /\ Waits' = Waits
  BY <1>3, <1>12, InputCounts, Zenon DEF NumWaiting, Waits, Filled
<1>17. Parts(available, Waits, NumWaiting, device.held, Dones, l)
  BY Zenon DEF InputState, InputInv
<1>18. Parts(available', Waits', NumWaiting', device.held', Dones', Len(hist.done)')
  <2>1. Parts(available, Waits, NumWaiting, device.held \ {head}, Dones', l + 1)
    BY <1>1, <1>15, <1>16, <1>17, PartsComplete, Zenon
  <2>. QED BY <2>1, <1>3, <1>11, <1>12, <1>16, Zenon
<1>19. ASSUME NEW j \in 1 .. Len(hist'.done)
       PROVE  hist'.done[j].ids = <<Dones'[j - 1]>> /\ hist'.done[j].last = buffer'[Dones'[j - 1]]
  <2>1. CASE j \in 1 .. l
    <3>1. j - 1 \in 0 .. l - 1
      BY <2>1, <1>1
    <3>2. Dones'[j - 1] = Dones[j - 1] /\ hist'.done[j] = hist.done[j]
      BY <3>1, <2>1, <1>11, <1>15, Zenon
    <3>3. Dones[j - 1] \in Desc /\ Dones[j - 1] # head
      BY <3>1, <1>17, Zenon DEF Parts, Line
    <3>4. buffer'[Dones[j - 1]] = buffer[Dones[j - 1]]
      BY <3>3, <1>1, <1>9, Zenon
    <3>. QED BY <3>2, <3>4, <2>1, Zenon DEF InputState, InputInv
  <2>2. CASE j = l + 1
    <3>1. j - 1 = l /\ hist'.done[j].ids = <<head>> /\ hist'.done[j].last = value
      BY <2>2, <1>1, <1>11
    <3>2. buffer'[head] = value
      BY <1>1, <1>4, <1>9, Zenon
    <3>. QED BY <3>1, <3>2, <1>15, Zenon
  <2>3. j \in 1 .. l \/ j = l + 1
    <3>1. l \in Nat /\ j \in 1 .. l + 1
      BY <1>1, <1>11, Zenon
    <3>. QED BY <3>1
  <2>. QED BY <2>1, <2>2, <2>3, Zenon
<1>20. InputInv'
  BY <1>3, <1>4, <1>18, <1>19, Zenon DEF InputState, InputInv
<1>. QED BY <1>13, <1>14, <1>20 DEF InputState

\* The device publishes an element, in either driver's queue.
LEMMA PublishCounts ==
  ASSUME QueueTypes, Counted, BeforeWrap, DevicePublish
  PROVE  /\ QueueTypes' /\ Counted' /\ used'.ring = used.ring
         /\ UNCHANGED <<driver, pc, queueVars, device, gpu, hist>>
<1>1. /\ used \in [ring : [Desc -> Desc], idx : Nat, pending : BOOLEAN] /\ hist.used \in Nat
  BY DEF QueueTypes
<1>2. used.idx + 1 = hist.used /\ used.idx + 1 < IndexModulus
  BY DEF Counted, BeforeWrap, DevicePublish
<1>3. Increment(used.idx) = used.idx + 1
  BY <1>1, <1>2, QueueSizes DEF Increment
<1>4. /\ used'.ring = used.ring /\ used'.idx = used.idx + 1 /\ used'.pending = FALSE
      /\ used' \in [ring : [Desc -> Desc], idx : Nat, pending : BOOLEAN]
  <2>1. used' = [used EXCEPT !.pending = FALSE, !.idx = Increment(@)]
    BY DEF DevicePublish
  <2>2. PICK n \in Nat : n = used.idx + 1 /\ n = Increment(used.idx)
    BY <1>1, <1>3
  <2>3. used' = [ring |-> used.ring, idx |-> n, pending |-> FALSE]
    BY <2>1, <2>2, <1>1, Zenon
  <2>. QED BY <2>2, <2>3, <1>1
<1>5. UNCHANGED <<driver, pc, queueVars, device, gpu, hist>>
  BY Zenon DEF DevicePublish
<1>6. QueueTypes'
  BY <1>4, <1>5, Zenon DEF QueueTypes, queueVars
<1>7. Counted'
  BY <1>1, <1>2, <1>4, <1>5 DEF Counted, queueVars
<1>. QED BY <1>4, <1>5, <1>6, <1>7

\* The device publishes an event.
LEMMA InputPublished ==
  ASSUME InputState, BeforeWrap, DevicePublish PROVE InputState'
<1>1. /\ QueueTypes' /\ Counted' /\ used'.ring = used.ring
      /\ UNCHANGED <<driver, pc, queueVars, device, gpu, hist>>
  BY PublishCounts DEF InputState
<1>2. Waits' = Waits /\ Dones' = Dones /\ NumWaiting' = NumWaiting
  BY <1>1, Zenon DEF Waits, Dones, NumWaiting, Filled, queueVars
<1>3. InputInv'
  BY <1>1, <1>2, Zenon DEF InputState, InputInv, queueVars
<1>. QED BY <1>1, <1>3 DEF InputState

-----------------------------------------------------------------------------
(* The GPU driver's queue                                                    *)

GpuState == QueueTypes /\ Counted /\ GpuInv

\* The chain of the first two descriptors.
LEMMA FirstTwo ==
  /\ Head(<<0, 1>>) = 0 /\ Last(<<0, 1>>) = 1 /\ Range(<<0, 1>>) = {0, 1}
  /\ Len(<<0, 1>>) = 2 /\ <<0, 1>>[2] = 1
BY DEF Last, Range

\* The commands of initialize_framebuffer, one by one.
LEMMA CommandLists ==
  /\ Head(<<"CREATE_2D", "ATTACH_BACKING", "SET_SCANOUT">>) = "CREATE_2D"
  /\ Tail(<<"CREATE_2D", "ATTACH_BACKING", "SET_SCANOUT">>) = <<"ATTACH_BACKING", "SET_SCANOUT">>
  /\ Head(<<"ATTACH_BACKING", "SET_SCANOUT">>) = "ATTACH_BACKING"
  /\ Tail(<<"ATTACH_BACKING", "SET_SCANOUT">>) = <<"SET_SCANOUT">>
  /\ Head(<<"SET_SCANOUT">>) = "SET_SCANOUT" /\ Tail(<<"SET_SCANOUT">>) = <<>>
OBVIOUS

\* The types, and what a descriptor of the queue is.
LEMMA GpuTypes ==
  ASSUME GpuState
  PROVE  /\ desc \in [Desc -> [next : Desc, flags : SUBSET {"next", "write"}]]
         /\ buffer \in [Desc -> Messages] /\ ring \in [Desc -> Desc]
         /\ idx \in Indices /\ device.seen \in Indices /\ device.seen \in Nat /\ popped \in Nat
         /\ used \in [ring : [Desc -> Desc], idx : Nat, pending : BOOLEAN]
         /\ gpu \in [call : {"none", "display_info", "initialize_framebuffer", "flush"},
                     todo : Seq(Words), result : Words \cup {"none"}, done : SUBSET Words]
         /\ hist \in [used : Nat, done : Seq([ids : Seq(Desc), last : Messages]), ignored : Nat, missed : Nat]
         /\ gpu.todo \in Seq(Words) /\ (gpu.todo # <<>> => Head(gpu.todo) \in Words)
         /\ 0 \in Desc /\ 1 \in Desc
<1>1. QueueTypes
  BY DEF GpuState
<1>2. device.seen \in Indices
  BY <1>1 DEF QueueTypes
<1>3. device.seen \in Nat /\ 0 \in Desc /\ 1 \in Desc
  BY <1>2, QueueSizes DEF Indices
<1>4. gpu.todo \in Seq(Words)
  BY <1>1 DEF QueueTypes
<1>5. gpu.todo # <<>> => Head(gpu.todo) \in Words
  BY <1>4
<1>. QED BY <1>1, <1>2, <1>3, <1>4, <1>5, Zenon DEF QueueTypes

\* A step that leaves the queue and the call alone.
LEMMA GpuFrame ==
  ASSUME GpuState, UNCHANGED <<driver, queueVars, used, device, gpu, hist>>,
         pc \notin {"sendPublish", "notify", "wait"},
         pc' \notin {"sendPublish", "notify", "wait", "send"}, pc' \notin InputPoints
  PROVE  GpuState'
<1>1. QueueTypes' /\ Counted'
  BY Zenon DEF GpuState, QueueTypes, Counted, queueVars
<1>2. GpuInv'
  BY Zenon DEF GpuState, GpuInv, Nothing, Progress, queueVars
<1>. QED BY <1>1, <1>2 DEF GpuState

\* A call of the driver.
LEMMA GpuCall == ASSUME GpuState, Call PROVE GpuState'
<1>1. PICK call \in {"display_info", "initialize_framebuffer", "flush"} :
        gpu' = [gpu EXCEPT !.call = call, !.todo = Commands(call), !.result = "none"]
  BY Zenon DEF Call
<1>2. /\ pc = "idle" /\ pc' = "send" /\ UNCHANGED <<driver, queueVars, used, device, hist>>
  BY DEF Call
<1>3. /\ Commands(call) \in Seq(Words) /\ Commands(call) # <<>>
      /\ call = "initialize_framebuffer" =>
           Commands(call) = <<"CREATE_2D", "ATTACH_BACKING", "SET_SCANOUT">>
  <2>1. CASE call = "display_info"
    BY <2>1 DEF Commands, Words
  <2>2. CASE call = "initialize_framebuffer"
    BY <2>2 DEF Commands, Words
  <2>3. CASE call = "flush"
    BY <2>3 DEF Commands, Words
  <2>. QED BY <2>1, <2>2, <2>3
<1>4. /\ gpu'.call = call /\ gpu'.todo = Commands(call) /\ gpu'.result = "none"
      /\ gpu' \in [call : {"none", "display_info", "initialize_framebuffer", "flush"},
                   todo : Seq(Words), result : Words \cup {"none"}, done : SUBSET Words]
  <2>1. PICK todo : todo = Commands(call)
    OBVIOUS
  <2>2. gpu' = [call |-> call, todo |-> todo, result |-> "none", done |-> gpu.done]
    BY <2>1, <1>1, GpuTypes, Zenon
  <2>. QED BY <2>1, <2>2, <1>3, GpuTypes
<1>5. QueueTypes' /\ Counted'
  BY <1>2, <1>4, Zenon DEF GpuState, QueueTypes, Counted, queueVars
<1>6. Progress'
  BY <1>3, <1>4, Zenon DEF Progress
<1>7. GpuInv'
  BY <1>2, <1>3, <1>4, <1>6, Zenon DEF GpuState, GpuInv, Nothing, queueVars, InputPoints
<1>. QED BY <1>5, <1>7 DEF GpuState

\* The lowest descriptors are the first two.
LEMMA LowestTwo == Lowest(Desc) = 0 /\ Lowest(Desc \ {0}) = 1
<1>1. Desc \in SUBSET Nat /\ 0 \in Desc /\ 1 \in Desc
  BY QueueSizes DEF Desc
<1>2. Lowest(Desc) \in Desc /\ Lowest(Desc) <= 0
  BY <1>1, LowestIs
<1>3. Lowest(Desc \ {0}) \in Desc \ {0} /\ Lowest(Desc \ {0}) <= 1
  BY <1>1, LowestIs
<1>4. PICK a, b : a = Lowest(Desc) /\ b = Lowest(Desc \ {0})
  OBVIOUS
<1>5. a \in Nat /\ a <= 0 /\ b \in Nat /\ b # 0 /\ b <= 1
  BY <1>1, <1>2, <1>3, <1>4, Zenon
<1>6. a = 0 /\ b = 1
  BY <1>5
<1>. QED BY <1>4, <1>6, Zenon

\* The first half of push in send_control.
LEMMA GpuFill == ASSUME GpuState, SendFill PROVE GpuState'
<1>1. /\ pc = "send" /\ UNCHANGED <<driver, used, device, gpu, hist>>
  BY DEF SendFill
<1>2. /\ available = Desc /\ Nothing /\ driver = "gpu" /\ gpu.todo # <<>> /\ gpu.result = "none"
      /\ \A d \in Desc : d # 0 => desc[d].next = 0
  BY <1>1, Zenon DEF GpuState, GpuInv
<1>3. ChainLength = 2
  BY <1>2 DEF ChainLength
<1>4. CanPush
  <2>1. Cardinality(Desc) = QUEUE_SIZE
    BY DescSets
  <2>. QED BY <2>1, <1>2, <1>3, QueueSizes DEF CanPush
<1>5. Chain = <<0, 1>>
  BY <1>2, <1>3, LowestTwo DEF Chain
<1>6. Head(Chain) = 0 /\ Last(Chain) = 1 /\ Range(Chain) = {0, 1} /\ Chain[2] = 1
  BY <1>5, FirstTwo, Zenon
<1>7. Fill(Message(Head(gpu.todo))) /\ pc' = "sendPublish"
  BY <1>4, Zenon DEF SendFill
<1>8. /\ available' = Desc \ {0, 1} /\ idx' = idx /\ popped' = popped
      /\ ring' = [ring EXCEPT ![Slot(idx)] = 0]
  BY <1>2, <1>6, <1>7, Zenon DEF Fill, Slot
<1>9. desc' = [d \in Desc |-> IF d = 1 THEN [desc[d] EXCEPT !.flags = {"write"}]
                              ELSE IF d = 0 THEN [next |-> 1, flags |-> {"next"}] ELSE desc[d]]
  BY <1>6, <1>7, Zenon DEF Fill, LinkAll
<1>10. buffer' = [d \in Desc |-> IF d = 1 THEN None
                                ELSE IF d = 0 THEN Message(Head(gpu.todo)) ELSE buffer[d]]
  BY <1>6, <1>7, Zenon DEF Fill
<1>11. desc' \in [Desc -> [next : Desc, flags : SUBSET {"next", "write"}]]
  <2>1. 0 \in Desc /\ 1 \in Desc /\ desc \in [Desc -> [next : Desc, flags : SUBSET {"next", "write"}]]
    BY QueueSizes DEF GpuState, QueueTypes
  <2>. QED BY <2>1, <1>9
<1>12. /\ desc'[0] = [next |-> 1, flags |-> {"next"}]
       /\ desc'[1] = [next |-> 0, flags |-> {"write"}]
       /\ \A d \in Desc : d # 0 => desc'[d].next = 0
  <2>1. 0 \in Desc /\ 1 \in Desc /\ desc \in [Desc -> [next : Desc, flags : SUBSET {"next", "write"}]]
    BY QueueSizes DEF GpuState, QueueTypes
  <2>2. /\ desc'[0] = [next |-> 1, flags |-> {"next"}] /\ desc'[1] = [desc[1] EXCEPT !.flags = {"write"}]
        /\ \A d \in Desc : d # 0 /\ d # 1 => desc'[d] = desc[d]
    BY <2>1, <1>9
  <2>3. desc'[1] = [next |-> 0, flags |-> {"write"}]
    <3>1. desc[1] \in [next : Desc, flags : SUBSET {"next", "write"}] /\ desc[1].next = 0
      BY <2>1, <1>2
    <3>2. PICK r : r = desc[1]
      OBVIOUS
    <3>3. [r EXCEPT !.flags = {"write"}] = [next |-> 0, flags |-> {"write"}]
      BY <3>1, <3>2
    <3>. QED BY <3>2, <3>3, <2>2, Zenon
  <2>. QED BY <2>2, <2>3, <1>2
<1>13. buffer' \in [Desc -> Messages] /\ buffer'[0].kind = Head(gpu.todo)
  <2>1. /\ None \in Messages /\ Message(Head(gpu.todo)) \in Messages
        /\ Message(Head(gpu.todo)).kind = Head(gpu.todo)
    BY <1>2, GpuTypes DEF None, Message, Messages, Words, Kinds
  <2>. QED BY <2>1, <1>10, GpuTypes
<1>14. Slot(idx) \in Desc /\ ring' \in [Desc -> Desc] /\ ring'[Slot(idx)] = 0
  <2>1. Slot(idx) \in Desc
    BY <1>2, GpuTypes, Slots DEF Nothing
  <2>. QED BY <2>1, <1>8, GpuTypes
<1>15. available' \in SUBSET Desc
  BY <1>8
<1>16. QueueTypes' /\ Counted'
  BY <1>1, <1>8, <1>11, <1>13, <1>14, <1>15, Zenon DEF GpuState, QueueTypes, Counted
<1>17. Sent' /\ Nothing'
  BY <1>1, <1>2, <1>8, <1>12, <1>13, Zenon DEF Sent, Nothing
<1>18. Progress'
  BY <1>1, Zenon DEF GpuState, GpuInv, Progress
<1>19. GpuInv'
  BY <1>1, <1>2, <1>7, <1>8, <1>12, <1>14, <1>17, <1>18, Zenon DEF GpuInv, InputPoints
<1>. QED BY <1>16, <1>19 DEF GpuState

\* The second half.
LEMMA GpuPublish == ASSUME GpuState, SendPublish PROVE GpuState'
<1>1. /\ pc = "sendPublish" /\ pc' = "notify" /\ idx' = Increment(idx)
      /\ UNCHANGED <<driver, desc, buffer, ring, available, popped, used, device, gpu, hist>>
  BY DEF SendPublish, Publish
<1>2. Sent /\ Nothing /\ ring[Slot(idx)] = 0
  BY <1>1, Zenon DEF GpuState, GpuInv
<1>3. Increment(idx) \in Indices
  BY GpuTypes, Steps
<1>4. QueueTypes' /\ Counted'
  BY <1>1, <1>3, Zenon DEF GpuState, QueueTypes, Counted
<1>5. Sent' /\ Offered'
  BY <1>1, <1>2, Zenon DEF Sent, Nothing, Offered
<1>6. GpuInv'
  BY <1>1, <1>5, Zenon DEF GpuState, GpuInv, Progress, InputPoints
<1>. QED BY <1>4, <1>6 DEF GpuState

\* The device is told.
LEMMA GpuNotify == ASSUME GpuState, NotifyDevice PROVE GpuState'
<1>1. /\ pc = "notify" /\ pc' = "wait" /\ UNCHANGED <<driver, queueVars, used, device, gpu, hist>>
  BY DEF NotifyDevice
<1>2. QueueTypes' /\ Counted'
  BY <1>1, Zenon DEF GpuState, QueueTypes, Counted, queueVars
<1>3. Sent /\ (Offered \/ Worked \/ Answered)
  BY <1>1, Zenon DEF GpuState, GpuInv
<1>4. Sent' /\ (Offered' \/ Worked' \/ Answered')
  BY <1>1, <1>3, Zenon DEF Sent, Offered, Worked, Answered, queueVars
<1>5. GpuInv'
  BY <1>1, <1>4, Zenon DEF GpuState, GpuInv, Progress, InputPoints, queueVars
<1>. QED BY <1>2, <1>5 DEF GpuState

\* What pop finds while send_control waits: the answer, and all of the chain.
LEMMA GpuPopped ==
  ASSUME GpuState, pc = "wait", ~NothingUsed
  PROVE  /\ Sent /\ Answered /\ Len(hist.done) > (IF used.pending THEN 1 ELSE 0)
         /\ PoppedChain = <<0, 1>> /\ Head(hist.done).ids = <<0, 1>>
         /\ Head(hist.done).last = buffer[1] /\ Last(PoppedChain) = 1
<1>1. Sent /\ (Offered \/ Worked \/ Answered)
  BY Zenon DEF GpuState, GpuInv
<1>2. /\ used.idx \in Nat /\ popped \in Nat /\ used.pending \in BOOLEAN /\ Len(hist.done) \in Nat
  BY GpuTypes
<1>3. Len(hist.done) > (IF used.pending THEN 1 ELSE 0)
  BY <1>2 DEF GpuState, Counted, NothingUsed
<1>4. hist.done # <<>>
  BY <1>2, <1>3
<1>5. Answered
  BY <1>1, <1>4, Zenon DEF Offered, Worked
<1>6. PoppedChain = <<0, 1>>
  <2>1. used.ring[popped % QUEUE_SIZE] = 0
    BY <1>5, Zenon DEF Answered, Slot
  <2>2. desc[0].next = 1 /\ desc[1].next = 0 /\ 1 # 0
    BY <1>1 DEF Sent
  <2>. QED BY <2>1, <2>2, Zenon DEF PoppedChain
<1>7. Head(hist.done).ids = <<0, 1>> /\ Head(hist.done).last = buffer[1]
  <2>1. PICK c : c = [ids |-> <<0, 1>>, last |-> buffer[1]]
    BY Zenon
  <2>2. Head(hist.done) = c
    BY <2>1, <1>5 DEF Answered
  <2>. QED BY <2>1, <2>2
<1>8. Last(PoppedChain) = 1
  BY <1>6, FirstTwo, Zenon
<1>. QED BY <1>1, <1>3, <1>5, <1>6, <1>7, <1>8, Zenon

\* The answer is popped: the call ends, or goes on with its next command.
LEMMA GpuReceive == ASSUME GpuState, ReceiveAnswer PROVE GpuState'
<1>1. pc = "wait" /\ Pop /\ UNCHANGED <<driver, used, device>>
  BY DEF ReceiveAnswer
<1>2. /\ Sent /\ Answered /\ Len(hist.done) > (IF used.pending THEN 1 ELSE 0)
      /\ PoppedChain = <<0, 1>> /\ Last(PoppedChain) = 1
  BY <1>1, GpuPopped DEF Pop
<1>3. PICK answer : answer = buffer[1].kind
  OBVIOUS
<1>4. answer \in {"ok", "err"} /\ (answer = "ok" => Head(gpu.todo) \in gpu.done) /\ gpu.todo # <<>>
  BY <1>2, <1>3, Zenon DEF Answered, Sent
<1>5. PICK todo : todo = Remaining(answer)
  OBVIOUS
<1>6. /\ todo = IF answer = "err" THEN <<>> ELSE Tail(gpu.todo)
      /\ todo \in Seq(Words)
  <2>1. todo = IF answer = "err" THEN <<>> ELSE Tail(gpu.todo)
    BY <1>5, Zenon DEF Remaining
  <2>2. gpu.todo \in Seq(Words)
    BY GpuTypes
  <2>. QED BY <2>1, <2>2, <1>4
<1>7. PopFits
  <2>1. driver = "gpu"
    BY DEF GpuState, GpuInv
  <2>. QED BY <2>1, <1>2 DEF PopFits, ChainLength
<1>8. /\ gpu' = [gpu EXCEPT !.todo = todo, !.result = IF todo = <<>> THEN answer ELSE @]
      /\ pc' = IF todo = <<>> THEN "idle" ELSE "send"
  BY <1>2, <1>3, <1>5, <1>7, Zenon DEF ReceiveAnswer
<1>9. /\ gpu'.call = gpu.call /\ gpu'.todo = todo /\ gpu'.done = gpu.done
      /\ gpu'.result = IF todo = <<>> THEN answer ELSE gpu.result
      /\ gpu' \in [call : {"none", "display_info", "initialize_framebuffer", "flush"},
                   todo : Seq(Words), result : Words \cup {"none"}, done : SUBSET Words]
  <2>1. PICK r : r = (IF todo = <<>> THEN answer ELSE gpu.result)
    OBVIOUS
  <2>2. answer \in Words
    BY <1>4 DEF Words
  <2>3. gpu' = [call |-> gpu.call, todo |-> todo, result |-> r, done |-> gpu.done]
    BY <2>1, <1>8, GpuTypes, Zenon
  <2>. QED BY <2>1, <2>2, <2>3, <1>6, GpuTypes
<1>10. /\ available' = Desc /\ popped' = popped + 1 /\ UNCHANGED <<desc, buffer, ring, idx>>
  <2>1. Returned = {0, 1}
    BY <1>2, FirstTwo, Zenon DEF Returned
  <2>2. available' = (Desc \ {0, 1}) \cup {0, 1} /\ popped' = popped + 1 /\ UNCHANGED <<desc, buffer, ring, idx>>
    BY <2>1, <1>1, <1>2, Zenon DEF Pop, Sent
  <2>3. 0 \in Desc /\ 1 \in Desc
    BY QueueSizes
  <2>. QED BY <2>2, <2>3
<1>11. /\ hist'.done = <<>> /\ hist'.used = hist.used
       /\ hist' \in [used : Nat, done : Seq([ids : Seq(Desc), last : Messages]), ignored : Nat, missed : Nat]
  <2>1. PICK c : c = [ids |-> <<0, 1>>, last |-> buffer[1]]
    BY Zenon
  <2>2. hist.done = <<c>>
    BY <2>1, <1>2, Zenon DEF Answered
  <2>3. Tail(hist.done) = <<>> /\ hist.done # <<>>
    BY <2>2
  <2>4. hist' = [hist EXCEPT !.done = <<>>]
    BY <2>3, <1>1, Zenon DEF Pop
  <2>5. hist \in [used : Nat, done : Seq([ids : Seq(Desc), last : Messages]), ignored : Nat, missed : Nat]
    BY GpuTypes, Zenon
  <2>6. <<>> \in Seq([ids : Seq(Desc), last : Messages])
    OBVIOUS
  <2>. QED BY <2>4, <2>5, <2>6, Zenon
<1>12. QueueTypes'
  <2>1. available' \in SUBSET Desc /\ popped' \in Nat
    BY <1>10, GpuTypes
  <2>. QED BY <2>1, <1>1, <1>9, <1>10, <1>11, Zenon DEF GpuState, QueueTypes
<1>13. Counted'
  <2>1. Len(hist.done) = 1 /\ Len(hist'.done) = 0
    BY <1>2, <1>11 DEF Answered
  <2>2. used.pending = FALSE
    BY <2>1, <1>2, GpuTypes
  <2>3. /\ hist.used = popped + 1 /\ used.idx + 0 = hist.used
    BY <2>1, <2>2, Zenon DEF GpuState, Counted
  <2>4. popped + 1 = (popped + 1) + 0
    BY GpuTypes
  <2>. QED BY <2>1, <2>2, <2>3, <2>4, <1>1, <1>10, <1>11, Zenon DEF Counted
<1>14. Progress'
  <2>. DEFINE C == "CREATE_2D"  A == "ATTACH_BACKING"  S == "SET_SCANOUT"
  <2>1. SUFFICES ASSUME gpu.call = "initialize_framebuffer" PROVE Progress'
    BY <1>9, Zenon DEF Progress
  <2>2. CASE answer = "err"
    <3>1. gpu'.todo = <<>> /\ gpu'.result = "err"
      BY <2>2, <1>6, <1>9, Zenon
    <3>2. "err" # "ok"
      OBVIOUS
    <3>. QED BY <3>1, <3>2, Zenon DEF Progress
  <2>3. CASE answer # "err"
    <3>1. todo = Tail(gpu.todo) /\ Head(gpu.todo) \in gpu.done
      BY <2>3, <1>4, <1>6, Zenon
    <3>2. CASE gpu.todo = <<C, A, S>>
      <4>1. todo = <<A, S>> /\ C \in gpu.done
        BY <3>1, <3>2, CommandLists, Zenon
      <4>. QED BY <4>1, <1>9, Zenon DEF Progress
    <3>3. CASE gpu.todo = <<A, S>> /\ {C} \subseteq gpu.done
      <4>1. todo = <<S>> /\ {C, A} \subseteq gpu.done
        BY <3>1, <3>3, CommandLists, Zenon
      <4>. QED BY <4>1, <1>9, Zenon DEF Progress
    <3>4. CASE gpu.todo = <<S>> /\ {C, A} \subseteq gpu.done
      <4>1. todo = <<>> /\ {C, A, S} \subseteq gpu.done
        BY <3>1, <3>4, CommandLists, Zenon
      <4>. QED BY <4>1, <1>9, Zenon DEF Progress
    <3>. QED BY <3>2, <3>3, <3>4, <2>1, <1>4, Zenon DEF GpuState, GpuInv, Progress
  <2>. QED BY <2>2, <2>3
<1>15. gpu'.todo # <<>> => gpu'.result = "none"
  <2>1. gpu.result = "none"
    BY <1>4, Zenon DEF GpuState, GpuInv
  <2>. QED BY <2>1, <1>9, Zenon
<1>16. Nothing'
  BY <1>1, <1>2, <1>10, <1>11, Zenon DEF Nothing, Answered
<1>17. pc' \in {"idle", "send"} /\ (pc' = "send" => gpu'.todo # <<>>)
  BY <1>8, <1>9
<1>18. pc' \notin InputPoints /\ pc' \notin {"sendPublish", "notify", "wait"}
  BY <1>17 DEF InputPoints
<1>19. GpuInv'
  BY <1>1, <1>10, <1>14, <1>15, <1>16, <1>17, <1>18, Zenon DEF GpuState, GpuInv
<1>. QED BY <1>12, <1>13, <1>19 DEF GpuState

\* The device takes the chain.
LEMMA GpuFetch == ASSUME GpuState, DeviceFetch PROVE GpuState'
<1>1. /\ device.seen # idx
      /\ device' = [seen |-> Increment(device.seen), held |-> device.held \union {ring[Slot(device.seen)]}]
      /\ UNCHANGED <<driver, pc, queueVars, used, gpu, hist>>
  BY DEF DeviceFetch, Slot
<1>2. pc \in {"notify", "wait"} /\ Sent /\ Offered
  BY <1>1, Zenon DEF GpuState, GpuInv, Nothing, Worked, Answered
<1>3. device'.seen = idx /\ device'.held = {0} /\ device' \in [seen : Indices, held : SUBSET Desc]
  <2>1. Increment(device.seen) \in Indices /\ 0 \in Desc
    BY GpuTypes, Steps
  <2>2. device.held \union {ring[Slot(device.seen)]} = {0} /\ idx = Increment(device.seen)
    BY <1>2 DEF Offered
  <2>. QED BY <2>1, <2>2, <1>1
<1>4. QueueTypes' /\ Counted'
  BY <1>1, <1>3, Zenon DEF GpuState, QueueTypes, Counted, queueVars
<1>5. Worked' /\ Sent'
  BY <1>1, <1>2, <1>3, Zenon DEF Worked, Offered, Sent, queueVars
<1>6. pc # "sendPublish"
  BY <1>2
<1>7. GpuInv'
  BY <1>1, <1>2, <1>5, <1>6, Zenon DEF GpuState, GpuInv, Progress, queueVars
<1>. QED BY <1>4, <1>7 DEF GpuState

\* The device answers.
LEMMA GpuComplete == ASSUME GpuState, DeviceComplete PROVE GpuState'
<1>. DEFINE Completed == [ids : Seq(Desc), last : Messages]
<1>1. PICK head, value : head \in device.held
        /\ value \in {Message(a) : a \in Answers(buffer[head].kind)}
        /\ used' = [used EXCEPT !.ring[used.idx % QUEUE_SIZE] = head, !.pending = TRUE]
        /\ device' = [device EXCEPT !.held = @ \ {head}]
        /\ buffer' = [buffer EXCEPT ![Last(DeviceChain(head))] = value]
        /\ hist' = [hist EXCEPT !.used = @ + 1,
                                !.done = Append(@, [ids |-> DeviceChain(head), last |-> value])]
        /\ gpu' = IF value.kind = "ok"
                  THEN [gpu EXCEPT !.done = @ \union {buffer[head].kind}] ELSE gpu
  <2>1. driver # "input"
    BY DEF GpuState, GpuInv
  <2>. QED BY <2>1, Zenon DEF DeviceComplete
<1>2. ~used.pending /\ UNCHANGED <<driver, pc, desc, ring, idx, available, popped>>
  BY DEF DeviceComplete
<1>3. pc \in {"notify", "wait"} /\ Sent /\ Worked /\ head = 0
  <2>1. device.held # {} /\ head \in device.held
    BY <1>1, Zenon
  <2>2. pc \in {"notify", "wait"} /\ Sent /\ Worked
    BY <2>1, Zenon DEF GpuState, GpuInv, Nothing, Offered, Answered
  <2>. QED BY <2>1, <2>2 DEF Worked
<1>4. DeviceChain(head) = <<0, 1>> /\ Last(DeviceChain(head)) = 1
  <2>1. desc[0].next = 1 /\ "next" \in desc[0].flags
    BY <1>3 DEF Sent
  <2>2. DeviceChain(head) = <<0, 1>>
    BY <2>1, <1>3 DEF DeviceChain
  <2>. QED BY <2>2, FirstTwo, Zenon
<1>5. /\ value \in Messages /\ value.kind \in {"ok", "err"}
  <2>1. PICK a \in Answers(buffer[head].kind) : value = Message(a)
    BY <1>1, Zenon
  <2>2. a \in {"ok", "err"}
    BY <2>1, Zenon DEF Answers
  <2>3. value = [n |-> 0, kind |-> a] /\ a \in Words
    BY <2>1, <2>2 DEF Message, Words
  <2>. QED BY <2>2, <2>3 DEF Messages
<1>6. PICK word : word = Head(gpu.todo) /\ word = buffer[head].kind /\ word \in Words
  BY <1>3, GpuTypes DEF Sent
<1>7. /\ gpu'.call = gpu.call /\ gpu'.todo = gpu.todo /\ gpu'.result = gpu.result
      /\ gpu.done \subseteq gpu'.done /\ (value.kind = "ok" => word \in gpu'.done)
      /\ gpu' \in [call : {"none", "display_info", "initialize_framebuffer", "flush"},
                   todo : Seq(Words), result : Words \cup {"none"}, done : SUBSET Words]
  <2>1. CASE value.kind = "ok"
    <3>1. gpu' = [gpu EXCEPT !.done = @ \union {word}]
      BY <2>1, <1>1, <1>6, Zenon
    <3>2. PICK done : done = gpu.done \union {word}
      BY Zenon
    <3>3. gpu' = [call |-> gpu.call, todo |-> gpu.todo, result |-> gpu.result, done |-> done]
      BY <3>1, <3>2, GpuTypes, Zenon
    <3>4. done \in SUBSET Words /\ gpu.done \subseteq done /\ word \in done
      BY <3>2, <1>6, GpuTypes
    <3>. QED BY <3>3, <3>4, GpuTypes
  <2>2. CASE value.kind # "ok"
    <3>1. gpu' = gpu
      BY <2>2, <1>1
    <3>. QED BY <3>1, <2>2, GpuTypes
  <2>. QED BY <2>1, <2>2
<1>8. hist.done = <<>> /\ hist.used = popped + 0 /\ used.idx = popped
  <2>1. hist.done = <<>> /\ Len(hist.done) = 0
    BY <1>3 DEF Worked
  <2>2. hist.used = popped + 0 /\ used.idx + 0 = hist.used
    BY <2>1, <1>2, Zenon DEF GpuState, Counted
  <2>. QED BY <2>1, <2>2, GpuTypes
<1>9. PICK c \in Completed : c = [ids |-> <<0, 1>>, last |-> value]
  <2>1. <<0, 1>> \in Seq(Desc)
    BY GpuTypes
  <2>. QED BY <2>1, <1>5, Zenon
<1>10. /\ hist'.done = <<c>> /\ hist'.used = hist.used + 1
       /\ hist' \in [used : Nat, done : Seq(Completed), ignored : Nat, missed : Nat]
  <2>1. hist' = [hist EXCEPT !.used = @ + 1, !.done = Append(@, c)]
    BY <1>1, <1>4, <1>9, Zenon
  <2>2. Append(hist.done, c) = <<c>> /\ <<c>> \in Seq(Completed)
    BY <1>8
  <2>3. PICK u \in Nat, d \in Seq(Completed) : u = hist.used + 1 /\ d = <<c>>
    <3>1. hist.used + 1 \in Nat
      BY GpuTypes
    <3>. QED BY <3>1, <2>2, Zenon
  <2>4. hist' = [used |-> u, done |-> d, ignored |-> hist.ignored, missed |-> hist.missed]
    BY <2>1, <2>2, <2>3, GpuTypes, Zenon
  <2>. QED BY <2>3, <2>4, GpuTypes
<1>11. buffer' \in [Desc -> Messages] /\ buffer'[1] = value /\ buffer'[0] = buffer[0]
  <2>1. buffer' = [buffer EXCEPT ![1] = value]
    BY <1>1, <1>4, Zenon
  <2>. QED BY <2>1, <1>5, GpuTypes
<1>12. /\ used'.ring[Slot(popped)] = 0 /\ used'.idx = used.idx /\ used'.pending = TRUE
       /\ used' \in [ring : [Desc -> Desc], idx : Nat, pending : BOOLEAN]
  <2>1. Slot(popped) \in Desc /\ 0 \in Desc
    BY GpuTypes, Slots
  <2>2. used' = [used EXCEPT !.ring[Slot(popped)] = 0, !.pending = TRUE]
    BY <1>1, <1>3, <1>8, Zenon DEF Slot
  <2>3. PICK r \in [Desc -> Desc] : r = [used.ring EXCEPT ![Slot(popped)] = 0]
    BY <2>1, GpuTypes, Zenon
  <2>4. r[Slot(popped)] = 0
    BY <2>1, <2>3, GpuTypes
  <2>5. used' = [ring |-> r, idx |-> used.idx, pending |-> TRUE]
    BY <2>2, <2>3, GpuTypes, Zenon
  <2>. QED BY <2>4, <2>5, GpuTypes
<1>13. device'.held = {} /\ device'.seen = device.seen /\ device' \in [seen : Indices, held : SUBSET Desc]
  <2>1. device \in [seen : Indices, held : SUBSET Desc] /\ device.held = {0}
    BY <1>3 DEF GpuState, QueueTypes, Worked
  <2>2. device' = [seen |-> device.seen, held |-> {}]
    BY <2>1, <1>1, <1>3, Zenon
  <2>. QED BY <2>1, <2>2
<1>14. QueueTypes'
  BY <1>2, <1>7, <1>10, <1>11, <1>12, <1>13, Zenon DEF GpuState, QueueTypes
<1>15. Counted'
  <2>1. Len(hist'.done) = 1
    BY <1>10
  <2>2. hist'.used = popped + 1 /\ used'.idx + 1 = hist'.used /\ 1 > 0
    BY <1>8, <1>10, <1>12, GpuTypes
  <2>. QED BY <2>1, <2>2, <1>2, <1>12, Zenon DEF Counted
<1>16. Sent'
  BY <1>2, <1>3, <1>7, <1>11, Zenon DEF Sent
<1>17. Answered'
  <2>1. idx' = device'.seen /\ device'.held = {}
    BY <1>2, <1>3, <1>13, Zenon DEF Worked
  <2>2. hist'.done = <<[ids |-> <<0, 1>>, last |-> buffer'[1]]>>
    BY <1>9, <1>10, <1>11, Zenon
  <2>3. used'.ring[Slot(popped')] = 0
    BY <1>2, <1>12, Zenon DEF Slot
  <2>4. buffer'[1].kind \in {"ok", "err"}
    BY <1>5, <1>11, Zenon
  <2>5. buffer'[1].kind = "ok" => Head(gpu'.todo) \in gpu'.done
    BY <1>6, <1>7, <1>11, Zenon
  <2>. QED BY <2>1, <2>2, <2>3, <2>4, <2>5, Zenon DEF Answered
<1>18. Progress'
  <2>1. \A S : S \subseteq gpu.done => S \subseteq gpu'.done
    BY <1>7, Zenon
  <2>. QED BY <2>1, <1>7, Zenon DEF GpuState, GpuInv, Progress
<1>19. pc # "sendPublish" /\ pc # "send" /\ pc' \in {"notify", "wait"}
  BY <1>2, <1>3
<1>20. GpuInv'
  BY <1>2, <1>7, <1>16, <1>17, <1>18, <1>19, Zenon DEF GpuState, GpuInv
<1>. QED BY <1>14, <1>15, <1>20 DEF GpuState

\* The device publishes the answer.
LEMMA GpuPublished == ASSUME GpuState, BeforeWrap, DevicePublish PROVE GpuState'
<1>1. /\ QueueTypes' /\ Counted' /\ used'.ring = used.ring
      /\ UNCHANGED <<driver, pc, queueVars, device, gpu, hist>>
  BY PublishCounts DEF GpuState
<1>2. (Sent => Sent') /\ (Offered \/ Worked \/ Answered => Offered' \/ Worked' \/ Answered')
  BY <1>1, Zenon DEF Sent, Offered, Worked, Answered, queueVars
<1>3. GpuInv'
  BY <1>1, <1>2, Zenon DEF GpuState, GpuInv, Nothing, Progress, queueVars
<1>. QED BY <1>1, <1>3 DEF GpuState

-----------------------------------------------------------------------------
(* Every step, and what follows                                              *)

\* Only a completed chain counts: before the index wraps it had not wrapped.
LEMMA UsedGrows ==
  ASSUME HistType, [Next]_vars
  PROVE  HistType' /\ (BeforeWrap' => BeforeWrap)
<1>1. \/ hist' = hist \/ hist' = [hist EXCEPT !.ignored = @ + 1]
      \/ \E n : hist' = [hist EXCEPT !.missed = n]
      \/ \E d : hist' = [hist EXCEPT !.done = d]
      \/ \E d : hist' = [hist EXCEPT !.used = @ + 1, !.done = d]
  <2>1. CASE UNCHANGED vars
    BY <2>1 DEF vars
  <2>2. CASE Drain
    BY <2>2 DEF Drain
  <2>3. CASE DeviceStep
    <3>1. CASE DeviceComplete
      BY <3>1, Zenon DEF DeviceComplete
    <3>. QED BY <2>3, <3>1, Zenon DEF DeviceStep, DeviceFetch, DevicePublish
  <2>4. CASE PollEvent \/ ReceiveAnswer
    BY <2>4, Zenon DEF PollEvent, ReceiveAnswer, Pop
  <2>5. CASE Deliver
    BY <2>5, Zenon DEF Deliver
  <2>6. CASE DriverStep /\ ~PollEvent /\ ~ReceiveAnswer /\ ~Deliver
    BY <2>6, Zenon DEF DriverStep, Reset, Acknowledge, DriverKnown, WriteFeatures, WriteStatus, CheckFeatures,
       InitializeQueue, DriverOk, FillEvents, PublishEvents, StartPolling, Refill, Republish,
       PollEnds, Delivered, Call, SendFill, SendPublish, NotifyDevice
  <2>. QED BY <2>1, <2>2, <2>3, <2>4, <2>5, <2>6, Zenon DEF Next
<1>2. HistType' /\ (hist'.used = hist.used \/ hist'.used = hist.used + 1)
  <2>1. hist.used \in Nat /\ DOMAIN hist = {"used", "done", "ignored", "missed"}
    BY DEF HistType
  <2>2. CASE hist' = hist
    BY <2>1, <2>2 DEF HistType
  <2>3. CASE hist' = [hist EXCEPT !.ignored = @ + 1]
    BY <2>1, <2>3 DEF HistType
  <2>4. CASE \E n : hist' = [hist EXCEPT !.missed = n]
    BY <2>1, <2>4 DEF HistType
  <2>5. CASE \E d : hist' = [hist EXCEPT !.done = d]
    BY <2>1, <2>5 DEF HistType
  <2>6. CASE \E d : hist' = [hist EXCEPT !.used = @ + 1, !.done = d]
    BY <2>1, <2>6 DEF HistType
  <2>. QED BY <1>1, <2>2, <2>3, <2>4, <2>5, <2>6, Zenon
<1>3. IndexModulus \in Nat /\ hist.used \in Nat
  BY QueueSizes DEF HistType
<1>. QED BY <1>2, <1>3 DEF BeforeWrap

\* The steps of the start.
StartSteps == Reset \/ Acknowledge \/ DriverKnown \/ WriteFeatures \/ CheckFeatures
                \/ InitializeQueue \/ DriverOk

\* What a step of the start does.
LEMMA StartStep ==
  ASSUME StartSteps
  PROVE  /\ UNCHANGED <<driver, queueVars, used, device, gpu, hist>>
         /\ pc \in {"reset", "acknowledge", "driver", "features", "check", "queue", "ok"}
         /\ \/ pc' \in {"acknowledge", "driver", "features", "check", "queue", "ok", "panicked"}
            \/ pc' = IF driver = "input" THEN "fill" ELSE "idle"
<1>1. CASE Reset \/ Acknowledge \/ DriverKnown \/ WriteFeatures \/ DriverOk
  BY <1>1 DEF Reset, Acknowledge, DriverKnown, WriteFeatures, DriverOk, WriteStatus
<1>2. CASE CheckFeatures
  BY <1>2 DEF CheckFeatures
<1>3. CASE InitializeQueue
  BY <1>3 DEF InitializeQueue
<1>. QED BY <1>1, <1>2, <1>3 DEF StartSteps

\* Every step of the input driver and its device.
LEMMA InputStep ==
  ASSUME InputState, BeforeWrap, [Next]_vars PROVE InputState'
<1>1. driver = "input" /\ pc \notin GpuPoints /\ QueueTypes
  BY DEF InputState, InputInv
<1>2. CASE UNCHANGED vars
  <2>1. /\ UNCHANGED <<driver, desc, buffer, ring, idx, available, popped, used, device, gpu>>
        /\ hist' = hist /\ pc' = pc
    BY <1>2 DEF vars, queueVars
  <2>2. QueueTypes' /\ (Filled' <=> Filled)
    BY <2>1, <1>1, Zenon DEF QueueTypes, Filled
  <2>. QED BY <2>1, <2>2, <1>1, InputFrame
<1>3. CASE StartSteps
  <2>1. UNCHANGED <<driver, queueVars, used, device, gpu, hist>>
    BY <1>3, StartStep
  <2>2. ~Filled /\ ~Filled' /\ pc' \notin GpuPoints
    BY <1>1, <1>3, StartStep DEF Filled, GpuPoints
  <2>3. QueueTypes'
    BY <2>1, <1>1, Zenon DEF QueueTypes, queueVars
  <2>4. UNCHANGED <<driver, desc, buffer, ring, idx, available, popped, used, device, gpu>> /\ hist' = hist
    BY <2>1 DEF queueVars
  <2>. QED BY <2>2, <2>3, <2>4, InputFrame
<1>4. CASE StartPolling \/ PollEnds \/ Delivered \/ Drain
  <2>1. /\ UNCHANGED <<driver, desc, buffer, ring, idx, available, popped, used, device, gpu>>
        /\ hist' = hist
    BY <1>4 DEF StartPolling, PollEnds, Delivered, Drain, queueVars
  <2>2. pc' \notin GpuPoints /\ (Filled' <=> Filled)
    BY <1>1, <1>4 DEF StartPolling, PollEnds, Delivered, Drain, GpuPoints, Filled
  <2>3. QueueTypes'
    BY <2>1, <1>1, Zenon DEF QueueTypes
  <2>. QED BY <2>1, <2>2, <2>3, InputFrame
<1>5. CASE Deliver
  <2>1. /\ UNCHANGED <<driver, desc, buffer, ring, idx, available, popped, used, device, gpu>>
        /\ pc = "deliver" /\ pc' \in {"deliver", "exited"}
    BY <1>5 DEF Deliver, queueVars
  <2>2. \/ hist' = [hist EXCEPT !.ignored = @ + 1]
        \/ hist' = [hist EXCEPT !.missed = @ + (IF FreeSlots = {} THEN 1 ELSE 0)]
    BY <1>5, Zenon DEF Deliver
  <2>3. hist \in [used : Nat, done : Seq([ids : Seq(Desc), last : Messages]), ignored : Nat, missed : Nat]
    BY <1>1, Zenon DEF QueueTypes
  <2>4. /\ hist'.used = hist.used /\ hist'.done = hist.done
        /\ hist' \in [used : Nat, done : Seq([ids : Seq(Desc), last : Messages]), ignored : Nat, missed : Nat]
    BY <2>2, <2>3
  <2>5. QueueTypes'
    BY <2>1, <2>4, <1>1, Zenon DEF QueueTypes
  <2>6. pc' \notin GpuPoints /\ (Filled' <=> Filled)
    BY <2>1 DEF GpuPoints, Filled
  <2>. QED BY <2>1, <2>4, <2>5, <2>6, InputFrame
<1>6. CASE FillEvents \/ Refill
  <2>1. Fill(None) /\ UNCHANGED <<driver, used, device, gpu, hist>>
    BY <1>6, Zenon DEF FillEvents, Refill
  <2>2. ~Filled /\ Filled' /\ pc' \notin GpuPoints
    BY <1>6 DEF FillEvents, Refill, Filled, GpuPoints
  <2>. QED BY <2>1, <2>2, InputFill
<1>7. CASE PublishEvents \/ Republish
  <2>1. Publish /\ UNCHANGED <<driver, used, device, gpu, hist>>
    BY <1>7, Zenon DEF PublishEvents, Republish
  <2>2. Filled /\ ~Filled' /\ pc' \notin GpuPoints
    BY <1>7 DEF PublishEvents, Republish, Filled, GpuPoints
  <2>. QED BY <2>1, <2>2, InputPublish
<1>8. CASE PollEvent
  <2>1. Pop /\ UNCHANGED <<driver, used, device, gpu>>
    BY <1>8, Zenon DEF PollEvent
  <2>2. ~Filled /\ ~Filled' /\ pc' \notin GpuPoints
    BY <1>8 DEF PollEvent, Filled, GpuPoints
  <2>. QED BY <2>1, <2>2, InputPop
<1>9. CASE DeviceStep
  BY <1>9, InputFetch, InputComplete, InputPublished, Zenon DEF DeviceStep
<1>10. CASE Call \/ SendFill \/ SendPublish \/ NotifyDevice \/ ReceiveAnswer
  BY <1>1, <1>10 DEF Call, SendFill, SendPublish, NotifyDevice, ReceiveAnswer, GpuPoints
<1>. QED BY <1>2, <1>3, <1>4, <1>5, <1>6, <1>7, <1>8, <1>9, <1>10, Zenon
     DEF Next, DriverStep, StartSteps

\* Every step of the GPU driver and its device.
LEMMA GpuStep ==
  ASSUME GpuState, BeforeWrap, [Next]_vars PROVE GpuState'
<1>1. driver = "gpu" /\ pc \notin InputPoints
  BY DEF GpuState, GpuInv
<1>2. CASE UNCHANGED vars \/ Drain
  <2>1. UNCHANGED <<driver, pc, queueVars, used, device, gpu, hist>>
    BY <1>2, Zenon DEF vars, Drain
  <2>2. QueueTypes' /\ Counted'
    BY <2>1, Zenon DEF GpuState, QueueTypes, Counted, queueVars
  <2>3. (Sent => Sent') /\ (Offered \/ Worked \/ Answered => Offered' \/ Worked' \/ Answered')
    BY <2>1, Zenon DEF Sent, Offered, Worked, Answered, queueVars
  <2>4. GpuInv'
    BY <2>1, <2>3, Zenon DEF GpuState, GpuInv, Nothing, Progress, queueVars
  <2>. QED BY <2>2, <2>4 DEF GpuState
<1>3. CASE StartSteps
  <2>1. UNCHANGED <<driver, queueVars, used, device, gpu, hist>>
    BY <1>3, StartStep
  <2>2. /\ pc \notin {"sendPublish", "notify", "wait"} /\ pc' \notin InputPoints
        /\ pc' \notin {"sendPublish", "notify", "wait", "send"}
    BY <1>1, <1>3, StartStep DEF InputPoints
  <2>. QED BY <2>1, <2>2, GpuFrame
<1>4. CASE Call \/ SendFill \/ SendPublish \/ NotifyDevice \/ ReceiveAnswer
  BY <1>4, GpuCall, GpuFill, GpuPublish, GpuNotify, GpuReceive, Zenon
<1>5. CASE DeviceStep
  BY <1>5, GpuFetch, GpuComplete, GpuPublished, Zenon DEF DeviceStep
<1>6. CASE FillEvents \/ PublishEvents \/ StartPolling \/ PollEvent \/ Refill \/ Republish
            \/ PollEnds \/ Deliver \/ Delivered
  BY <1>1, <1>6 DEF FillEvents, PublishEvents, StartPolling, PollEvent, Refill, Republish,
     PollEnds, Deliver, Delivered, InputPoints
<1>. QED BY <1>2, <1>3, <1>4, <1>5, <1>6, Zenon DEF Next, DriverStep, StartSteps

\* At the start every descriptor is available and nothing was sent or completed.
LEMMA VirtioStarts == Init => VirtioInv
<1>. SUFFICES ASSUME Init PROVE VirtioInv
  OBVIOUS
<1>1. /\ driver \in {"input", "gpu"} /\ pc = "reset"
      /\ desc = [d \in Desc |-> [next |-> 0, flags |-> {}]] /\ buffer = [d \in Desc |-> None]
      /\ ring = [i \in Desc |-> 0] /\ idx = 0 /\ available = Desc /\ popped = 0
      /\ used = [ring |-> [i \in Desc |-> 0], idx |-> 0, pending |-> FALSE]
      /\ device = [seen |-> 0, held |-> {}]
      /\ gpu = [call |-> "none", todo |-> <<>>, result |-> "none", done |-> {}]
      /\ hist = [used |-> 0, done |-> <<>>, ignored |-> 0, missed |-> 0]
  BY Zenon DEF Init
<1>2. 0 \in Desc /\ 0 \in Indices /\ QUEUE_SIZE \in Nat
  BY QueueSizes DEF Indices
<1>3. None \in Messages
  BY DEF None, Message, Messages, Words, Kinds
<1>4. device.seen = 0 /\ device.held = {} /\ hist.done = <<>> /\ hist.used = 0 /\ Len(hist.done) = 0
  BY <1>1
<1>5. QueueTypes
  <2>1. desc \in [Desc -> [next : Desc, flags : SUBSET {"next", "write"}]]
    BY <1>1, <1>2, Zenon
  <2>2. buffer \in [Desc -> Messages] /\ ring \in [Desc -> Desc] /\ idx \in Indices
    BY <1>1, <1>2, <1>3
  <2>3. available \in SUBSET Desc /\ popped \in Nat
    BY <1>1
  <2>4. used \in [ring : [Desc -> Desc], idx : Nat, pending : BOOLEAN]
    <3>1. used = [ring |-> [i \in Desc |-> 0], idx |-> 0, pending |-> FALSE]
      BY <1>1, Zenon
    <3>. QED BY <3>1, <1>2
  <2>5. device \in [seen : Indices, held : SUBSET Desc]
    <3>1. device = [seen |-> 0, held |-> {}]
      BY <1>1, Zenon
    <3>. QED BY <3>1, <1>2
  <2>6. gpu \in [call : {"none", "display_info", "initialize_framebuffer", "flush"},
                 todo : Seq(Words), result : Words \cup {"none"}, done : SUBSET Words]
    <3>1. gpu = [call |-> "none", todo |-> <<>>, result |-> "none", done |-> {}]
      BY <1>1, Zenon
    <3>. QED BY <3>1
  <2>7. hist \in [used : Nat, done : Seq([ids : Seq(Desc), last : Messages]), ignored : Nat, missed : Nat]
    <3>1. hist = [used |-> 0, done |-> <<>>, ignored |-> 0, missed |-> 0]
      BY <1>1, Zenon
    <3>. QED BY <3>1
  <2>. QED BY <2>1, <2>2, <2>3, <2>4, <2>5, <2>6, <2>7, Zenon DEF QueueTypes
<1>6. Counted
  BY <1>1 DEF Counted
<1>7. HistType
  BY <1>1, Zenon DEF HistType
<1>8. CASE driver = "input"
  <2>1. NumWaiting = 0
    <3>1. Dist(0, 0) = 0
      BY <1>2, Steps
    <3>2. ~Filled
      BY <1>1 DEF Filled
    <3>3. NumWaiting = Dist(0, 0) + 0
      BY <1>1, <1>4, <3>2, Zenon DEF NumWaiting, Dist
    <3>. QED BY <3>1, <3>3
  <2>2. \A w : Line(w, 0) = {} /\ Distinct(w, 0)
    BY DEF Line, Distinct
  <2>3. Parts(available, Waits, NumWaiting, device.held, Dones, Len(hist.done))
    <3>1. Cardinality(Desc) = QUEUE_SIZE /\ Cardinality({}) = 0
      BY DescSets, FS_EmptySet
    <3>2. Cardinality(Desc) + 0 + Cardinality({}) + 0 = QUEUE_SIZE
      BY <3>1, <1>2
    <3>3. Parts(Desc, Waits, 0, {}, Dones, 0)
      BY <2>2, <3>2, Zenon DEF Parts
    <3>. QED BY <3>3, <2>1, <1>1, <1>4, Zenon
  <2>4. pc \notin GpuPoints /\ gpu.call = "none"
    BY <1>1 DEF GpuPoints
  <2>5. \A d \in Desc : desc[d].next = 0 /\ "next" \notin desc[d].flags
    BY <1>1
  <2>6. \A j : j \notin 1 .. Len(hist.done)
    BY <1>4
  <2>. QED BY <2>3, <2>4, <2>5, <2>6, <1>5, <1>6, <1>7, <1>8, Zenon DEF InputInv, VirtioInv
<1>9. CASE driver = "gpu"
  <2>1. Nothing
    BY <1>1, <1>4, Zenon DEF Nothing
  <2>2. /\ pc \notin InputPoints /\ pc \notin {"sendPublish", "notify", "wait"} /\ pc # "send"
        /\ gpu.todo = <<>> /\ gpu.call # "initialize_framebuffer"
    BY <1>1 DEF InputPoints
  <2>3. \A d \in Desc : d # 0 => desc[d].next = 0
    BY <1>1
  <2>4. GpuInv
    BY <2>1, <2>2, <2>3, <1>1, <1>9, Zenon DEF GpuInv, Progress
  <2>. QED BY <2>4, <1>5, <1>6, <1>7, Zenon DEF VirtioInv
<1>. QED BY <1>1, <1>8, <1>9

\* The invariant holds before and after every step.
LEMMA VirtioKept == VirtioInv /\ [Next]_vars => VirtioInv'
<1>. SUFFICES ASSUME VirtioInv, [Next]_vars PROVE VirtioInv'
  OBVIOUS
<1>1. HistType' /\ (BeforeWrap' => BeforeWrap)
  BY UsedGrows DEF VirtioInv
<1>2. ASSUME BeforeWrap' PROVE InputState' \/ GpuState'
  <2>1. BeforeWrap /\ (InputState \/ GpuState)
    BY <1>1, <1>2, Zenon DEF VirtioInv, InputState, GpuState
  <2>. QED BY <2>1, InputStep, GpuStep, Zenon
<1>. QED BY <1>1, <1>2, Zenon DEF VirtioInv, InputState, GpuState

LEMMA VirtioAlways == Spec => []VirtioInv
BY VirtioStarts, VirtioKept, PTL DEF Spec

\* The chains that DescriptorsAccounted counts.
Chained == (UNION {Range(DeviceChain(h)) : h \in Waiting \union device.held})
             \union (UNION {Range(c.ids) : c \in Range(hist.done)})

\* In the input driver's queue the chains are the lines and what the device holds.
LEMMA InputAccounted ==
  ASSUME InputState
  PROVE  /\ available = Desc \ Chained
         /\ Cardinality(available)
              + ChainLength * (NumWaiting + Cardinality(device.held) + Len(hist.done)) = QUEUE_SIZE
<1>1. Parts(available, Waits, NumWaiting, device.held, Dones, Len(hist.done))
  BY Zenon DEF InputState, InputInv
<1>2. Waiting = Line(Waits, NumWaiting)
  <2>1. \A k \in 0 .. NumWaiting - 1 : k \in Nat
    BY InputCounts
  <2>2. \A k \in 0 .. NumWaiting - 1 : Waits[k] = ring[(device.seen + k) % QUEUE_SIZE]
    BY <2>1, Zenon DEF Waits, Slot
  <2>. QED BY <2>2, Zenon DEF Waiting, Line
<1>3. \A h \in Desc : Range(DeviceChain(h)) = {h}
  <2>. TAKE h \in Desc
  <2>1. "next" \notin desc[h].flags
    BY Zenon DEF InputState, InputInv
  <2>2. DeviceChain(h) = <<h>>
    BY <2>1, Zenon DEF DeviceChain
  <2>. QED BY <2>2, Chains, Zenon
<1>4. Waiting \union device.held \in SUBSET Desc
  BY <1>1, <1>2, Zenon DEF Parts
<1>5. UNION {Range(DeviceChain(h)) : h \in Waiting \union device.held} = Waiting \union device.held
  <2>1. \A h \in Waiting \union device.held : Range(DeviceChain(h)) = {h}
    BY <1>3, <1>4, Zenon
  <2>2. \A x : x \in UNION {Range(DeviceChain(h)) : h \in Waiting \union device.held}
                <=> \E h \in Waiting \union device.held : x \in Range(DeviceChain(h))
    BY Zenon
  <2>3. \A x : x \in UNION {Range(DeviceChain(h)) : h \in Waiting \union device.held}
                <=> x \in Waiting \union device.held
    <3>. TAKE x
    <3>1. ASSUME x \in Waiting \union device.held
          PROVE  \E h \in Waiting \union device.held : x \in Range(DeviceChain(h))
      <4>1. x \in Range(DeviceChain(x))
        BY <3>1, <2>1, Zenon
      <4>. QED BY <3>1, <4>1, Zenon
    <3>2. ASSUME NEW h \in Waiting \union device.held, x \in Range(DeviceChain(h))
          PROVE  x \in Waiting \union device.held
      <4>1. x = h
        BY <3>2, <2>1, Zenon
      <4>. QED BY <4>1, Zenon
    <3>. QED BY <2>2, <3>1, <3>2, Zenon
  <2>. QED BY <2>3, Zenon
<1>6. UNION {Range(c.ids) : c \in Range(hist.done)} = Line(Dones, Len(hist.done))
  <2>1. /\ Range(hist.done) = {hist.done[j] : j \in 1 .. Len(hist.done)} /\ Len(hist.done) \in Nat
    BY DEF InputState, QueueTypes, Range
  <2>2. ASSUME NEW j \in 1 .. Len(hist.done) PROVE Range(hist.done[j].ids) = {Dones[j - 1]}
    <3>1. hist.done[j].ids = <<Dones[j - 1]>>
      BY Zenon DEF InputState, InputInv
    <3>. QED BY <3>1, Chains, Zenon
  <2>3. \A j \in 1 .. Len(hist.done) : j - 1 \in 0 .. Len(hist.done) - 1
    BY <2>1
  <2>4. ASSUME NEW k \in 0 .. Len(hist.done) - 1 PROVE \E j \in 1 .. Len(hist.done) : j - 1 = k
    <3>1. k + 1 \in 1 .. Len(hist.done) /\ (k + 1) - 1 = k
      BY <2>1
    <3>. QED BY <3>1, Zenon
  <2>5. ASSUME NEW x PROVE x \in UNION {Range(c.ids) : c \in Range(hist.done)}
                            <=> \E j \in 1 .. Len(hist.done) : x = Dones[j - 1]
    <3>1. x \in UNION {Range(c.ids) : c \in Range(hist.done)}
            <=> \E j \in 1 .. Len(hist.done) : x \in Range(hist.done[j].ids)
      BY <2>1, Zenon
    <3>. QED BY <3>1, <2>2, Zenon
  <2>6. ASSUME NEW x PROVE x \in Line(Dones, Len(hist.done))
                            <=> \E j \in 1 .. Len(hist.done) : x = Dones[j - 1]
    BY <2>3, <2>4, Zenon DEF Line
  <2>. QED BY <2>5, <2>6, Zenon
<1>7. available = Desc \ Chained
  BY <1>1, <1>2, <1>5, <1>6, Zenon DEF Parts, Chained
<1>8. ChainLength = 1
  BY DEF InputState, InputInv, ChainLength
<1>9. 1 * (NumWaiting + Cardinality(device.held) + Len(hist.done))
        = NumWaiting + Cardinality(device.held) + Len(hist.done)
  BY InputCounts
<1>10. Cardinality(available) + (NumWaiting + Cardinality(device.held) + Len(hist.done)) = QUEUE_SIZE
  BY InputCounts
<1>. QED BY <1>7, <1>8, <1>9, <1>10, Zenon

\* In the GPU driver's queue there is no chain, or the one of the first two descriptors.
LEMMA GpuAccounted ==
  ASSUME GpuState
  PROVE  /\ available = Desc \ Chained
         /\ Cardinality(available)
              + ChainLength * (NumWaiting + Cardinality(device.held) + Len(hist.done)) = QUEUE_SIZE
<1>1. ChainLength = 2 /\ QUEUE_SIZE \in Nat
  BY QueueSizes DEF GpuState, GpuInv, ChainLength
<1>2. Cardinality({}) = 0 /\ Cardinality({0}) = 1
  BY FS_EmptySet, FS_Singleton
<1>3. Cardinality(Desc) = QUEUE_SIZE /\ Cardinality(Desc \ {0, 1}) = QUEUE_SIZE - 2
  <2>1. Cardinality(Desc) = QUEUE_SIZE /\ 0 \in Desc /\ 1 \in Desc \ {0} /\ Desc \ {0} \in SUBSET Desc
    BY DescSets, QueueSizes
  <2>2. Cardinality(Desc \ {0}) = Cardinality(Desc) - 1
    BY <2>1, DescSets
  <2>3. Cardinality((Desc \ {0}) \ {1}) = Cardinality(Desc \ {0}) - 1
    BY <2>1, DescSets
  <2>4. (Desc \ {0}) \ {1} = Desc \ {0, 1}
    OBVIOUS
  <2>. QED BY <2>1, <2>2, <2>3, <2>4, <1>1
<1>4. NumWaiting = Dist(idx, device.seen) + (IF Filled THEN 1 ELSE 0)
  BY Zenon DEF NumWaiting, Dist
<1>5. ASSUME NumWaiting = 0 PROVE Waiting = {}
  BY <1>5 DEF Waiting
<1>6. ASSUME NumWaiting = 1, ring[Slot(device.seen)] = 0 PROVE Waiting = {0}
  <2>1. 0 .. NumWaiting - 1 = {0} /\ device.seen + 0 = device.seen
    BY <1>6, GpuTypes
  <2>. QED BY <2>1, <1>6, Zenon DEF Waiting, Slot
<1>7. ASSUME Sent PROVE Range(DeviceChain(0)) = {0, 1}
  <2>1. desc[0].next = 1 /\ "next" \in desc[0].flags
    BY <1>7 DEF Sent
  <2>. QED BY <2>1, FirstTwo, Zenon DEF DeviceChain
<1>8. ASSUME hist.done = <<>> PROVE UNION {Range(c.ids) : c \in Range(hist.done)} = {} /\ Len(hist.done) = 0
  <2>1. Range(hist.done) = {} /\ Len(hist.done) = 0
    BY <1>8 DEF Range
  <2>. QED BY <2>1, Zenon
<1>9. ASSUME Sent, hist.done = <<>>, Waiting \union device.held = {0} PROVE Chained = {0, 1}
  <2>1. UNION {Range(DeviceChain(h)) : h \in Waiting \union device.held} = Range(DeviceChain(0))
    BY <1>9, Zenon
  <2>. QED BY <2>1, <1>7, <1>8, <1>9, Zenon DEF Chained
<1>10. idx = device.seen => Dist(idx, device.seen) = 0
  BY GpuTypes, Steps, Zenon
<1>11. CASE pc \notin {"sendPublish", "notify", "wait"}
  <2>1. available = Desc /\ Nothing
    BY <1>11, Zenon DEF GpuState, GpuInv
  <2>2. ~Filled
    <3>1. pc \notin InputPoints
      BY DEF GpuState, GpuInv
    <3>. QED BY <3>1, <1>11 DEF Filled, InputPoints
  <2>3. NumWaiting = 0 /\ Waiting = {} /\ device.held = {} /\ Len(hist.done) = 0 /\ hist.done = <<>>
    BY <2>1, <2>2, <1>4, <1>5, <1>8, <1>10 DEF Nothing
  <2>4. Chained = {}
    BY <2>3, <1>8, Zenon DEF Chained
  <2>5. QUEUE_SIZE + 2 * (0 + 0 + 0) = QUEUE_SIZE
    BY <1>1
  <2>. QED BY <2>1, <2>3, <2>4, <2>5, <1>1, <1>2, <1>3, Zenon
<1>12. CASE pc \in {"sendPublish", "notify", "wait"}
  <2>1. /\ Sent /\ device.held \in {{}, {0}}
        /\ Chained = {0, 1} /\ NumWaiting + Cardinality(device.held) + Len(hist.done) = 1
    <3>1. CASE pc = "sendPublish"
      <4>1. Sent /\ Nothing /\ ring[Slot(idx)] = 0
        BY <3>1, Zenon DEF GpuState, GpuInv
      <4>2. Filled
        BY <3>1 DEF Filled
      <4>3. NumWaiting = 1 /\ Waiting = {0} /\ device.held = {} /\ Len(hist.done) = 0 /\ hist.done = <<>>
        BY <4>1, <4>2, <1>4, <1>6, <1>8, <1>10 DEF Nothing
      <4>4. Chained = {0, 1}
        BY <4>1, <4>3, <1>9, Zenon
      <4>. QED BY <4>1, <4>3, <4>4, <1>2
    <3>2. CASE pc \in {"notify", "wait"}
      <4>1. Sent /\ (Offered \/ Worked \/ Answered)
        BY <3>2, Zenon DEF GpuState, GpuInv
      <4>2. ~Filled
        BY <3>2 DEF Filled
      <4>3. CASE Offered
        <5>1. Dist(idx, device.seen) = 1
          BY <4>3, GpuTypes, Steps, Zenon DEF Offered
        <5>2. NumWaiting = 1 /\ Waiting = {0} /\ device.held = {} /\ Len(hist.done) = 0 /\ hist.done = <<>>
          BY <5>1, <4>2, <4>3, <1>4, <1>6, <1>8 DEF Offered
        <5>3. Chained = {0, 1}
          BY <4>1, <5>2, <1>9, Zenon
        <5>. QED BY <4>1, <5>2, <5>3, <1>2
      <4>4. CASE Worked
        <5>1. NumWaiting = 0 /\ Waiting = {} /\ device.held = {0} /\ Len(hist.done) = 0 /\ hist.done = <<>>
          BY <4>2, <4>4, <1>4, <1>5, <1>8, <1>10 DEF Worked
        <5>2. Chained = {0, 1}
          BY <4>1, <5>1, <1>9, Zenon
        <5>. QED BY <4>1, <5>1, <5>2, <1>2
      <4>5. CASE Answered
        <5>1. NumWaiting = 0 /\ Waiting = {} /\ device.held = {}
          BY <4>2, <4>5, <1>4, <1>5, <1>10 DEF Answered
        <5>2. PICK c : c = [ids |-> <<0, 1>>, last |-> buffer[1]]
          BY Zenon
        <5>3. hist.done = <<c>> /\ c.ids = <<0, 1>>
          BY <5>2, <4>5 DEF Answered
        <5>4. Range(hist.done) = {c} /\ Len(hist.done) = 1
          BY <5>3, Chains, Zenon
        <5>5. Chained = {0, 1}
          BY <5>1, <5>3, <5>4, FirstTwo, Zenon DEF Chained
        <5>. QED BY <4>1, <5>1, <5>4, <5>5, <1>2
      <4>. QED BY <4>1, <4>3, <4>4, <4>5
    <3>. QED BY <1>12, <3>1, <3>2
  <2>2. available = Desc \ {0, 1}
    BY <2>1 DEF Sent
  <2>3. (QUEUE_SIZE - 2) + 2 * 1 = QUEUE_SIZE
    BY <1>1
  <2>. QED BY <2>1, <2>2, <2>3, <1>1, <1>3, Zenon
<1>. QED BY <1>11, <1>12

\* Until the device's 16-bit index wraps, every descriptor of a virtqueue is
\* available, or in exactly one chain that waits for the device, that the device
\* works on, or that pop has not returned: Virtqueue::push, pop and
\* return_descriptor neither leak a descriptor nor give one out twice, in the input
\* driver that refills one buffer at a time and in send_control of the GPU driver,
\* whatever the order in which the device completes what it holds.
THEOREM VirtqueueKeepsDescriptors == Spec => []DescriptorsAccounted
<1>1. VirtioInv => DescriptorsAccounted
  <2>. SUFFICES ASSUME VirtioInv, BeforeWrap
                PROVE  /\ available = Desc \ Chained
                       /\ Cardinality(available)
                            + ChainLength * (NumWaiting + Cardinality(device.held) + Len(hist.done)) = QUEUE_SIZE
    BY Zenon DEF DescriptorsAccounted, Chained
  <2>1. InputState \/ GpuState
    BY Zenon DEF VirtioInv, InputState, GpuState
  <2>. QED BY <2>1, InputAccounted, GpuAccounted, Zenon
<1>. QED BY <1>1, VirtioAlways, PTL

\* initialize_framebuffer of the GPU driver returns Ok only when the device has
\* created the resource, attached its backing and set its scanout.
THEOREM FramebufferIsShown == Spec => []InitializedIsShown
<1>1. VirtioInv => InitializedIsShown
  <2>. SUFFICES ASSUME VirtioInv, BeforeWrap, gpu.call = "initialize_framebuffer", gpu.result = "ok"
                PROVE  {"CREATE_2D", "ATTACH_BACKING", "SET_SCANOUT"} \subseteq gpu.done
    BY Zenon DEF InitializedIsShown
  <2>1. CASE InputInv
    BY <2>1 DEF InputInv
  <2>2. CASE GpuInv
    <3>1. gpu.todo = <<>>
      BY <2>2 DEF GpuInv
    <3>. QED BY <3>1, <2>2 DEF GpuInv, Progress
  <2>. QED BY <2>1, <2>2, Zenon DEF VirtioInv
<1>. QED BY <1>1, VirtioAlways, PTL

\* Virtqueue::pop returns the oldest chain the device has published and the driver
\* has not had, all of it and with what the device wrote into its last buffer.
THEOREM PopReturnsTheOldest == Spec => PopsWhatWasUsed
<1>1. VirtioInv /\ [Next]_vars =>
        [popped' # popped /\ BeforeWrap =>
           /\ Len(hist.done) > (IF used.pending THEN 1 ELSE 0)
           /\ PoppedChain = Head(hist.done).ids
           /\ buffer[Last(PoppedChain)] = Head(hist.done).last]_vars
  <2>. SUFFICES ASSUME VirtioInv, [Next]_vars, popped' # popped, BeforeWrap
                PROVE  /\ Len(hist.done) > (IF used.pending THEN 1 ELSE 0)
                       /\ PoppedChain = Head(hist.done).ids
                       /\ buffer[Last(PoppedChain)] = Head(hist.done).last
    BY Zenon
  <2>1. PollEvent \/ ReceiveAnswer
    <3>1. CASE StartSteps
      BY <3>1, StartStep DEF queueVars
    <3>2. CASE Drain \/ DeviceStep
      BY <3>2, Zenon DEF Drain, DeviceStep, DeviceFetch, DeviceComplete, DevicePublish, queueVars
    <3>3. CASE FillEvents \/ PublishEvents \/ StartPolling \/ Refill \/ Republish \/ PollEnds
                 \/ Deliver \/ Delivered
      BY <3>3 DEF FillEvents, PublishEvents, StartPolling, Refill, Republish, PollEnds, Deliver,
         Delivered, Fill, Publish, queueVars
    <3>4. CASE Call \/ SendFill \/ SendPublish \/ NotifyDevice
      BY <3>4 DEF Call, SendFill, SendPublish, NotifyDevice, Fill, Publish, queueVars
    <3>5. CASE UNCHANGED vars
      BY <3>5 DEF vars, queueVars
    <3>. QED BY <3>1, <3>2, <3>3, <3>4, <3>5, Zenon DEF Next, DriverStep, StartSteps
  <2>2. Pop
    BY <2>1, Zenon DEF PollEvent, ReceiveAnswer
  <2>3. ~NothingUsed
    BY <2>2 DEF Pop
  <2>4. CASE InputState
    <3>1. /\ Len(hist.done) > (IF used.pending THEN 1 ELSE 0)
          /\ PoppedChain = <<Dones[0]>> /\ Head(hist.done).ids = <<Dones[0]>>
          /\ buffer[Dones[0]] = Head(hist.done).last
      BY <2>3, <2>4, InputPopped, Zenon
    <3>2. Last(PoppedChain) = Dones[0]
      BY <3>1, Chains, Zenon
    <3>. QED BY <3>1, <3>2, Zenon
  <2>5. CASE GpuState
    <3>1. pc = "wait"
      BY <2>1, <2>5 DEF PollEvent, ReceiveAnswer, GpuState, GpuInv, InputPoints
    <3>. QED BY <3>1, <2>3, <2>5, GpuPopped, Zenon
  <2>. QED BY <2>4, <2>5, Zenon DEF VirtioInv, InputState, GpuState
<1>. QED BY <1>1, VirtioAlways, PTL DEF Spec, PopsWhatWasUsed
-----------------------------------------------------------------------------
(* The events, on their way from the device through the result of poll and  *)
(* the input queue to the shell.                                            *)

\* The first k slots are filled, and a quit is the last event the driver delivers.
Filling(s, k) == (\A i \in 1 .. k : s[i] # None) /\ (\A i \in k + 1 .. InputQueueSize : s[i] = None)
QuitLast(s, k, at) == \A i \in 1 .. k : s[i].kind = "quit" => i = k /\ at = "exited"

\* The shell's events, the first k slots and the result of poll, one after the other,
\* are in the order of their numbers, none of which is above p.
Ordered(h, s, k, o, p) ==
  /\ \A i, j \in 1 .. Len(h) : i < j => h[i].n < h[j].n
  /\ \A i, j \in 1 .. k : i < j => s[i].n < s[j].n
  /\ \A i, j \in 1 .. Len(o) : i < j => o[i].n < o[j].n
  /\ \A i \in 1 .. Len(h), j \in 1 .. k : h[i].n < s[j].n
  /\ \A i \in 1 .. Len(h), j \in 1 .. Len(o) : h[i].n < o[j].n
  /\ \A i \in 1 .. k, j \in 1 .. Len(o) : s[i].n < o[j].n
  /\ \A i \in 1 .. Len(h) : h[i].n <= p
  /\ \A i \in 1 .. k : s[i].n <= p
  /\ \A i \in 1 .. Len(o) : o[i].n <= p

SlotArrays == [1 .. InputQueueSize -> Messages]
EventTypes == slots \in SlotArrays /\ handled \in Seq(Messages) /\ out \in Seq(Messages)
DoneNumbers == \A j \in 1 .. Len(hist.done) : hist.done[j].last.n = popped + j
Placed(k) ==
  /\ Filling(slots, k) /\ QuitLast(slots, k, pc)
  /\ Ordered(handled, slots, k, out, popped)
  /\ Len(handled) + k + Len(out) + hist.ignored + hist.missed = popped
EventsInv == EventTypes /\ DoneNumbers /\ \E k \in 0 .. InputQueueSize : Placed(k)

\* poll returns a newer event.
LEMMA OrderedPoll ==
  ASSUME NEW h \in Seq(Messages), NEW s \in SlotArrays, NEW k \in 0 .. InputQueueSize, NEW o \in Seq(Messages),
         NEW p \in Nat, NEW e \in Messages, e.n = p + 1, Ordered(h, s, k, o, p)
  PROVE  Ordered(h, s, k, Append(o, e), p + 1)
<1>1. PICK q \in Seq(Messages) : q = Append(o, e)
  <2>1. Append(o, e) \in Seq(Messages)
    OBVIOUS
  <2>. QED BY <2>1, Zenon
<1>2. Len(q) = Len(o) + 1 /\ q[Len(o) + 1] = e /\ \A i \in 1 .. Len(o) : q[i] = o[i]
  BY <1>1
<1>3. /\ \A i \in 1 .. Len(h) : h[i].n \in Nat /\ h[i].n <= p
      /\ \A i \in 1 .. k : s[i].n \in Nat /\ s[i].n <= p
      /\ \A i \in 1 .. Len(o) : o[i].n \in Nat /\ o[i].n <= p
  <2>1. \A x \in Messages : x.n \in Nat
    BY DEF Messages
  <2>2. \A i \in 1 .. k : s[i] \in Messages
    BY BoundAssumption DEF SlotArrays
  <2>3. (\A i \in 1 .. Len(h) : h[i] \in Messages) /\ (\A i \in 1 .. Len(o) : o[i] \in Messages)
    OBVIOUS
  <2>. QED BY <2>1, <2>2, <2>3, Zenon DEF Ordered
<1>4. Len(h) \in Nat /\ Len(o) \in Nat /\ k \in Nat
  OBVIOUS
<1>5. \A i \in 1 .. Len(q) : i \in 1 .. Len(o) \/ i = Len(o) + 1
  BY <1>2, <1>4
<1>6. \A n \in Nat : n <= p => n < e.n /\ n <= p + 1
  OBVIOUS
<1>7. e.n <= p + 1
  OBVIOUS
<1>8. \A i, j \in 1 .. Len(q) : i < j => q[i].n < q[j].n
  <2>. TAKE i, j \in 1 .. Len(q)
  <2>. HAVE i < j
  <2>1. i \in 1 .. Len(o)
    BY <1>2, <1>4
  <2>2. CASE j \in 1 .. Len(o)
    BY <2>1, <2>2, <1>2, Zenon DEF Ordered
  <2>3. CASE j = Len(o) + 1
    BY <2>1, <2>3, <1>2, <1>3, <1>6, Zenon
  <2>. QED BY <2>2, <2>3, <1>5, Zenon
<1>9. \A i \in 1 .. Len(h), j \in 1 .. Len(q) : h[i].n < q[j].n
  BY <1>2, <1>3, <1>5, <1>6, Zenon DEF Ordered
<1>10. \A i \in 1 .. k, j \in 1 .. Len(q) : s[i].n < q[j].n
  BY <1>2, <1>3, <1>5, <1>6, Zenon DEF Ordered
<1>11. /\ \A i \in 1 .. Len(h) : h[i].n <= p + 1
       /\ \A i \in 1 .. k : s[i].n <= p + 1
       /\ \A i \in 1 .. Len(q) : q[i].n <= p + 1
  BY <1>2, <1>3, <1>5, <1>6, <1>7, Zenon
<1>. QED BY <1>1, <1>8, <1>9, <1>10, <1>11, Zenon DEF Ordered

\* The first event of the result of poll is dropped, or goes behind the last slot.
LEMMA OrderedDeliver ==
  ASSUME NEW h \in Seq(Messages), NEW s \in SlotArrays, NEW k \in 0 .. InputQueueSize, NEW o \in Seq(Messages),
         NEW p \in Nat, o # <<>>, Ordered(h, s, k, o, p)
  PROVE  /\ Ordered(h, s, k, Tail(o), p)
         /\ \A t \in SlotArrays, m \in 0 .. InputQueueSize, d \in {0, 1} :
              /\ m + d = k + 1 /\ m > 0 /\ t[m] = Head(o)
              /\ \A i \in 1 .. m - 1 : t[i] = s[i + d]
              => Ordered(h, t, m, Tail(o), p)
<1>1. PICK q \in Seq(Messages), e \in Messages : q = Tail(o) /\ e = Head(o)
  <2>1. Tail(o) \in Seq(Messages) /\ Head(o) \in Messages
    OBVIOUS
  <2>. QED BY <2>1, Zenon
<1>2. /\ Len(o) \in Nat /\ Len(o) > 0 /\ Len(q) = Len(o) - 1 /\ e = o[1]
      /\ \A i \in 1 .. Len(q) : i + 1 \in 1 .. Len(o) /\ q[i] = o[i + 1]
  BY <1>1
<1>3. Len(h) \in Nat /\ Len(q) \in Nat /\ k \in Nat /\ 1 \in 1 .. Len(o) /\ InputQueueSize \in Nat
  BY <1>2, BoundAssumption
<1>4. /\ \A i, j \in 1 .. Len(q) : i < j => q[i].n < q[j].n
      /\ \A i \in 1 .. Len(q) : q[i].n <= p /\ e.n < q[i].n
  <2>1. \A i, j \in 1 .. Len(q) : i < j => i + 1 < j + 1
    BY <1>3
  <2>2. \A i \in 1 .. Len(q) : 1 < i + 1
    BY <1>3
  <2>. QED BY <2>1, <2>2, <1>2, <1>3, Zenon DEF Ordered
<1>5. /\ \A i \in 1 .. Len(h), j \in 1 .. Len(q) : h[i].n < q[j].n
      /\ \A i \in 1 .. k, j \in 1 .. Len(q) : s[i].n < q[j].n
  BY <1>2, Zenon DEF Ordered
<1>6. Ordered(h, s, k, q, p)
  BY <1>4, <1>5, Zenon DEF Ordered
<1>7. ASSUME NEW t \in SlotArrays, NEW m \in 0 .. InputQueueSize, NEW d \in {0, 1},
             m + d = k + 1, m > 0, t[m] = e, \A i \in 1 .. m - 1 : t[i] = s[i + d]
      PROVE  Ordered(h, t, m, q, p)
  <2>1. m \in Nat /\ d \in Nat /\ \A i \in 1 .. m : i = m \/ (i \in 1 .. m - 1 /\ i + d \in 1 .. k)
    BY <1>3, <1>7
  <2>2. \A i \in 1 .. k : s[i].n < e.n
    BY <1>2, <1>3 DEF Ordered
  <2>3. \A i \in 1 .. m - 1 : i + d \in 1 .. k /\ t[i] = s[i + d]
    BY <1>7, <2>1
  <2>4. \A i, j \in 1 .. m : i < j => t[i].n < t[j].n
    <3>. TAKE i, j \in 1 .. m
    <3>. HAVE i < j
    <3>1. i \in 1 .. m - 1
      BY <2>1
    <3>2. CASE j = m
      BY <3>1, <3>2, <2>2, <2>3, <1>7, Zenon
    <3>3. CASE j \in 1 .. m - 1
      <4>1. i + d < j + d
        BY <2>1
      <4>. QED BY <3>1, <3>3, <4>1, <2>3, Zenon DEF Ordered
    <3>. QED BY <3>2, <3>3, <2>1
  <2>5. \A i \in 1 .. Len(h), j \in 1 .. m : h[i].n < t[j].n
    <3>. TAKE i \in 1 .. Len(h), j \in 1 .. m
    <3>1. h[i].n < e.n /\ \A l \in 1 .. k : h[i].n < s[l].n
      BY <1>2, <1>3 DEF Ordered
    <3>. QED BY <3>1, <2>1, <2>3, <1>7, Zenon
  <2>6. \A i \in 1 .. m, j \in 1 .. Len(q) : t[i].n < q[j].n
    BY <2>1, <2>3, <1>4, <1>5, <1>7, Zenon
  <2>7. \A i \in 1 .. m : t[i].n <= p
    <3>1. e.n <= p /\ \A l \in 1 .. k : s[l].n <= p
      BY <1>2, <1>3 DEF Ordered
    <3>. QED BY <3>1, <2>1, <2>3, <1>7, Zenon
  <2>. QED BY <2>4, <2>5, <2>6, <2>7, <1>4, <1>5, Zenon DEF Ordered
<1>. QED BY <1>1, <1>6, <1>7, Zenon

\* The shell takes the slots.
LEMMA OrderedDrain ==
  ASSUME NEW h \in Seq(Messages), NEW s \in SlotArrays, NEW k \in 0 .. InputQueueSize, NEW o \in Seq(Messages),
         NEW p \in Nat, NEW q \in Seq(Messages), Len(q) = k, \A i \in 1 .. k : q[i] = s[i],
         Ordered(h, s, k, o, p)
  PROVE  \A t \in SlotArrays : Ordered(h \o q, t, 0, o, p)
<1>1. PICK g \in Seq(Messages) : g = h \o q
  <2>1. h \o q \in Seq(Messages)
    OBVIOUS
  <2>. QED BY <2>1, Zenon
<1>2. /\ Len(h) \in Nat /\ k \in Nat /\ Len(g) = Len(h) + k
      /\ \A i \in 1 .. Len(h) : g[i] = h[i]
      /\ \A i \in 1 .. Len(g) : i \in 1 .. Len(h) \/ (i - Len(h) \in 1 .. k /\ g[i] = s[i - Len(h)])
  <2>1. /\ Len(h) \in Nat /\ k \in Nat /\ Len(g) = Len(h) + k
        /\ \A i \in 1 .. Len(h) : g[i] = h[i]
        /\ \A i \in Len(h) + 1 .. Len(g) : g[i] = q[i - Len(h)]
    <3>1. Len(h) \in Nat /\ Len(q) \in Nat /\ Len(g) = Len(h) + Len(q)
      <4>1. \A T : \A x, y \in Seq(T) : Len(x \o y) = Len(x) + Len(y)
        OBVIOUS
      <4>2. Len(h) \in Nat /\ Len(q) \in Nat
        OBVIOUS
      <4>3. Len(h \o q) = Len(h) + Len(q)
        BY <4>1, Zenon
      <4>. QED BY <4>2, <4>3, <1>1, Zenon
    <3>2. \A i \in 1 .. Len(h) : g[i] = h[i]
      BY <1>1
    <3>3. \A i \in Len(h) + 1 .. Len(h) + Len(q) : g[i] = q[i - Len(h)]
      BY <1>1
    <3>. QED BY <3>1, <3>2, <3>3, Zenon
  <2>2. \A i \in 1 .. Len(g) : i \in 1 .. Len(h)
                                \/ (i \in Len(h) + 1 .. Len(g) /\ i - Len(h) \in 1 .. k)
    BY <2>1
  <2>. QED BY <2>1, <2>2, Zenon
<1>3. \A i, j \in 1 .. Len(g) : i < j => g[i].n < g[j].n
  <2>. TAKE i, j \in 1 .. Len(g)
  <2>. HAVE i < j
  <2>1. CASE j \in 1 .. Len(h)
    <3>1. i \in 1 .. Len(h)
      BY <2>1
    <3>. QED BY <2>1, <3>1, <1>2, Zenon DEF Ordered
  <2>2. CASE j \notin 1 .. Len(h) /\ i \in 1 .. Len(h)
    BY <2>2, <1>2, Zenon DEF Ordered
  <2>3. CASE j \notin 1 .. Len(h) /\ i \notin 1 .. Len(h)
    <3>1. i - Len(h) < j - Len(h)
      <4>1. \A x, y, z \in Int : x < y => x - z < y - z
        OBVIOUS
      <4>2. i \in Int /\ j \in Int /\ Len(h) \in Int
        BY <1>2
      <4>. QED BY <4>1, <4>2, Zenon
    <3>2. /\ i - Len(h) \in 1 .. k /\ g[i] = s[i - Len(h)]
          /\ j - Len(h) \in 1 .. k /\ g[j] = s[j - Len(h)]
      BY <2>3, <1>2, Zenon
    <3>. QED BY <3>1, <3>2, Zenon DEF Ordered
  <2>. QED BY <2>1, <2>2, <2>3, Zenon
<1>4. \A i \in 1 .. Len(g), j \in 1 .. Len(o) : g[i].n < o[j].n
  BY <1>2, Zenon DEF Ordered
<1>5. \A i \in 1 .. Len(g) : g[i].n <= p
  BY <1>2, Zenon DEF Ordered
<1>6. ASSUME NEW i \in 1 .. 0 PROVE FALSE
  OBVIOUS
<1>7. ASSUME NEW t \in SlotArrays PROVE Ordered(g, t, 0, o, p)
  BY <1>3, <1>4, <1>5, <1>6, Zenon DEF Ordered
<1>. QED BY <1>1, <1>7, Zenon

\* What drain returns, when the first k slots are filled.
LEMMA QueuedIs ==
  ASSUME slots \in SlotArrays, NEW k \in 0 .. InputQueueSize, Filling(slots, k)
  PROVE  /\ DOMAIN slots = 1 .. InputQueueSize /\ FreeSlots = k + 1 .. InputQueueSize
         /\ Queued = [i \in 1 .. k |-> slots[i]] /\ Queued \in Seq(Messages) /\ Len(Queued) = k
<1>1. InputQueueSize \in Nat /\ InputQueueSize > 0 /\ k \in Nat
  BY BoundAssumption
<1>2. DOMAIN slots = 1 .. InputQueueSize
  BY DEF SlotArrays
<1>3. \A i \in 1 .. InputQueueSize : i \in 1 .. k <=> i \notin k + 1 .. InputQueueSize
  BY <1>1
<1>4. \A i : i \in 1 .. k \/ i \in k + 1 .. InputQueueSize => i \in 1 .. InputQueueSize
  BY <1>1
<1>5. FreeSlots = k + 1 .. InputQueueSize
  <2>1. \A i : i \in FreeSlots <=> i \in 1 .. InputQueueSize /\ slots[i] = None
    BY <1>2, Zenon DEF FreeSlots
  <2>2. \A i : i \in FreeSlots <=> i \in k + 1 .. InputQueueSize
    BY <2>1, <1>3, <1>4, Zenon DEF Filling
  <2>. QED BY <2>2, Zenon
<1>6. FilledSlots = 1 .. k
  <2>1. \A i : i \in FilledSlots <=> i \in 1 .. k
    BY <1>2, <1>3, <1>4, <1>5, Zenon DEF FilledSlots
  <2>. QED BY <2>1, Zenon
<1>7. \A n \in Nat : Cardinality(1 .. n) = n
  <2>. TAKE n \in Nat
  <2>1. Cardinality(1 .. n) = IF 1 > n THEN 0 ELSE n - 1 + 1
    BY FS_Interval
  <2>. QED BY <2>1
<1>8. ASSUME NEW i \in 1 .. k PROVE NthFilled(i) = i
  <2>1. ASSUME NEW m \in 1 .. k PROVE Cardinality({j \in FilledSlots : j <= m}) = m
    <3>1. {j \in 1 .. k : j <= m} = 1 .. m
      BY <1>1
    <3>2. m \in Nat
      BY <1>1
    <3>. QED BY <3>1, <3>2, <1>6, <1>7, Zenon
  <2>2. \A m \in FilledSlots : Cardinality({j \in FilledSlots : j <= m}) = i <=> m = i
    BY <2>1, <1>6, Zenon
  <2>. QED BY <2>2, <1>6, Zenon DEF NthFilled
<1>9. Queued = [i \in 1 .. k |-> slots[i]]
  <2>1. Cardinality(FilledSlots) = k
    BY <1>1, <1>6, <1>7, Zenon
  <2>2. Queued = [i \in 1 .. k |-> slots[NthFilled(i)]]
    BY <2>1, Zenon DEF Queued
  <2>. QED BY <2>2, <1>8, Zenon
<1>10. \A i \in 1 .. k : slots[i] \in Messages
  BY <1>4, Zenon DEF SlotArrays
<1>11. [i \in 1 .. k |-> slots[i]] \in Seq(Messages) /\ Len([i \in 1 .. k |-> slots[i]]) = k
  BY <1>1, <1>10
<1>. QED BY <1>2, <1>5, <1>9, <1>11, Zenon

\* A step that moves no event.
LEMMA EventsFrame ==
  ASSUME EventsInv, UNCHANGED <<slots, handled, out, popped>>, hist'.done = hist.done,
         hist'.ignored = hist.ignored, hist'.missed = hist.missed, pc = "exited" => pc' = "exited"
  PROVE  EventsInv'
<1>1. EventTypes' /\ DoneNumbers'
  BY Zenon DEF EventsInv, EventTypes, DoneNumbers
<1>2. PICK k \in 0 .. InputQueueSize : Placed(k)
  BY Zenon DEF EventsInv
<1>3. QuitLast(slots', k, pc')
  BY <1>2, Zenon DEF Placed, QuitLast
<1>4. Filling(slots', k)
  BY <1>2, Zenon DEF Placed, Filling
<1>5. Ordered(handled', slots', k, out', popped')
  BY <1>2, Zenon DEF Placed
<1>6. Len(handled') + k + Len(out') + hist'.ignored + hist'.missed = popped'
  BY <1>2, Zenon DEF Placed
<1>7. Placed(k)'
  BY <1>3, <1>4, <1>5, <1>6, Zenon DEF Placed
<1>. QED BY <1>1, <1>7, Zenon DEF EventsInv

\* The types of what a step moves.
LEMMA EventFacts ==
  ASSUME InputState, EventsInv
  PROVE  /\ slots \in SlotArrays /\ handled \in Seq(Messages) /\ out \in Seq(Messages) /\ popped \in Nat
         /\ hist \in [used : Nat, done : Seq([ids : Seq(Desc), last : Messages]), ignored : Nat, missed : Nat]
         /\ hist.used = popped + Len(hist.done)
BY Zenon DEF InputState, EventsInv, EventTypes, QueueTypes, Counted

\* poll takes the oldest event the device has completed.
LEMMA EventsPoll == ASSUME InputState, EventsInv, PollEvent PROVE EventsInv'
<1>1. /\ pc = "poll" /\ ~NothingUsed /\ popped' = popped + 1
      /\ hist' = [hist EXCEPT !.done = IF @ = <<>> THEN @ ELSE Tail(@)]
      /\ out' = Append(out, buffer[Head(PoppedChain)]) /\ slots' = slots /\ handled' = handled
  BY DEF PollEvent, Pop
<1>2. PICK k \in 0 .. InputQueueSize : Placed(k)
  BY Zenon DEF EventsInv
<1>3. PICK e : e = hist.done[1].last
  BY Zenon
<1>4. Len(hist.done) > 0 /\ hist.done # <<>> /\ e = buffer[Head(PoppedChain)] /\ e \in Messages /\ e.n = popped + 1
  <2>1. Len(hist.done) > 0 /\ hist.done # <<>> /\ Head(hist.done) = hist.done[1] /\ e \in Messages
    <3>1. Len(hist.done) > (IF used.pending THEN 1 ELSE 0)
      BY <1>1, InputPopped, Zenon
    <3>2. hist.done \in Seq([ids : Seq(Desc), last : Messages])
      BY EventFacts
    <3>3. Len(hist.done) > 0 /\ hist.done # <<>> /\ Head(hist.done) = hist.done[1]
      BY <3>1, <3>2
    <3>4. \A T : \A d \in Seq(T) : Len(d) > 0 => d[1] \in T
      OBVIOUS
    <3>5. hist.done[1] \in [ids : Seq(Desc), last : Messages]
      BY <3>2, <3>3, <3>4, Zenon
    <3>. QED BY <3>3, <3>5, <1>3
  <2>2. buffer[Dones[0]] = Head(hist.done).last /\ PoppedChain = <<Dones[0]>>
    BY <1>1, InputPopped, Zenon
  <2>3. Head(PoppedChain) = Dones[0]
    BY <2>2, Chains, Zenon
  <2>4. e.n = popped + 1
    <3>1. 1 \in 1 .. Len(hist.done)
      BY <2>1, EventFacts
    <3>. QED BY <3>1, <1>3, Zenon DEF EventsInv, DoneNumbers
  <2>. QED BY <2>1, <2>2, <2>3, <2>4, <1>3, Zenon
<1>5. out' = Append(out, e) /\ out' \in Seq(Messages) /\ Len(out') = Len(out) + 1
  BY <1>1, <1>4, EventFacts
<1>6. hist'.done = Tail(hist.done) /\ hist'.ignored = hist.ignored /\ hist'.missed = hist.missed
  BY <1>1, <1>4, EventFacts
<1>7. EventTypes'
  BY <1>1, <1>5, EventFacts, Zenon DEF EventTypes
<1>8. DoneNumbers'
  <2>1. \A j \in 1 .. Len(Tail(hist.done)) : j + 1 \in 1 .. Len(hist.done) /\ Tail(hist.done)[j] = hist.done[j + 1]
    BY <1>4, EventFacts
  <2>2. \A j \in 1 .. Len(Tail(hist.done)) : popped + (j + 1) = popped' + j
    BY <1>1, <1>4, EventFacts
  <2>3. \A j \in 1 .. Len(hist.done) : hist.done[j].last.n = popped + j
    BY Zenon DEF EventsInv, DoneNumbers
  <2>4. ASSUME NEW j \in 1 .. Len(hist'.done) PROVE hist'.done[j].last.n = popped' + j
    <3>1. j + 1 \in 1 .. Len(hist.done) /\ hist'.done[j] = hist.done[j + 1] /\ popped + (j + 1) = popped' + j
      BY <2>1, <2>2, <1>6, Zenon
    <3>. QED BY <3>1, <2>3, Zenon
  <2>. QED BY <2>4, Zenon DEF DoneNumbers
<1>9. Placed(k)'
  <2>1. Ordered(handled', slots', k, out', popped')
    BY <1>1, <1>2, <1>4, <1>5, EventFacts, OrderedPoll, Zenon DEF Placed
  <2>2. QuitLast(slots', k, pc')
    <3>1. pc # "exited"
      BY <1>1
    <3>. QED BY <1>1, <1>2, <3>1, Zenon DEF Placed, QuitLast
  <2>3. Filling(slots', k)
    BY <1>1, <1>2, Zenon DEF Placed
  <2>4. Len(handled') + k + Len(out') + hist'.ignored + hist'.missed = popped'
    <3>1. /\ Len(handled) \in Nat /\ Len(out) \in Nat /\ hist.ignored \in Nat /\ hist.missed \in Nat
          /\ popped \in Nat /\ k \in Nat
      BY EventFacts
    <3>2. Len(handled) + k + Len(out) + hist.ignored + hist.missed = popped
      BY <1>2, Zenon DEF Placed
    <3>3. Len(handled) + k + (Len(out) + 1) + hist.ignored + hist.missed = popped + 1
      <4>1. PICK a \in Nat, b \in Nat, c \in Nat, d \in Nat :
              a = Len(handled) /\ b = Len(out) /\ c = hist.ignored /\ d = hist.missed
        BY <3>1, Zenon
      <4>2. a + k + b + c + d = popped /\ k \in Nat
        BY <4>1, <3>1, <3>2, Zenon
      <4>3. a + k + (b + 1) + c + d = popped + 1
        BY <4>2
      <4>. QED BY <4>1, <4>3, Zenon
    <3>. QED BY <3>3, <1>1, <1>5, <1>6, Zenon
  <2>. QED BY <2>1, <2>2, <2>3, <2>4, Zenon DEF Placed
<1>. QED BY <1>7, <1>8, <1>9, Zenon DEF EventsInv

\* An event of the result of poll goes into the input queue or is ignored.
LEMMA EventsDeliver == ASSUME InputState, EventsInv, Deliver PROVE EventsInv'
<1>1. PICK e : e = Head(out)
  BY Zenon
<1>2. /\ pc = "deliver" /\ out # <<>> /\ out' = Tail(out) /\ popped' = popped /\ handled' = handled
      /\ \/ /\ e.kind = "ignored" /\ hist' = [hist EXCEPT !.ignored = @ + 1]
            /\ slots' = slots /\ pc' = pc
         \/ /\ e.kind # "ignored" /\ slots' = PushEvent(e)
            /\ hist' = [hist EXCEPT !.missed = @ + (IF FreeSlots = {} THEN 1 ELSE 0)]
            /\ pc' = IF e.kind = "quit" THEN "exited" ELSE pc
  BY <1>1, Zenon DEF Deliver, queueVars
<1>3. PICK k \in 0 .. InputQueueSize : Placed(k)
  BY Zenon DEF EventsInv
<1>4. /\ Len(handled) \in Nat /\ Len(out) \in Nat /\ hist.ignored \in Nat /\ hist.missed \in Nat
      /\ popped \in Nat /\ k \in Nat /\ InputQueueSize \in Nat /\ InputQueueSize > 0
  BY EventFacts, BoundAssumption
<1>5. out' \in Seq(Messages) /\ Len(out') = Len(out) - 1 /\ e \in Messages
  BY <1>1, <1>2, EventFacts
<1>6. Len(handled) + k + Len(out) + hist.ignored + hist.missed = popped
  BY <1>3, Zenon DEF Placed
<1>7. hist'.done = hist.done
  BY <1>2, EventFacts
<1>8. DoneNumbers'
  BY <1>2, <1>7, Zenon DEF EventsInv, DoneNumbers
<1>9. /\ Ordered(handled, slots, k, out', popped)
      /\ \A t \in SlotArrays, m \in 0 .. InputQueueSize, d \in {0, 1} :
           /\ m + d = k + 1 /\ m > 0 /\ t[m] = e
           /\ \A i \in 1 .. m - 1 : t[i] = slots[i + d]
           => Ordered(handled, t, m, out', popped)
  <2>1. Ordered(handled, slots, k, out, popped)
    BY <1>3, Zenon DEF Placed
  <2>2. slots \in SlotArrays /\ handled \in Seq(Messages) /\ out \in Seq(Messages) /\ popped \in Nat /\ out # <<>>
    BY <1>2, EventFacts, Zenon
  <2>3. /\ Ordered(handled, slots, k, Tail(out), popped)
        /\ \A t \in SlotArrays, m \in 0 .. InputQueueSize, d \in {0, 1} :
             /\ m + d = k + 1 /\ m > 0 /\ t[m] = Head(out)
             /\ \A i \in 1 .. m - 1 : t[i] = slots[i + d]
             => Ordered(handled, t, m, Tail(out), popped)
    BY <2>1, <2>2, OrderedDeliver, Zenon
  <2>. QED BY <2>3, <1>1, <1>2, Zenon
<1>10. \A i \in 1 .. k : slots[i].kind # "quit" /\ slots[i] # None
  <2>1. pc # "exited"
    BY <1>2
  <2>. QED BY <2>1, <1>3, Zenon DEF Placed, QuitLast, Filling
<1>11. CASE e.kind = "ignored"
  <2>1. hist' = [hist EXCEPT !.ignored = @ + 1] /\ slots' = slots /\ pc' = pc
    BY <1>2, <1>11, Zenon
  <2>2. hist'.ignored = hist.ignored + 1 /\ hist'.missed = hist.missed
    BY <2>1, EventFacts
  <2>3. Len(handled) + k + Len(out') + hist'.ignored + hist'.missed = popped
    BY <2>2, <1>4, <1>5, <1>6
  <2>4. Placed(k)'
    BY <2>1, <2>3, <1>2, <1>3, <1>9, Zenon DEF Placed
  <2>5. EventTypes'
    BY <2>1, <1>2, <1>5, EventFacts, Zenon DEF EventTypes
  <2>. QED BY <2>4, <2>5, <1>8, Zenon DEF EventsInv
<1>12. CASE e.kind # "ignored"
  <2>1. /\ slots' = PushEvent(e) /\ hist' = [hist EXCEPT !.missed = @ + (IF FreeSlots = {} THEN 1 ELSE 0)]
        /\ pc' = IF e.kind = "quit" THEN "exited" ELSE pc
    BY <1>2, <1>12, Zenon
  <2>2. /\ hist'.ignored = hist.ignored
        /\ hist'.missed = hist.missed + (IF FreeSlots = {} THEN 1 ELSE 0)
    BY <2>1, EventFacts
  <2>3. DOMAIN slots = 1 .. InputQueueSize /\ FreeSlots = k + 1 .. InputQueueSize
    BY <1>3, EventFacts, QueuedIs, Zenon DEF Placed
  <2>4. e # None
    BY <1>12 DEF None, Message
  <2>5. ASSUME NEW m \in 1 .. InputQueueSize, NEW d \in {0, 1}, m + d = k + 1, slots' \in SlotArrays, slots'[m] = e,
               \A i \in 1 .. m - 1 : slots'[i] = slots[i + d],
               \A i \in m + 1 .. InputQueueSize : slots'[i] = None,
               hist'.missed = hist.missed + d
        PROVE  EventsInv'
    <3>1. m \in 0 .. InputQueueSize /\ m > 0 /\ m \in Nat /\ d \in Nat
          /\ \A i \in 1 .. m : i = m \/ (i \in 1 .. m - 1 /\ i + d \in 1 .. k)
      BY <2>5, <1>4
    <3>2. Ordered(handled', slots', m, out', popped')
      BY <3>1, <2>5, <1>2, <1>9, Zenon
    <3>3. Filling(slots', m)
      BY <3>1, <2>4, <2>5, <1>10, Zenon DEF Filling
    <3>4. QuitLast(slots', m, pc')
      <4>1. \A i \in 1 .. m - 1 : i + d \in 1 .. k
        BY <3>1, <2>5, <1>4
      <4>2. \A i \in 1 .. m - 1 : slots'[i].kind # "quit"
        BY <4>1, <2>5, <1>10, Zenon
      <4>3. e.kind = "quit" => pc' = "exited"
        BY <2>1, Zenon
      <4>. QED BY <4>2, <4>3, <3>1, <2>5, Zenon DEF QuitLast
    <3>5. Len(handled') + m + Len(out') + hist'.ignored + hist'.missed = popped'
      <4>1. Len(handled) + m + (Len(out) - 1) + hist.ignored + (hist.missed + d) = popped
        <5>1. PICK a \in Nat, b \in Nat, c \in Nat, f \in Nat :
                a = Len(handled) /\ b = Len(out) /\ c = hist.ignored /\ f = hist.missed
          BY <1>4, Zenon
        <5>2. a + k + b + c + f = popped
          BY <5>1, <1>6, Zenon
        <5>3. m \in Nat /\ d \in Nat /\ k \in Nat /\ m + d = k + 1
          BY <3>1, <2>5, <1>4, Zenon
        <5>4. a + m + (b - 1) + c + (f + d) = popped
          BY <5>2, <5>3
        <5>. QED BY <5>1, <5>4, Zenon
      <4>. QED BY <4>1, <2>2, <2>5, <1>2, <1>5, Zenon
    <3>6. Placed(m)'
      BY <3>2, <3>3, <3>4, <3>5, Zenon DEF Placed
    <3>7. EventTypes'
      BY <2>5, <1>2, <1>5, EventFacts, Zenon DEF EventTypes
    <3>. QED BY <3>1, <3>6, <3>7, <1>8, Zenon DEF EventsInv
  <2>6. CASE k < InputQueueSize
    <3>1. FreeSlots # {} /\ FreeSlots \in SUBSET Nat /\ k + 1 \in FreeSlots /\ k + 1 \in 1 .. InputQueueSize
      <4>1. k + 1 \in k + 1 .. InputQueueSize /\ k + 1 \in 1 .. InputQueueSize
        BY <2>6, <1>4
      <4>2. \A i \in k + 1 .. InputQueueSize : i \in Nat
        BY <1>4
      <4>. QED BY <4>1, <4>2, <2>3, Zenon
    <3>2. Lowest(FreeSlots) \in FreeSlots /\ Lowest(FreeSlots) <= k + 1
      BY <3>1, LowestIs, Zenon
    <3>3. Lowest(FreeSlots) = k + 1
      BY <3>2, <2>3, <1>4
    <3>4. slots' = [slots EXCEPT ![k + 1] = e]
      BY <3>1, <3>3, <2>1, Zenon DEF PushEvent
    <3>5. /\ slots' \in SlotArrays /\ slots'[k + 1] = e
          /\ \A i \in 1 .. InputQueueSize : i # k + 1 => slots'[i] = slots[i]
      BY <3>1, <3>4, <1>5, EventFacts DEF SlotArrays
    <3>6. /\ \A i \in 1 .. (k + 1) - 1 : i \in 1 .. InputQueueSize /\ i # k + 1 /\ i + 0 = i
          /\ \A i \in (k + 1) + 1 .. InputQueueSize : i \in 1 .. InputQueueSize /\ i # k + 1 /\ i \in k + 1 .. InputQueueSize
      BY <2>6, <1>4
    <3>7. \A i \in 1 .. (k + 1) - 1 : slots'[i] = slots[i + 0]
      BY <3>5, <3>6, Zenon
    <3>8. \A i \in (k + 1) + 1 .. InputQueueSize : slots'[i] = None
      BY <3>5, <3>6, <1>3, Zenon DEF Placed, Filling
    <3>9. hist'.missed = hist.missed + 0 /\ (k + 1) + 0 = k + 1
      BY <3>1, <2>2, <1>4
    <3>. QED BY <3>1, <3>5, <3>7, <3>8, <3>9, <2>5, Zenon
  <2>7. CASE k = InputQueueSize
    <3>1. FreeSlots = {}
      BY <2>3, <2>7, <1>4
    <3>2. slots' = [i \in 1 .. InputQueueSize |-> IF i = InputQueueSize THEN e ELSE slots[i + 1]]
      BY <3>1, <2>1, <2>3, Zenon DEF PushEvent
    <3>3. \A i \in 1 .. InputQueueSize - 1 : i \in 1 .. InputQueueSize /\ i # InputQueueSize /\ i + 1 \in 1 .. InputQueueSize
      BY <1>4
    <3>4. InputQueueSize \in 1 .. InputQueueSize /\ InputQueueSize + 1 = k + 1
      BY <2>7, <1>4
    <3>5. slots'[InputQueueSize] = e /\ \A i \in 1 .. InputQueueSize - 1 : slots'[i] = slots[i + 1]
      BY <3>2, <3>3, <3>4, Zenon
    <3>6. slots' \in SlotArrays
      <4>1. \A i \in 1 .. InputQueueSize : i = InputQueueSize \/ i + 1 \in 1 .. InputQueueSize
        BY <1>4
      <4>. QED BY <4>1, <3>2, <1>5, EventFacts DEF SlotArrays
    <3>7. \A i \in InputQueueSize + 1 .. InputQueueSize : slots'[i] = None
      BY <1>4
    <3>8. hist'.missed = hist.missed + 1
      BY <3>1, <2>2, Zenon
    <3>. QED BY <3>4, <3>5, <3>6, <3>7, <3>8, <2>5, Zenon
  <2>. QED BY <2>6, <2>7, <1>4
<1>. QED BY <1>11, <1>12

\* The shell takes all the slots: a quit, at which it would stop, is the last.
LEMMA EventsDrain == ASSUME InputState, EventsInv, Drain PROVE EventsInv'
<1>1. PICK k \in 0 .. InputQueueSize : Placed(k)
  BY Zenon DEF EventsInv
<1>2. /\ DOMAIN slots = 1 .. InputQueueSize
      /\ Queued = [i \in 1 .. k |-> slots[i]] /\ Queued \in Seq(Messages) /\ Len(Queued) = k
  BY <1>1, EventFacts, QueuedIs, Zenon DEF Placed
<1>3. PICK q \in Seq(Messages) : q = Queued
  BY <1>2, Zenon
<1>4. k \in Nat /\ DOMAIN q = 1 .. k /\ Len(q) = k /\ \A i \in 1 .. k : q[i] = slots[i]
  BY <1>2, <1>3
<1>5. Quits = {} \/ SubSeq(q, 1, Lowest(Quits)) = q
  <2>. SUFFICES ASSUME Quits # {} PROVE SubSeq(q, 1, Lowest(Quits)) = q
    OBVIOUS
  <2>1. \A i \in Quits : i \in 1 .. k /\ slots[i].kind = "quit"
    BY <1>3, <1>4, Zenon DEF Quits
  <2>2. \A i \in Quits : i = k
    BY <2>1, <1>1, Zenon DEF Placed, QuitLast
  <2>3. Quits \in SUBSET Nat
    BY <2>1, <1>4
  <2>4. Lowest(Quits) = k
    BY <2>2, <2>3, LowestIs, Zenon
  <2>5. SubSeq(q, 1, k) = q
    BY <1>4
  <2>. QED BY <2>4, <2>5, Zenon
<1>6. /\ handled' = handled \o q
      /\ slots' = [i \in 1 .. InputQueueSize |-> IF slots[i] \in Range(q) THEN None ELSE slots[i]]
      /\ pc' = pc /\ out' = out /\ popped' = popped /\ hist' = hist
  <2>1. \A S : S = {} \/ SubSeq(q, 1, Lowest(Quits)) = q => (S = Quits => (IF Quits = {} THEN q ELSE SubSeq(q, 1, Lowest(Quits))) = q)
    BY Zenon
  <2>2. (IF Quits = {} THEN Queued ELSE SubSeq(Queued, 1, Lowest(Quits))) = q
    BY <1>3, <1>5, Zenon
  <2>. QED BY <2>2, <1>2, Zenon DEF Drain, queueVars
<1>7. \A i \in 1 .. InputQueueSize : slots'[i] = None
  <2>. TAKE i \in 1 .. InputQueueSize
  <2>1. CASE i \in 1 .. k
    <3>1. slots[i] \in Range(q)
      BY <2>1, <1>4, Zenon DEF Range
    <3>. QED BY <3>1, <1>6, Zenon
  <2>2. CASE i \in k + 1 .. InputQueueSize
    <3>1. slots[i] = None
      BY <2>2, <1>1, Zenon DEF Placed, Filling
    <3>. QED BY <3>1, <1>6, Zenon
  <2>. QED BY <2>1, <2>2, <1>4, BoundAssumption
<1>8. slots' \in SlotArrays
  <2>1. None \in Messages
    BY DEF None, Message, Messages, Words, Kinds
  <2>2. slots' \in [1 .. InputQueueSize -> Messages]
    BY <2>1, <1>6, EventFacts DEF SlotArrays
  <2>. QED BY <2>2 DEF SlotArrays
<1>9. handled' \in Seq(Messages) /\ Len(handled') = Len(handled) + k
  <2>1. handled \in Seq(Messages)
    BY EventFacts
  <2>2. handled \o q \in Seq(Messages) /\ Len(handled \o q) = Len(handled) + Len(q)
    BY <2>1
  <2>. QED BY <2>2, <1>4, <1>6, Zenon
<1>10. EventTypes' /\ DoneNumbers'
  BY <1>6, <1>8, <1>9, EventFacts, Zenon DEF EventTypes, EventsInv, DoneNumbers
<1>11. Placed(0)'
  <2>1. Ordered(handled', slots', 0, out', popped')
    <3>1. Ordered(handled, slots, k, out, popped)
      BY <1>1, Zenon DEF Placed
    <3>2. slots \in SlotArrays /\ handled \in Seq(Messages) /\ out \in Seq(Messages) /\ popped \in Nat
      BY EventFacts, Zenon
    <3>3. \A t \in SlotArrays : Ordered(handled \o q, t, 0, out, popped)
      BY <3>1, <3>2, <1>4, OrderedDrain, Zenon
    <3>. QED BY <3>3, <1>6, <1>8, Zenon
  <2>2. ASSUME NEW i \in 1 .. 0 PROVE FALSE
    OBVIOUS
  <2>3. 0 + 1 = 1
    OBVIOUS
  <2>4. Filling(slots', 0) /\ QuitLast(slots', 0, pc')
    BY <2>2, <2>3, <1>7, Zenon DEF Filling, QuitLast
  <2>5. Len(handled') + 0 + Len(out') + hist'.ignored + hist'.missed = popped'
    <3>1. Len(handled) \in Nat /\ Len(out) \in Nat /\ hist.ignored \in Nat /\ hist.missed \in Nat /\ popped \in Nat
      BY EventFacts
    <3>2. Len(handled) + k + Len(out) + hist.ignored + hist.missed = popped
      BY <1>1, Zenon DEF Placed
    <3>3. (Len(handled) + k) + 0 + Len(out) + hist.ignored + hist.missed = popped
      BY <3>1, <3>2, <1>4
    <3>. QED BY <3>3, <1>6, <1>9, Zenon
  <2>. QED BY <2>1, <2>4, <2>5, Zenon DEF Placed
<1>12. 0 \in 0 .. InputQueueSize
  BY BoundAssumption
<1>. QED BY <1>10, <1>11, <1>12, Zenon DEF EventsInv

\* The device reports an event with the next number.
LEMMA EventsComplete == ASSUME InputState, EventsInv, DeviceComplete PROVE EventsInv'
<1>1. driver = "input"
  BY DEF InputState, InputInv
<1>2. PICK head \in device.held, value \in [n : {hist.used + 1}, kind : Kinds] :
        hist' = [hist EXCEPT !.used = @ + 1,
                             !.done = Append(@, [ids |-> DeviceChain(head), last |-> value])]
  BY <1>1, Zenon DEF DeviceComplete
<1>3. UNCHANGED <<slots, handled, out, popped, pc>>
  BY DEF DeviceComplete, inputVars
<1>4. PICK c : c = [ids |-> DeviceChain(head), last |-> value]
  BY Zenon
<1>5. c.last.n = hist.used + 1
  BY <1>2, <1>4
<1>6. hist'.done = Append(hist.done, c) /\ hist'.ignored = hist.ignored /\ hist'.missed = hist.missed
  BY <1>2, <1>4, EventFacts
<1>7. DoneNumbers'
  <2>1. PICK l \in Nat : l = Len(hist.done)
    BY EventFacts
  <2>2. hist.done \in Seq([ids : Seq(Desc), last : Messages])
    BY EventFacts
  <2>4. /\ Len(hist'.done) = l + 1 /\ hist'.done[l + 1] = c
        /\ \A j \in 1 .. l : hist'.done[j] = hist.done[j]
    <3>0. PICK T : T = [ids : Seq(Desc), last : Messages]
      BY Zenon
    <3>1. PICK d \in Seq(T) : d = hist.done
      BY <3>0, <2>2, Zenon
    <3>2. hist'.done = Append(d, c) /\ Len(d) = l
      BY <3>1, <2>1, <1>6, Zenon
    <3>3. /\ Len(Append(d, c)) = Len(d) + 1 /\ Append(d, c)[Len(d) + 1] = c
          /\ \A j \in 1 .. Len(d) : Append(d, c)[j] = d[j]
      BY <3>1
    <3>4. /\ Len(Append(d, c)) = l + 1 /\ Append(d, c)[l + 1] = c
          /\ \A j \in 1 .. l : Append(d, c)[j] = d[j]
      BY <3>2, <3>3
    <3>5. Len(hist'.done) = l + 1 /\ hist'.done[l + 1] = c
      BY <3>2, <3>4, Zenon
    <3>6. ASSUME NEW j \in 1 .. l PROVE hist'.done[j] = hist.done[j]
      <4>1. Append(d, c)[j] = d[j]
        BY <3>4, Zenon
      <4>. QED BY <4>1, <3>1, <3>2, Zenon
    <3>. QED BY <3>5, <3>6, Zenon
  <2>5. \A j \in 1 .. l + 1 : j \in 1 .. l \/ j = l + 1
    OBVIOUS
  <2>6. c.last.n = popped + (l + 1)
    <3>1. hist.used = popped + l /\ popped \in Nat
      BY <2>1, EventFacts, Zenon
    <3>2. (popped + l) + 1 = popped + (l + 1)
      BY <3>1
    <3>. QED BY <3>1, <3>2, <1>5, Zenon
  <2>7. \A j \in 1 .. l : hist.done[j].last.n = popped + j
    BY <2>1, Zenon DEF EventsInv, DoneNumbers
  <2>8. \A j \in 1 .. Len(hist'.done) : hist'.done[j].last.n = popped' + j
    BY <2>4, <2>5, <2>6, <2>7, <1>3, Zenon
  <2>. QED BY <2>8, Zenon DEF DoneNumbers
<1>8. EventTypes'
  BY <1>3, Zenon DEF EventsInv, EventTypes
<1>9. PICK k \in 0 .. InputQueueSize : Placed(k)
  BY Zenon DEF EventsInv
<1>10. Placed(k)'
  BY <1>3, <1>6, <1>9, Zenon DEF Placed
<1>. QED BY <1>7, <1>8, <1>10, Zenon DEF EventsInv

\* Every step keeps the events in order.
LEMMA EventsStep == ASSUME InputState, EventsInv, [Next]_vars PROVE EventsInv'
<1>1. driver = "input" /\ pc \notin GpuPoints
  BY DEF InputState, InputInv
<1>2. ASSUME UNCHANGED <<inputVars, popped, hist>>, pc = "exited" => pc' = "exited" PROVE EventsInv'
  <2>1. UNCHANGED <<slots, handled, out, popped, hist>>
    BY <1>2, Zenon DEF inputVars
  <2>. QED BY <2>1, <1>2, EventsFrame, Zenon
<1>3. CASE UNCHANGED vars
  BY <1>2, <1>3 DEF vars, queueVars
<1>4. CASE StartSteps
  <2>1. UNCHANGED inputVars
    BY <1>4 DEF StartSteps, Reset, Acknowledge, DriverKnown, WriteFeatures, WriteStatus, CheckFeatures,
       InitializeQueue, DriverOk
  <2>2. UNCHANGED <<popped, hist>> /\ pc # "exited"
    BY <1>4, StartStep DEF queueVars
  <2>. QED BY <2>1, <2>2, <1>2
<1>5. CASE FillEvents \/ PublishEvents \/ StartPolling \/ Refill \/ Republish \/ PollEnds \/ Delivered
  <2>1. CASE FillEvents \/ Refill
    <3>1. UNCHANGED <<inputVars, popped, hist>> /\ pc # "exited"
      BY <2>1 DEF FillEvents, Refill, Fill
    <3>. QED BY <3>1, <1>2
  <2>2. CASE PublishEvents \/ Republish
    <3>1. UNCHANGED <<inputVars, popped, hist>> /\ pc # "exited"
      BY <2>2 DEF PublishEvents, Republish, Publish
    <3>. QED BY <3>1, <1>2
  <2>3. CASE StartPolling \/ PollEnds \/ Delivered
    <3>1. UNCHANGED <<inputVars, popped, hist>> /\ pc # "exited"
      BY <2>3 DEF StartPolling, PollEnds, Delivered, queueVars
    <3>. QED BY <3>1, <1>2
  <2>. QED BY <1>5, <2>1, <2>2, <2>3, Zenon
<1>6. CASE DeviceFetch \/ DevicePublish
  <2>1. UNCHANGED <<inputVars, popped, hist, pc>>
    BY <1>6 DEF DeviceFetch, DevicePublish, queueVars
  <2>. QED BY <2>1, <1>2
<1>7. CASE Call \/ SendFill \/ SendPublish \/ NotifyDevice \/ ReceiveAnswer
  BY <1>1, <1>7 DEF Call, SendFill, SendPublish, NotifyDevice, ReceiveAnswer, GpuPoints
<1>. QED BY <1>3, <1>4, <1>5, <1>6, <1>7, EventsPoll, EventsDeliver, EventsDrain, EventsComplete, Zenon
     DEF Next, DriverStep, DeviceStep, StartSteps

\* The numbers of the events one after the other, when they are ordered.
LEMMA NumbersInOrder ==
  ASSUME InputState, EventsInv
  PROVE  /\ \A i, j \in DOMAIN Numbers : i < j => Numbers[i] < Numbers[j]
         /\ Len(Numbers) + hist.ignored + hist.missed + Len(hist.done) = hist.used
<1>1. PICK k \in 0 .. InputQueueSize : Placed(k)
  BY Zenon DEF EventsInv
<1>2. Queued = [i \in 1 .. k |-> slots[i]] /\ Queued \in Seq(Messages) /\ Len(Queued) = k
  BY <1>1, EventFacts, QueuedIs, Zenon DEF Placed
<1>3. PICK q \in Seq(Messages) : q = Queued
  BY <1>2, Zenon
<1>4. k \in Nat /\ Len(q) = k /\ \A i \in 1 .. k : q[i] = slots[i]
  BY <1>2, <1>3
<1>5. slots \in SlotArrays /\ handled \in Seq(Messages) /\ out \in Seq(Messages) /\ popped \in Nat
  BY EventFacts, Zenon
<1>6. PICK g \in Seq(Messages) : g = handled \o q
  <2>1. handled \o q \in Seq(Messages)
    BY <1>5
  <2>. QED BY <2>1, Zenon
<1>7. Ordered(g, slots, 0, out, popped)
  <2>1. Ordered(handled, slots, k, out, popped)
    BY <1>1, Zenon DEF Placed
  <2>2. \A t \in SlotArrays : Ordered(handled \o q, t, 0, out, popped)
    BY <2>1, <1>4, <1>5, OrderedDrain, Zenon
  <2>. QED BY <2>2, <1>5, <1>6, Zenon
<1>8. PICK a \in Seq(Messages) : a = g \o out
  <2>1. g \o out \in Seq(Messages)
    BY <1>5
  <2>. QED BY <2>1, Zenon
<1>9. Numbers = [i \in 1 .. Len(a) |-> a[i].n]
  BY <1>3, <1>6, <1>8, Zenon DEF Numbers
<1>10. /\ Len(g) \in Nat /\ Len(out) \in Nat /\ Len(handled) \in Nat /\ Len(a) = Len(g) + Len(out)
       /\ Len(g) = Len(handled) + k
       /\ \A i \in 1 .. Len(g) : a[i] = g[i]
       /\ \A i \in Len(g) + 1 .. Len(g) + Len(out) : a[i] = out[i - Len(g)]
  <2>1. Len(g) \in Nat /\ Len(out) \in Nat /\ Len(handled) \in Nat
    BY <1>5
  <2>2. Len(g \o out) = Len(g) + Len(out) /\ \A i \in 1 .. Len(g) : (g \o out)[i] = g[i]
    BY <1>5
  <2>3. \A i \in Len(g) + 1 .. Len(g) + Len(out) : (g \o out)[i] = out[i - Len(g)]
    BY <1>5
  <2>4. Len(handled \o q) = Len(handled) + Len(q)
    BY <1>5
  <2>. QED BY <2>1, <2>2, <2>3, <2>4, <1>4, <1>6, <1>8, Zenon
<1>11. \A i \in 1 .. Len(a) : i \in 1 .. Len(g) \/ (i - Len(g) \in 1 .. Len(out) /\ a[i] = out[i - Len(g)])
  <2>1. \A i \in 1 .. Len(a) : i \in 1 .. Len(g)
          \/ (i \in Len(g) + 1 .. Len(g) + Len(out) /\ i - Len(g) \in 1 .. Len(out))
    BY <1>10
  <2>. QED BY <2>1, <1>10, Zenon
<1>12. ASSUME NEW i \in 1 .. Len(a), NEW j \in 1 .. Len(a), i < j PROVE a[i].n < a[j].n
  <2>1. CASE j \in 1 .. Len(g)
    <3>1. i \in 1 .. Len(g)
      BY <2>1, <1>10, <1>12
    <3>. QED BY <2>1, <3>1, <1>7, <1>10, <1>12, Zenon DEF Ordered
  <2>2. CASE j \notin 1 .. Len(g) /\ i \in 1 .. Len(g)
    BY <2>2, <1>7, <1>10, <1>11, Zenon DEF Ordered
  <2>3. CASE j \notin 1 .. Len(g) /\ i \notin 1 .. Len(g)
    <3>1. i - Len(g) < j - Len(g)
      BY <1>10, <1>12
    <3>2. /\ i - Len(g) \in 1 .. Len(out) /\ a[i] = out[i - Len(g)]
          /\ j - Len(g) \in 1 .. Len(out) /\ a[j] = out[j - Len(g)]
      BY <2>3, <1>11, Zenon
    <3>. QED BY <3>1, <3>2, <1>7, Zenon DEF Ordered
  <2>. QED BY <2>1, <2>2, <2>3, Zenon
<1>13. DOMAIN Numbers = 1 .. Len(a) /\ \A i \in 1 .. Len(a) : Numbers[i] = a[i].n
  BY <1>9, Zenon
<1>14. Len(Numbers) = Len(a)
  <2>1. Len(a) \in Nat
    OBVIOUS
  <2>. QED BY <2>1, <1>9
<1>15. Len(Numbers) + hist.ignored + hist.missed + Len(hist.done) = hist.used
  <2>1. /\ hist.ignored \in Nat /\ hist.missed \in Nat /\ Len(hist.done) \in Nat
        /\ hist.used = popped + Len(hist.done)
    BY EventFacts
  <2>2. Len(handled) + k + Len(out) + hist.ignored + hist.missed = popped
    BY <1>1, Zenon DEF Placed
  <2>. QED BY <2>1, <2>2, <1>4, <1>5, <1>10, <1>14, Zenon
<1>. QED BY <1>12, <1>13, <1>15, Zenon

\* Until the ring indices wrap, the events that the shell has handled, those in its
\* queue and those that poll has returned are in the order in which the device reported
\* them, none is there twice, and none is lost that InputQueue::push did not push out and
\* convert_input_event did not ignore: through push, pop and the refill of the
\* virtqueue, the delivery of what poll returned, and InputQueue::push and drain.
THEOREM EventsKeepTheirOrder == Spec => []EventsInOrder
<1>. DEFINE EventsIInv == VirtioInv /\ (driver = "input" /\ BeforeWrap => EventsInv)
<1>1. Init => EventsIInv
  <2>. SUFFICES ASSUME Init PROVE EventsInv
    BY VirtioStarts, Zenon
  <2>1. /\ out = <<>> /\ handled = <<>> /\ slots = [i \in 1 .. InputQueueSize |-> None]
        /\ popped = 0 /\ hist = [used |-> 0, done |-> <<>>, ignored |-> 0, missed |-> 0]
    BY Zenon DEF Init
  <2>2. None \in Messages
    BY DEF None, Message, Messages, Words, Kinds
  <2>3. EventTypes
    BY <2>1, <2>2 DEF EventTypes, SlotArrays
  <2>4. hist.done = <<>> /\ hist.ignored = 0 /\ hist.missed = 0
    BY <2>1
  <2>5. DoneNumbers
    BY <2>4 DEF DoneNumbers
  <2>6. Len(handled) = 0 /\ Len(out) = 0 /\ 0 + 0 + 0 + 0 + 0 = 0 /\ 0 + 1 = 1
    BY <2>1
  <2>7. ASSUME NEW i \in 1 .. 0 PROVE FALSE
    OBVIOUS
  <2>8. Ordered(handled, slots, 0, out, popped)
    BY <2>6, <2>7, Zenon DEF Ordered
  <2>9. Filling(slots, 0) /\ QuitLast(slots, 0, pc)
    BY <2>1, <2>6, <2>7, Zenon DEF Filling, QuitLast
  <2>10. Placed(0)
    BY <2>1, <2>4, <2>6, <2>8, <2>9, Zenon DEF Placed
  <2>11. 0 \in 0 .. InputQueueSize
    BY BoundAssumption
  <2>. QED BY <2>3, <2>5, <2>10, <2>11, Zenon DEF EventsInv
<1>2. EventsIInv /\ [Next]_vars => EventsIInv'
  <2>. SUFFICES ASSUME EventsIInv, [Next]_vars, driver' = "input", BeforeWrap' PROVE EventsInv'
    BY VirtioKept, Zenon
  <2>1. BeforeWrap /\ (InputState \/ GpuState)
    BY UsedGrows, Zenon DEF VirtioInv, InputState, GpuState
  <2>2. ~GpuState
    <3>. SUFFICES ASSUME GpuState PROVE FALSE
      OBVIOUS
    <3>1. GpuState'
      BY <2>1, GpuStep, Zenon
    <3>2. driver' = "gpu"
      BY <3>1, Zenon DEF GpuState, GpuInv
    <3>. QED BY <3>2
  <2>3. InputState /\ driver = "input"
    BY <2>1, <2>2, Zenon DEF InputState, InputInv
  <2>. QED BY <2>1, <2>3, EventsStep, Zenon
<1>3. EventsIInv => EventsInOrder
  <2>. SUFFICES ASSUME EventsIInv, driver = "input", BeforeWrap
                PROVE  /\ \A i, j \in DOMAIN Numbers : i < j => Numbers[i] < Numbers[j]
                       /\ Len(Numbers) + hist.ignored + hist.missed + Len(hist.done) = hist.used
    BY Zenon DEF EventsInOrder
  <2>1. InputState \/ GpuState
    BY Zenon DEF VirtioInv, InputState, GpuState
  <2>2. ~GpuState
    BY DEF GpuState, GpuInv
  <2>. QED BY <2>1, <2>2, NumbersInOrder, Zenon
<1>. HIDE DEF EventsIInv
<1>. QED BY <1>1, <1>2, <1>3, PTL DEF Spec
=============================================================================
