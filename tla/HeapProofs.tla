----------------------------- MODULE HeapProofs -----------------------------
(***************************************************************************)
(* The heap is right for every place, size and set of layouts: first the   *)
(* arithmetic, then its invariant and the iterations of `deallocate`,      *)
(* which keep its pieces apart and its holes in order, then the            *)
(* allocations and the theorems.                                           *)
(***************************************************************************)
EXTENDS Heap, FiniteSetTheorems, SequenceTheorems, TLAPS

-----------------------------------------------------------------------------
(* The arithmetic: split_hole is right for every hole, size and alignment.  *)

USE HoleAssumption

\* align_up returns the smallest multiple of the alignment that is not below the
\* address.
LEMMA AlignUpLeast ==
  ASSUME NEW x \in Nat, NEW al \in Nat \ {0}
  PROVE  /\ AlignUp(x, al) \in Nat /\ x <= AlignUp(x, al)
         /\ AlignUp(x, al) % al = 0
         /\ \A m \in Nat : m % al = 0 /\ x <= m => AlignUp(x, al) <= m
<1>. DEFINE q == (x + al - 1) \div al
<1>1. q \in Nat /\ q * al <= x + al - 1 /\ x + al - 1 < (q + 1) * al
  OBVIOUS
<1>. HIDE DEF q
<1>2. (q + 1) * al = q * al + al /\ q * al \in Nat
  BY <1>1
<1>3. x <= q * al
  BY <1>1, <1>2
<1>4. (q * al) % al = 0
  BY <1>1
<1>5. ASSUME NEW m \in Nat, m % al = 0, x <= m PROVE q * al <= m
  <2>1. PICK k \in Nat : m = k * al
    BY <1>5
  <2>2. CASE k < q
    <3>1. (k + 1) * al <= q * al
      BY <2>2, <1>1
    <3>2. (k + 1) * al = k * al + al
      OBVIOUS
    <3>. QED BY <3>1, <3>2, <2>1, <1>1, <1>2, <1>5
  <2>3. CASE q <= k
    BY <2>1, <2>3, <1>1
  <2>. QED BY <2>2, <2>3, <1>1
<1>. QED BY <1>2, <1>3, <1>4, <1>5 DEF AlignUp, q

\* Two multiples of an alignment are the same or at least the alignment apart.
LEMMA MultiplesApart ==
  ASSUME NEW a \in Nat, NEW b \in Nat, NEW al \in Nat \ {0},
         a % al = 0, b % al = 0, a <= b, a # b
  PROVE  a + al <= b
<1>1. PICK j \in Nat : a = j * al
  OBVIOUS
<1>2. PICK k \in Nat : b = k * al
  OBVIOUS
<1>3. k <= j => k * al <= j * al
  OBVIOUS
<1>4. j < k => (j + 1) * al <= k * al
  OBVIOUS
<1>5. (j + 1) * al = j * al + al
  OBVIOUS
<1>. QED BY <1>1, <1>2, <1>3, <1>4, <1>5

\* The address that split_hole chooses is in the hole or behind it, has the
\* alignment, and leaves nothing or a hole in front of it.
LEMMA ChosenAddress ==
  ASSUME NEW hole \in [addr : Nat, size : Nat], NEW align \in Nat \ {0}
  PROVE  LET a == AlignedAddr(hole, align)
         IN  /\ a \in Nat /\ a % align = 0
             /\ a = hole.addr \/ a >= hole.addr + MIN_ALLOC_SIZE
<1>. DEFINE x == hole.addr
<1>1. x \in Nat /\ x + MIN_ALLOC_SIZE \in Nat
  OBVIOUS
<1>2. AlignUp(x, align) % align = 0
  BY <1>1, AlignUpLeast
<1>3. LET a == AlignUp(x + MIN_ALLOC_SIZE, align)
      IN  a \in Nat /\ a >= x + MIN_ALLOC_SIZE /\ a % align = 0
  BY <1>1, AlignUpLeast, Zenon
<1>. QED BY <1>1, <1>2, <1>3 DEF AlignedAddr

\* What split_hole cuts out of a hole it accepts: front padding, allocation and
\* back padding follow each other without a gap and end where the hole ends, the
\* allocation is aligned, and neither padding is too small to hold a Hole.
THEOREM SplitTiles ==
  ASSUME NEW hole \in [addr : Nat, size : Nat], NEW size \in Nat, NEW align \in Nat \ {0},
         Fits(hole, size, align)
  PROVE  LET a     == AlignedAddr(hole, align)
             front == FrontPadding(hole, align)
             back  == BackPadding(hole, size, align)
         IN  /\ a % align = 0
             /\ IF a = hole.addr THEN front = None
                ELSE /\ front.addr = hole.addr /\ front.addr + front.size = a
                     /\ front.size >= MIN_ALLOC_SIZE
             /\ IF a + size = hole.addr + hole.size THEN back = None
                ELSE /\ back.addr = a + size
                     /\ back.addr + back.size = hole.addr + hole.size
                     /\ back.size >= MIN_ALLOC_SIZE
<1>1. PICK x \in Nat, n \in Nat : hole.addr = x /\ hole.size = n
  OBVIOUS
<1>2. PICK a \in Nat :
        /\ a = AlignedAddr(hole, align) /\ a % align = 0
        /\ a = x \/ a >= x + MIN_ALLOC_SIZE
  BY <1>1, ChosenAddress
<1>3. /\ a + size <= x + n
      /\ (x + n) - (a + size) = 0 \/ (x + n) - (a + size) >= MIN_ALLOC_SIZE
  BY <1>1, <1>2, Zenon DEF Fits
<1>4. FrontPadding(hole, align) = IF a = x THEN None ELSE [addr |-> x, size |-> a - x]
  BY <1>1, <1>2, Zenon DEF FrontPadding
<1>5. BackPadding(hole, size, align)
        = IF a + size = x + n THEN None ELSE [addr |-> a + size, size |-> (x + n) - (a + size)]
  BY <1>1, <1>2, Zenon DEF BackPadding
<1>6. a # x => x + (a - x) = a /\ a - x >= MIN_ALLOC_SIZE
  BY <1>2
<1>7. a + size # x + n => /\ (a + size) + ((x + n) - (a + size)) = x + n
                          /\ (x + n) - (a + size) >= MIN_ALLOC_SIZE
  BY <1>3
<1>. QED BY <1>1, <1>2, <1>4, <1>5, <1>6, <1>7

\* split_hole tries one address and misses no place: a hole that has any fitting
\* address is accepted.  Alignments are powers of two, so one either divides the
\* alignment of Hole or is at least its size.
THEOREM SplitMissesNoPlace ==
  ASSUME NEW hole \in [addr : Nat, size : Nat], NEW size \in Nat, NEW align \in Nat \ {0},
         hole.addr % align = 0 \/ align >= MIN_ALLOC_SIZE,
         Placeable(hole, size, align)
  PROVE  Fits(hole, size, align)
<1>1. PICK x \in Nat, n \in Nat : hole.addr = x /\ hole.size = n
  OBVIOUS
<1>2. PICK b \in Nat :
        /\ b % align = 0 /\ x <= b
        /\ b - x = 0 \/ b - x >= MIN_ALLOC_SIZE
        /\ (x + n) - (b + size) = 0 \/ (x + n) - (b + size) >= MIN_ALLOC_SIZE
  BY <1>1 DEF Placeable
<1>3. PICK a \in Nat : a = AlignedAddr(hole, align) /\ a % align = 0
  BY <1>1, ChosenAddress
<1>4. a = b \/ a + MIN_ALLOC_SIZE <= b
  <2>1. CASE x % align = 0
    <3>1. a = x
      BY <2>1, <1>1, <1>3, AlignUpLeast DEF AlignedAddr
    <3>. QED BY <3>1, <1>2
  <2>2. CASE x % align # 0
    <3>1. AlignUp(x, align) # x
      BY <2>2, AlignUpLeast
    <3>2. a = AlignUp(x + MIN_ALLOC_SIZE, align)
      BY <3>1, <1>1, <1>3 DEF AlignedAddr
    <3>3. x + MIN_ALLOC_SIZE \in Nat /\ x + MIN_ALLOC_SIZE <= b
      BY <2>2, <1>2
    <3>4. a <= b
      <4>1. \A m \in Nat : m % align = 0 /\ x + MIN_ALLOC_SIZE <= m
                            => AlignUp(x + MIN_ALLOC_SIZE, align) <= m
        BY <3>3, AlignUpLeast
      <4>. QED BY <4>1, <3>2, <3>3, <1>2
    <3>5. a # b => a + align <= b
      BY <3>4, <1>2, <1>3, MultiplesApart
    <3>. QED BY <3>4, <3>5, <2>2, <1>1
  <2>. QED BY <2>1, <2>2
<1>5. /\ a + size <= x + n
      /\ (x + n) - (a + size) = 0 \/ (x + n) - (a + size) >= MIN_ALLOC_SIZE
  BY <1>2, <1>4
<1>. QED BY <1>1, <1>3, <1>5, Zenon DEF Fits
-----------------------------------------------------------------------------
(* The invariant.                                                           *)

HIDE HoleAssumption


Pieces == [addr : Nat, size : Nat]
Has(h, x) == h.addr <= x /\ x < h.addr + h.size
Apart(h, g) == h.addr + h.size <= g.addr \/ g.addr + g.size <= h.addr
Span(b) == [addr |-> b.addr, size |-> AlignedSize(b.layout)]
Hand == [addr |-> freeing.addr, size |-> freeing.size]

\* A piece of the heap that can hold a link.
GoodPiece(h) ==
  /\ h \in Pieces /\ h.size >= MIN_ALLOC_SIZE /\ h.addr % ALIGN = 0
  /\ FirstByte <= h.addr /\ h.addr + h.size <= EndByte

\* Its holes are in the order of addresses, and there is memory between any two.
ListInv ==
  /\ holes \in Seq(Pieces)
  /\ \A i \in 1 .. Len(holes) : GoodPiece(holes[i])
  /\ \A i, j \in 1 .. Len(holes) : i < j => holes[i].addr + holes[i].size < holes[j].addr

BlocksInv ==
  /\ \A b \in blocks : b.layout \in Layouts /\ GoodPiece(Span(b)) /\ b.addr % b.layout.align = 0
  /\ \A b, c \in blocks : b # c => Apart(Span(b), Span(c))
  /\ \A b \in blocks : \A i \in 1 .. Len(holes) : Apart(holes[i], Span(b))

\* What `deallocate` has in hand is behind the hole it is at.
HandInv ==
  freeing # None =>
    /\ freeing \in [at : Nat, addr : Nat, size : Nat, freed : Nat]
    /\ GoodPiece(Hand) /\ freeing.at <= Len(holes) /\ EndOf(freeing.at) <= freeing.addr
    /\ \A i \in 1 .. Len(holes) : Apart(holes[i], Hand)
    /\ \A b \in blocks : Apart(Hand, Span(b))

Covered ==
  \A x \in FirstByte .. EndByte - 1 :
    \/ \E i \in 1 .. Len(holes) : Has(holes[i], x)
    \/ \E b \in blocks : Has(Span(b), x)
    \/ freeing # None /\ Has(Hand, x)

Account == used = Cardinality(Occupied) + (IF freeing = None THEN 0 ELSE freeing.freed)

Cut == ListInv /\ BlocksInv /\ HandInv /\ Covered

\* The inductive invariant: the bytes as intervals, any two holes compared.
HeapIInv == Cut /\ Account /\ outcome # "panic"
-----------------------------------------------------------------------------
\* new is old with the holes lo to hi replaced by mid.
Spliced(old, new, lo, hi, mid) ==
  /\ new \in Seq(Pieces) /\ Len(new) = (Len(old) - hi) + (lo - 1) + Len(mid)
  /\ \A j \in 1 .. lo - 1 : new[j] = old[j]
  /\ \A j \in 1 .. Len(mid) : new[(lo - 1) + j] = mid[j]
  /\ \A j \in hi + 1 .. Len(old) : new[((j - hi) + (lo - 1)) + Len(mid)] = old[j]

\* What is in front of lo, mid, and what is behind hi, one after the other.
LEMMA ThreeParts ==
  ASSUME NEW s \in Seq(Pieces), NEW lo \in Nat \ {0}, NEW hi \in Nat, lo <= hi + 1, hi <= Len(s),
         NEW mid \in Seq(Pieces)
  PROVE  Spliced(s, SubSeq(s, 1, lo - 1) \o mid \o SubSeq(s, hi + 1, Len(s)), lo, hi, mid)
<1>1. PICK a, c, t, n : /\ a = SubSeq(s, 1, lo - 1) /\ c = SubSeq(s, hi + 1, Len(s))
                        /\ t = (a \o mid) \o c /\ n = Len(s)
  BY Zenon
<1>2. n \in Nat /\ Len(mid) \in Nat /\ \A k \in 1 .. n : s[k] \in Pieces
  BY <1>1
<1>3. /\ a \in Seq(Pieces) /\ Len(a) = lo - 1
      /\ \A k \in 1 .. lo - 1 : a[k] = s[k]
  <2>1. 1 \in Int /\ lo - 1 \in Int /\ \A k \in 1 .. lo - 1 : s[k] \in Pieces
    BY <1>1, <1>2
  <2>. QED BY <2>1, <1>1, SubSeqProperties
<1>4. /\ c \in Seq(Pieces) /\ Len(c) = n - hi
      /\ \A k \in 1 .. n - hi : c[k] = s[hi + k]
  <2>1. hi + 1 \in Int /\ n \in Int /\ \A k \in hi + 1 .. n : s[k] \in Pieces
    BY <1>1, <1>2
  <2>2. /\ c \in Seq(Pieces) /\ Len(c) = IF hi + 1 <= n THEN (n - (hi + 1)) + 1 ELSE 0
        /\ \A k \in 1 .. (n - (hi + 1)) + 1 : c[k] = s[((hi + 1) + k) - 1]
    BY <2>1, <1>1, SubSeqProperties
  <2>3. (IF hi + 1 <= n THEN (n - (hi + 1)) + 1 ELSE 0) = n - hi
    BY <1>1, <1>2
  <2>4. ASSUME NEW k \in 1 .. n - hi
        PROVE  k \in 1 .. (n - (hi + 1)) + 1 /\ ((hi + 1) + k) - 1 = hi + k
    BY <1>2
  <2>. QED BY <2>2, <2>3, <2>4, Zenon
<1>5. /\ a \o mid \in Seq(Pieces) /\ Len(a \o mid) = (lo - 1) + Len(mid)
      /\ \A k \in 1 .. (lo - 1) + Len(mid) :
           (a \o mid)[k] = IF k <= lo - 1 THEN a[k] ELSE mid[k - (lo - 1)]
  <2>1. a \in Seq(Pieces) /\ mid \in Seq(Pieces)
    BY <1>3, Zenon
  <2>2. /\ a \o mid \in Seq(Pieces) /\ Len(a \o mid) = Len(a) + Len(mid)
        /\ \A k \in 1 .. Len(a) + Len(mid) :
             (a \o mid)[k] = IF k <= Len(a) THEN a[k] ELSE mid[k - Len(a)]
    BY <2>1, ConcatProperties
  <2>. QED BY <2>2, <1>3, Zenon
<1>6. /\ t \in Seq(Pieces) /\ Len(t) = ((lo - 1) + Len(mid)) + (n - hi)
      /\ \A k \in 1 .. ((lo - 1) + Len(mid)) + (n - hi) :
           t[k] = IF k <= (lo - 1) + Len(mid) THEN (a \o mid)[k]
                  ELSE c[k - ((lo - 1) + Len(mid))]
  <2>1. PICK d : d = a \o mid
    BY Zenon
  <2>2. d \in Seq(Pieces) /\ Len(d) = (lo - 1) + Len(mid) /\ t = d \o c
    BY <2>1, <1>1, <1>5
  <2>3. /\ t \in Seq(Pieces) /\ Len(t) = Len(d) + Len(c)
        /\ \A k \in 1 .. Len(d) + Len(c) : t[k] = IF k <= Len(d) THEN d[k] ELSE c[k - Len(d)]
    <3>1. d \in Seq(Pieces) /\ c \in Seq(Pieces)
      BY <2>2, <1>4, Zenon
    <3>2. /\ d \o c \in Seq(Pieces) /\ Len(d \o c) = Len(d) + Len(c)
          /\ \A k \in 1 .. Len(d) + Len(c) :
               (d \o c)[k] = IF k <= Len(d) THEN d[k] ELSE c[k - Len(d)]
      BY <3>1, ConcatProperties
    <3>. QED BY <3>2, <2>2, Zenon
  <2>. QED BY <2>1, <2>2, <2>3, <1>4, Zenon
<1>7. ASSUME NEW j \in 1 .. lo - 1 PROVE t[j] = s[j]
  <2>1. /\ j \in 1 .. (lo - 1) + Len(mid) /\ j \in 1 .. ((lo - 1) + Len(mid)) + (n - hi)
        /\ j <= lo - 1 /\ j <= (lo - 1) + Len(mid)
    BY <1>1, <1>2
  <2>2. t[j] = (a \o mid)[j]
    BY <2>1, <1>6, Zenon
  <2>3. (a \o mid)[j] = a[j]
    BY <2>1, <1>5, Zenon
  <2>4. a[j] = s[j]
    BY <1>3, Zenon
  <2>. QED BY <2>2, <2>3, <2>4
<1>8. ASSUME NEW j \in 1 .. Len(mid) PROVE t[(lo - 1) + j] = mid[j]
  <2>1. PICK k : k = (lo - 1) + j
    OBVIOUS
  <2>2. /\ k \in 1 .. (lo - 1) + Len(mid) /\ k \in 1 .. ((lo - 1) + Len(mid)) + (n - hi)
        /\ ~(k <= lo - 1) /\ k <= (lo - 1) + Len(mid) /\ k - (lo - 1) = j
    BY <2>1, <1>1, <1>2
  <2>3. t[k] = (a \o mid)[k]
    BY <2>2, <1>6, Zenon
  <2>4. (a \o mid)[k] = mid[j]
    BY <2>2, <1>5, Zenon
  <2>. QED BY <2>1, <2>3, <2>4
<1>9. ASSUME NEW j \in hi + 1 .. n PROVE t[((j - hi) + (lo - 1)) + Len(mid)] = s[j]
  <2>1. PICK k, i : k = ((j - hi) + (lo - 1)) + Len(mid) /\ i = j - hi
    OBVIOUS
  <2>2. /\ k \in 1 .. ((lo - 1) + Len(mid)) + (n - hi) /\ ~(k <= (lo - 1) + Len(mid))
        /\ k - ((lo - 1) + Len(mid)) = i /\ i \in 1 .. n - hi /\ hi + i = j
    BY <2>1, <1>1, <1>2
  <2>3. t[k] = c[i]
    BY <2>2, <1>6, Zenon
  <2>4. c[i] = s[j]
    BY <2>2, <1>4, Zenon
  <2>. QED BY <2>1, <2>3, <2>4
<1>10. Len(t) = (n - hi) + (lo - 1) + Len(mid)
  BY <1>2, <1>6
<1>. QED BY <1>1, <1>6, <1>7, <1>8, <1>9, <1>10, Zenon DEF Spliced

\* RemoveAt, as TakesNext uses it, replaces a hole by nothing.
LEMMA RemoveSplices ==
  ASSUME NEW s \in Seq(Pieces), NEW k \in 1 .. Len(s)
  PROVE  Spliced(s, RemoveAt(s, k), k, k, <<>>)
<1>1. SubSeq(s, 1, k - 1) \in Seq(Pieces)
  OBVIOUS
<1>2. SubSeq(s, 1, k - 1) \o <<>> = SubSeq(s, 1, k - 1)
  BY <1>1, ConcatEmptySeq
<1>3. /\ k \in Nat \ {0} /\ k \in Nat /\ k <= k + 1 /\ k <= Len(s) /\ <<>> \in Seq(Pieces)
  OBVIOUS
<1>4. Spliced(s, SubSeq(s, 1, k - 1) \o <<>> \o SubSeq(s, k + 1, Len(s)), k, k, <<>>)
  BY <1>3, ThreeParts, Zenon
<1>. QED BY <1>2, <1>4, Zenon DEF RemoveAt

\* InsertAt, as BecomesHole uses it, replaces nothing by a hole.
LEMMA InsertSplices ==
  ASSUME NEW s \in Seq(Pieces), NEW k \in Nat, k <= Len(s), NEW e \in Pieces
  PROVE  Spliced(s, InsertAt(s, k + 1, e), k + 1, k, <<e>>)
<1>1. /\ k + 1 \in Nat \ {0} /\ k + 1 <= k + 1 /\ <<e>> \in Seq(Pieces)
  OBVIOUS
<1>. QED BY <1>1, ThreeParts, Zenon DEF InsertAt

\* GrowsHole replaces a hole by a larger one.
LEMMA ChangeSplices ==
  ASSUME NEW s \in Seq(Pieces), NEW k \in 1 .. Len(s), NEW e \in Pieces
  PROVE  Spliced(s, [s EXCEPT ![k] = e], k, k, <<e>>)
BY DEF Spliced

\* FillsGap replaces two holes by one.
LEMMA MergeSplices ==
  ASSUME NEW s \in Seq(Pieces), NEW k \in 1 .. Len(s), k < Len(s), NEW e \in Pieces
  PROVE  Spliced(s, RemoveAt([s EXCEPT ![k] = e], k + 1), k, k + 1, <<e>>)
<1>1. PICK t, r, n : t = [s EXCEPT ![k] = e] /\ r = RemoveAt(t, k + 1) /\ n = Len(s)
  BY Zenon
<1>2. /\ n \in Nat /\ t \in Seq(Pieces) /\ Len(t) = n
      /\ \A j \in 1 .. n : t[j] = IF j = k THEN e ELSE s[j]
  BY <1>1
<1>3. k + 1 \in 1 .. Len(t)
  BY <1>1, <1>2
<1>4. Spliced(t, r, k + 1, k + 1, <<>>)
  BY <1>1, <1>2, <1>3, RemoveSplices, Zenon
<1>5. /\ r \in Seq(Pieces) /\ Len(r) = n - 1
      /\ \A j \in 1 .. k : r[j] = t[j]
      /\ \A j \in k + 2 .. n : r[j - 1] = t[j]
  <2>1. /\ r \in Seq(Pieces) /\ Len(r) = (n - (k + 1)) + ((k + 1) - 1) + 0
        /\ \A j \in 1 .. (k + 1) - 1 : r[j] = t[j]
        /\ \A j \in (k + 1) + 1 .. n : r[((j - (k + 1)) + ((k + 1) - 1)) + 0] = t[j]
    BY <1>2, <1>4 DEF Spliced
  <2>2. \A j \in k + 2 .. n : ((j - (k + 1)) + ((k + 1) - 1)) + 0 = j - 1
    BY <1>2
  <2>. QED BY <2>1, <2>2, <1>2
<1>6. r[k] = e /\ \A j \in 1 .. k - 1 : r[j] = s[j]
  <2>1. k \in 1 .. k /\ k \in 1 .. n
    BY <1>1, <1>2
  <2>2. ASSUME NEW j \in 1 .. k - 1 PROVE r[j] = s[j]
    <3>1. j \in 1 .. k /\ j \in 1 .. n /\ j # k
      BY <2>1, <1>1, <1>2
    <3>. QED BY <3>1, <1>2, <1>5, Zenon
  <2>. QED BY <2>1, <2>2, <1>2, <1>5, Zenon
<1>7. ASSUME NEW j \in k + 2 .. n PROVE r[j - 1] = s[j]
  <2>1. j \in 1 .. n /\ j # k
    BY <1>2
  <2>. QED BY <2>1, <1>2, <1>5, Zenon
<1>8. ASSUME NEW j \in (k + 1) + 1 .. n PROVE r[((j - (k + 1)) + (k - 1)) + 1] = s[j]
  <2>1. j \in k + 2 .. n /\ ((j - (k + 1)) + (k - 1)) + 1 = j - 1
    BY <1>2
  <2>2. r[j - 1] = s[j]
    BY <2>1, <1>7, Zenon
  <2>. QED BY <2>1, <2>2, Zenon
<1>9. \A j \in 1 .. Len(<<e>>) : r[(k - 1) + j] = <<e>>[j]
  BY <1>6
<1>10. Len(r) = (n - (k + 1)) + (k - 1) + Len(<<e>>)
  BY <1>2, <1>5
<1>. QED BY <1>1, <1>5, <1>6, <1>8, <1>9, <1>10, Zenon DEF Spliced

\* Where a hole of the new list comes from, and where one of the old list went.
Origins(s, t, lo, hi, mid) ==
  \A j \in 1 .. Len(t) :
    \/ j < lo /\ t[j] = s[j]
    \/ \E k \in 1 .. Len(mid) : j = (lo - 1) + k /\ t[j] = mid[k]
    \/ \E k \in hi + 1 .. Len(s) : j = ((k - hi) + (lo - 1)) + Len(mid) /\ t[j] = s[k]

Places(s, t, lo, hi, mid) ==
  /\ \A k \in 1 .. Len(s) : k < lo \/ k > hi => \E j \in 1 .. Len(t) : t[j] = s[k]
  /\ \A k \in 1 .. Len(mid) : \E j \in 1 .. Len(t) : t[j] = mid[k]

\* Every hole of a list after a splice, and every one of the list before it, has its place.
LEMMA SplicedParts ==
  ASSUME NEW s \in Seq(Pieces), NEW t, NEW lo \in Nat \ {0}, NEW hi \in Nat, lo <= hi + 1, hi <= Len(s),
         NEW mid \in Seq(Pieces), Spliced(s, t, lo, hi, mid)
  PROVE  Origins(s, t, lo, hi, mid) /\ Places(s, t, lo, hi, mid)
<1>1. PICK n \in Nat, m \in Nat : n = Len(s) /\ m = Len(mid)
  OBVIOUS
<1>2. Len(t) = (n - hi) + (lo - 1) + m
  BY <1>1 DEF Spliced
<1>3. ASSUME NEW j \in 1 .. Len(t)
      PROVE \/ j < lo /\ t[j] = s[j]
            \/ \E k \in 1 .. Len(mid) : j = (lo - 1) + k /\ t[j] = mid[k]
            \/ \E k \in hi + 1 .. Len(s) : j = ((k - hi) + (lo - 1)) + Len(mid) /\ t[j] = s[k]
  <2>1. CASE j < lo
    <3>1. j \in 1 .. lo - 1
      BY <2>1
    <3>. QED BY <3>1, <2>1, Zenon DEF Spliced
  <2>2. CASE j >= lo /\ j < lo + m
    <3>1. PICK k \in 1 .. m : j = (lo - 1) + k
      BY <2>2, <1>1
    <3>. QED BY <3>1, <1>1 DEF Spliced
  <2>3. CASE j >= lo + m
    <3>1. PICK k \in hi + 1 .. n : j = ((k - hi) + (lo - 1)) + m
      <4>1. PICK k : k = ((j - m) - (lo - 1)) + hi
        OBVIOUS
      <4>2. k \in hi + 1 .. n /\ j = ((k - hi) + (lo - 1)) + m
        BY <4>1, <2>3, <1>1, <1>2
      <4>. QED BY <4>2
    <3>. QED BY <3>1, <1>1 DEF Spliced
  <2>. QED BY <2>1, <2>2, <2>3, <1>1
<1>4. ASSUME NEW k \in 1 .. Len(s), k < lo \/ k > hi PROVE \E j \in 1 .. Len(t) : t[j] = s[k]
  <2>1. CASE k < lo
    <3>1. k \in 1 .. Len(t) /\ t[k] = s[k]
      BY <2>1, <1>1, <1>2 DEF Spliced
    <3>. QED BY <3>1
  <2>2. CASE k > hi
    <3>1. PICK j \in 1 .. Len(t) : j = ((k - hi) + (lo - 1)) + m
      <4>1. PICK j : j = ((k - hi) + (lo - 1)) + m
        OBVIOUS
      <4>2. j \in 1 .. Len(t)
        BY <4>1, <2>2, <1>1, <1>2
      <4>. QED BY <4>1, <4>2
    <3>2. t[j] = s[k]
      BY <3>1, <2>2, <1>1 DEF Spliced
    <3>. QED BY <3>2
  <2>. QED BY <2>1, <2>2, <1>4
<1>5. ASSUME NEW k \in 1 .. Len(mid) PROVE \E j \in 1 .. Len(t) : t[j] = mid[k]
  <2>1. PICK j \in 1 .. Len(t) : j = (lo - 1) + k
    BY <1>1, <1>2
  <2>. QED BY <2>1, <1>1 DEF Spliced
<1>. QED BY <1>3, <1>4, <1>5, Zenon DEF Origins, Places
-----------------------------------------------------------------------------
\* align_layout_for_hole gives sizes that a hole can have.
LEMMA SizesGood ==
  ASSUME NEW l \in Layouts
  PROVE  AlignedSize(l) \in Nat /\ AlignedSize(l) >= MIN_ALLOC_SIZE /\ AlignedSize(l) % ALIGN = 0
<1>1. PICK n : n = IF l.size < MIN_ALLOC_SIZE THEN MIN_ALLOC_SIZE ELSE l.size
  OBVIOUS
<1>2. n \in Nat /\ n >= MIN_ALLOC_SIZE
  BY <1>1, HeapAssumption, HoleAssumption
<1>3. AlignUp(n, ALIGN) \in Nat /\ n <= AlignUp(n, ALIGN) /\ AlignUp(n, ALIGN) % ALIGN = 0
  BY <1>2, AlignUpLeast, HoleAssumption
<1>4. AlignedSize(l) = AlignUp(n, ALIGN)
  BY <1>1, Zenon DEF AlignedSize
<1>. QED BY <1>2, <1>3, <1>4, HoleAssumption

\* HoleList::init aligns the start of the heap, and leaves room for a hole.
LEMMA HeapEnds ==
  /\ FirstByte \in Nat /\ FirstByte > 0 /\ EndByte \in Nat /\ FirstByte % ALIGN = 0
  /\ FirstByte + MIN_ALLOC_SIZE <= EndByte /\ MIN_ALLOC_SIZE \in Nat \ {0} /\ ALIGN \in Nat \ {0}
<1>1. /\ Bottom \in Nat \ {0} /\ Size \in Nat /\ FirstByte + MIN_ALLOC_SIZE <= EndByte
      /\ MIN_ALLOC_SIZE \in Nat \ {0} /\ ALIGN \in Nat \ {0}
  BY HeapAssumption, HoleAssumption, Zenon
<1>2. FirstByte \in Nat /\ Bottom <= FirstByte /\ FirstByte % ALIGN = 0
  BY <1>1, AlignUpLeast DEF FirstByte
<1>. QED BY <1>1, <1>2 DEF EndByte

\* A multiple of a multiple, and the sum of two multiples.
LEMMA Multiples ==
  ASSUME NEW x \in Nat, NEW m \in Nat \ {0}, NEW k \in Nat \ {0}, x % m = 0
  PROVE  /\ m % k = 0 => x % k = 0
         /\ \A y \in Nat : y % m = 0 => (x + y) % m = 0
<1>1. PICK p \in Nat : x = p * m
  OBVIOUS
<1>2. ASSUME m % k = 0 PROVE x % k = 0
  <2>1. PICK q \in Nat : m = q * k
    BY <1>2
  <2>2. PICK r \in Nat : r = p * q
    OBVIOUS
  <2>3. x = r * k
    BY <1>1, <2>1, <2>2
  <2>. QED BY <2>3
<1>3. ASSUME NEW y \in Nat, y % m = 0 PROVE (x + y) % m = 0
  <2>1. PICK q \in Nat : y = q * m
    BY <1>3
  <2>2. PICK r \in Nat : r = p + q
    OBVIOUS
  <2>3. x + y = r * m
    BY <1>1, <2>1, <2>2
  <2>4. (r * m) % m = 0
    BY <2>2
  <2>. QED BY <2>3, <2>4, Zenon
<1>. QED BY <1>2, <1>3

\* Two pieces side by side make one.
Join(h, g, j) ==
  /\ GoodPiece(j) /\ j.addr = h.addr /\ j.addr + j.size = g.addr + g.size
  /\ \A x \in Int : Has(j, x) <=> Has(h, x) \/ Has(g, x)
  /\ \A b : GoodPiece(b) /\ Apart(h, b) /\ Apart(g, b) => Apart(j, b)
  /\ \A b : GoodPiece(b) /\ Apart(b, h) /\ Apart(b, g) => Apart(b, j)

\* ... as a block and the hole behind it do, in FillsGap and in TakesNext.
LEMMA JoinedPieces ==
  ASSUME NEW h, NEW g, NEW j, GoodPiece(h), GoodPiece(g), h.addr + h.size = g.addr,
         j = [addr |-> h.addr, size |-> h.size + g.size]
  PROVE  Join(h, g, j)
<1>1. PICK a \in Nat, n \in Nat, c \in Nat, m \in Nat :
        h.addr = a /\ h.size = n /\ g.addr = c /\ g.size = m
  BY DEF GoodPiece, Pieces
<1>2. j.addr = a /\ j.size = n + m /\ c = a + n /\ j \in Pieces
  BY <1>1 DEF Pieces
<1>3. /\ n >= MIN_ALLOC_SIZE /\ m >= MIN_ALLOC_SIZE /\ a % ALIGN = 0
      /\ FirstByte <= a /\ c + m <= EndByte
  BY <1>1, Zenon DEF GoodPiece
<1>4. GoodPiece(j)
  BY <1>2, <1>3, HeapEnds DEF GoodPiece
<1>5. \A x \in Int : Has(j, x) <=> Has(h, x) \/ Has(g, x)
  BY <1>1, <1>2, <1>3, HeapEnds DEF Has
<1>6. ASSUME NEW b, GoodPiece(b)
      PROVE  /\ Apart(h, b) /\ Apart(g, b) => Apart(j, b)
             /\ Apart(b, h) /\ Apart(b, g) => Apart(b, j)
  <2>1. PICK d \in Nat, k \in Nat : b.addr = d /\ b.size = k
    BY <1>6 DEF GoodPiece, Pieces
  <2>2. k >= MIN_ALLOC_SIZE
    BY <2>1, <1>6, Zenon DEF GoodPiece
  <2>. QED BY <1>1, <1>2, <1>3, <2>1, <2>2, HeapEnds DEF Apart
<1>7. j.addr + j.size = g.addr + g.size
  BY <1>1, <1>2
<1>. QED BY <1>1, <1>2, <1>4, <1>5, <1>6, <1>7, Zenon DEF Join
-----------------------------------------------------------------------------
\* A new list is in order if what it has new fits between the holes around it.
LEMMA ListKept ==
  ASSUME ListInv, NEW lo \in Nat \ {0}, NEW hi \in Nat, lo <= hi + 1, hi <= Len(holes),
         NEW mid \in Seq(Pieces), Spliced(holes, holes', lo, hi, mid),
         \A k \in 1 .. Len(mid) : GoodPiece(mid[k]),
         \A k, m \in 1 .. Len(mid) : k < m => mid[k].addr + mid[k].size < mid[m].addr,
         \A i \in 1 .. Len(holes) : \A k \in 1 .. Len(mid) :
           /\ i < lo => holes[i].addr + holes[i].size < mid[k].addr
           /\ hi < i => mid[k].addr + mid[k].size < holes[i].addr
  PROVE  ListInv'
<1>1. /\ holes \in Seq(Pieces) /\ \A i \in 1 .. Len(holes) : GoodPiece(holes[i])
      /\ \A i, j \in 1 .. Len(holes) : i < j => holes[i].addr + holes[i].size < holes[j].addr
  BY Zenon DEF ListInv
<1>2. PICK n \in Nat, m \in Nat : n = Len(holes) /\ m = Len(mid)
  BY <1>1
<1>3. \A j \in 1 .. Len(holes') :
        \/ j < lo /\ holes'[j] = holes[j]
        \/ \E k \in 1 .. m : j = (lo - 1) + k /\ holes'[j] = mid[k]
        \/ \E k \in hi + 1 .. n : j = ((k - hi) + (lo - 1)) + m /\ holes'[j] = holes[k]
  <2>1. \A j \in 1 .. Len(holes') :
          \/ j < lo /\ holes'[j] = holes[j]
          \/ \E k \in 1 .. Len(mid) : j = (lo - 1) + k /\ holes'[j] = mid[k]
          \/ \E k \in hi + 1 .. Len(holes) :
               j = ((k - hi) + (lo - 1)) + Len(mid) /\ holes'[j] = holes[k]
    <3>1. Origins(holes, holes', lo, hi, mid)
      BY <1>1, SplicedParts, Zenon
    <3>. QED BY <3>1, Zenon DEF Origins
  <2>. QED BY <2>1, <1>2, Zenon
<1>4. holes' \in Seq(Pieces) /\ Len(holes') \in Nat
  BY <1>1 DEF Spliced
<1>5. \A j \in hi + 1 .. n : j \in 1 .. n /\ hi < j
  BY <1>2
<1>6. \A j \in 1 .. lo - 1 : j \in 1 .. n
  BY <1>2
<1>7. ASSUME NEW j \in 1 .. Len(holes') PROVE GoodPiece(holes'[j])
  <2>1. CASE j < lo /\ holes'[j] = holes[j]
    <3>1. j \in 1 .. lo - 1
      BY <2>1, <1>4
    <3>. QED BY <3>1, <2>1, <1>1, <1>2, <1>6, Zenon
  <2>2. ASSUME NEW k \in 1 .. m, holes'[j] = mid[k] PROVE GoodPiece(holes'[j])
    BY <2>2, <1>2, Zenon
  <2>3. ASSUME NEW k \in hi + 1 .. n, holes'[j] = holes[k] PROVE GoodPiece(holes'[j])
    BY <2>3, <1>1, <1>2, <1>5, Zenon
  <2>. QED BY <2>1, <2>2, <2>3, <1>3, Zenon
<1>8. ASSUME NEW i \in 1 .. Len(holes'), NEW j \in 1 .. Len(holes'), i < j
      PROVE  holes'[i].addr + holes'[i].size < holes'[j].addr
  <2>1. CASE j < lo /\ holes'[j] = holes[j]
    <3>1. i < lo /\ i \in 1 .. lo - 1 /\ j \in 1 .. lo - 1 /\ i \in Nat
      BY <2>1, <1>4, <1>8
    <3>2. holes'[i] = holes[i]
      BY <3>1 DEF Spliced
    <3>. QED BY <3>1, <3>2, <2>1, <1>1, <1>2, <1>6, <1>8, Zenon
  <2>2. ASSUME NEW k \in 1 .. m, j = (lo - 1) + k, holes'[j] = mid[k]
        PROVE  holes'[i].addr + holes'[i].size < holes'[j].addr
    <3>1. CASE i < lo /\ holes'[i] = holes[i]
      <4>1. i \in 1 .. lo - 1
        BY <3>1, <1>4
      <4>. QED BY <4>1, <3>1, <2>2, <1>2, <1>6, Zenon
    <3>2. ASSUME NEW h \in 1 .. m, i = (lo - 1) + h, holes'[i] = mid[h]
          PROVE  holes'[i].addr + holes'[i].size < holes'[j].addr
      <4>1. h < k
        BY <3>2, <2>2, <1>2, <1>8
      <4>. QED BY <4>1, <3>2, <2>2, <1>2, Zenon
    <3>3. ASSUME NEW h \in hi + 1 .. n, i = ((h - hi) + (lo - 1)) + m PROVE FALSE
      BY <3>3, <2>2, <1>2, <1>8
    <3>. QED BY <3>1, <3>2, <3>3, <1>3, Zenon
  <2>3. ASSUME NEW k \in hi + 1 .. n, j = ((k - hi) + (lo - 1)) + m, holes'[j] = holes[k]
        PROVE  holes'[i].addr + holes'[i].size < holes'[j].addr
    <3>1. CASE i < lo /\ holes'[i] = holes[i]
      <4>1. i \in 1 .. lo - 1 /\ i < k
        BY <3>1, <1>2, <1>4
      <4>. QED BY <4>1, <3>1, <2>3, <1>1, <1>2, <1>5, <1>6, Zenon
    <3>2. ASSUME NEW h \in 1 .. m, i = (lo - 1) + h, holes'[i] = mid[h]
          PROVE  holes'[i].addr + holes'[i].size < holes'[j].addr
      BY <3>2, <2>3, <1>2, <1>5, Zenon
    <3>3. ASSUME NEW h \in hi + 1 .. n, i = ((h - hi) + (lo - 1)) + m, holes'[i] = holes[h]
          PROVE  holes'[i].addr + holes'[i].size < holes'[j].addr
      <4>1. h < k
        BY <3>3, <2>3, <1>2, <1>8
      <4>. QED BY <4>1, <3>3, <2>3, <1>1, <1>2, <1>5, Zenon
    <3>. QED BY <3>1, <3>2, <3>3, <1>3, Zenon
  <2>. QED BY <2>1, <2>2, <2>3, <1>3, Zenon
<1>. QED BY <1>4, <1>7, <1>8, Zenon DEF ListInv

\* The blocks stay apart from a new list if they are apart from what it has new.
LEMMA ListApart ==
  ASSUME ListInv, NEW lo \in Nat \ {0}, NEW hi \in Nat, lo <= hi + 1, hi <= Len(holes),
         NEW mid \in Seq(Pieces), Spliced(holes, holes', lo, hi, mid), NEW b,
         \A k \in 1 .. Len(mid) : Apart(mid[k], b),
         \A i \in 1 .. Len(holes) : i < lo \/ hi < i => Apart(holes[i], b)
  PROVE  \A j \in 1 .. Len(holes') : Apart(holes'[j], b)
<1>1. holes \in Seq(Pieces) /\ Len(holes) \in Nat
  BY DEF ListInv
<1>2. Origins(holes, holes', lo, hi, mid)
  BY <1>1, SplicedParts, Zenon
<1>3. holes' \in Seq(Pieces) /\ Len(holes') \in Nat
  BY DEF Spliced
<1>. SUFFICES ASSUME NEW j \in 1 .. Len(holes') PROVE Apart(holes'[j], b)
  OBVIOUS
<1>4. CASE j < lo /\ holes'[j] = holes[j]
  <2>1. j \in 1 .. Len(holes)
    BY <1>1, <1>3, <1>4
  <2>. QED BY <2>1, <1>4, Zenon
<1>5. ASSUME NEW k \in 1 .. Len(mid), holes'[j] = mid[k] PROVE Apart(holes'[j], b)
  BY <1>5, Zenon
<1>6. ASSUME NEW k \in hi + 1 .. Len(holes), holes'[j] = holes[k] PROVE Apart(holes'[j], b)
  <2>1. k \in 1 .. Len(holes) /\ hi < k
    BY <1>1
  <2>. QED BY <2>1, <1>6, Zenon
<1>. QED BY <1>2, <1>4, <1>5, <1>6, Zenon DEF Origins

\* No byte is lost if those of the holes that go, of the blocks and of the piece in
\* hand are somewhere afterwards.
LEMMA StillCovered ==
  ASSUME Cut, NEW lo \in Nat \ {0}, NEW hi \in Nat, lo <= hi + 1, hi <= Len(holes),
         NEW mid \in Seq(Pieces), Spliced(holes, holes', lo, hi, mid),
         \A x \in Int :
           \/ \E k \in 1 .. Len(holes) : lo <= k /\ k <= hi /\ Has(holes[k], x)
           \/ \E b \in blocks : Has(Span(b), x)
           \/ freeing # None /\ Has(Hand, x)
           => \/ \E k \in 1 .. Len(mid) : Has(mid[k], x)
              \/ \E b \in blocks' : Has(Span(b), x)
              \/ freeing' # None /\ Has(Hand, x)'
  PROVE  Covered'
<1>1. holes \in Seq(Pieces) /\ Len(holes) \in Nat
  BY DEF Cut, ListInv
<1>2. Places(holes, holes', lo, hi, mid)
  BY <1>1, SplicedParts, Zenon
<1>. SUFFICES ASSUME NEW x \in FirstByte .. EndByte - 1
              PROVE  \/ \E i \in 1 .. Len(holes') : Has(holes'[i], x)
                     \/ \E b \in blocks' : Has(Span(b), x)
                     \/ freeing' # None /\ Has(Hand, x)'
  BY Zenon DEF Covered, Has
<1>3. x \in Int
  BY HeapEnds
<1>4. \/ \E i \in 1 .. Len(holes) : Has(holes[i], x)
      \/ \E b \in blocks : Has(Span(b), x)
      \/ freeing # None /\ Has(Hand, x)
  BY Zenon DEF Cut, Covered
<1>5. ASSUME NEW i \in 1 .. Len(holes), Has(holes[i], x), i < lo \/ hi < i
      PROVE  \E j \in 1 .. Len(holes') : Has(holes'[j], x)
  <2>1. i < lo \/ i > hi
    BY <1>5, <1>1
  <2>2. PICK j \in 1 .. Len(holes') : holes'[j] = holes[i]
    BY <2>1, <1>2, Zenon DEF Places
  <2>. QED BY <2>2, <1>5, Zenon
<1>6. \A i \in 1 .. Len(holes) : (lo <= i /\ i <= hi) \/ i < lo \/ hi < i
  BY <1>1
<1>7. ASSUME NEW k \in 1 .. Len(mid), Has(mid[k], x)
      PROVE  \E j \in 1 .. Len(holes') : Has(holes'[j], x)
  <2>1. PICK j \in 1 .. Len(holes') : holes'[j] = mid[k]
    BY <1>2, Zenon DEF Places
  <2>. QED BY <2>1, <1>7, Zenon
<1>8. CASE \E i \in 1 .. Len(holes) : Has(holes[i], x) /\ (i < lo \/ hi < i)
  BY <1>8, <1>5, Zenon
<1>9. CASE ~\E i \in 1 .. Len(holes) : Has(holes[i], x) /\ (i < lo \/ hi < i)
  <2>1. \/ \E k \in 1 .. Len(holes) : lo <= k /\ k <= hi /\ Has(holes[k], x)
        \/ \E b \in blocks : Has(Span(b), x)
        \/ freeing # None /\ Has(Hand, x)
    BY <1>4, <1>6, <1>9, Zenon
  <2>2. \/ \E k \in 1 .. Len(mid) : Has(mid[k], x)
        \/ \E b \in blocks' : Has(Span(b), x)
        \/ freeing' # None /\ Has(Hand, x)'
    BY <2>1, <1>3, Zenon
  <2>. QED BY <2>2, <1>7, Zenon
<1>. QED BY <1>8, <1>9, Zenon

\* Where the piece in hand is among the holes.
LEMMA HandPlace ==
  ASSUME Cut, freeing # None, NEW q \in Nat, NEW a \in Nat, NEW n \in Nat,
         q = freeing.at, a = freeing.addr, n = freeing.size
  PROVE  /\ n > 0 /\ a > 0 /\ q <= Len(holes) /\ Len(holes) \in Nat
         /\ \A i \in 1 .. Len(holes) : i <= q => holes[i].addr + holes[i].size <= a
         /\ \A i \in 1 .. Len(holes) : i < q => holes[i].addr + holes[i].size < holes[q].addr
         /\ ~Behind => \A i \in 1 .. Len(holes) : i <= q => holes[i].addr + holes[i].size < a
         /\ ~Before /\ (HasNext => ~(NextHole.addr <= a))
              => \A i \in 1 .. Len(holes) : q < i => a + n < holes[i].addr
         /\ Behind => q > 0 /\ (HasNext => ~(NextHole.addr <= a))
         /\ Before => \A i \in 1 .. Len(holes) :
                        q + 1 < i => NextHole.addr + NextHole.size < holes[i].addr
<1>1. /\ freeing \in [at : Nat, addr : Nat, size : Nat, freed : Nat]
      /\ GoodPiece(Hand) /\ q <= Len(holes) /\ EndOf(q) <= a
      /\ \A i \in 1 .. Len(holes) : Apart(holes[i], Hand)
  BY Zenon DEF Cut, HandInv
<1>2. /\ holes \in Seq(Pieces) /\ \A i \in 1 .. Len(holes) : GoodPiece(holes[i])
      /\ \A i, j \in 1 .. Len(holes) : i < j => holes[i].addr + holes[i].size < holes[j].addr
  BY Zenon DEF Cut, ListInv
<1>3. Len(holes) \in Nat /\ Hand.addr = a /\ Hand.size = n
  BY <1>1, <1>2 DEF Hand
<1>4. n > 0 /\ a > 0
  <2>1. n >= MIN_ALLOC_SIZE /\ FirstByte <= a
    BY <1>1, <1>3, Zenon DEF GoodPiece
  <2>. QED BY <2>1, <1>3, HeapEnds
<1>5. \A i \in 1 .. Len(holes) : holes[i].addr \in Nat /\ holes[i].size \in Nat /\ holes[i].size > 0
  <2>. TAKE i \in 1 .. Len(holes)
  <2>1. holes[i] \in Pieces /\ holes[i].size >= MIN_ALLOC_SIZE
    BY <1>2, Zenon DEF GoodPiece
  <2>. QED BY <2>1, HeapEnds DEF Pieces
<1>6. q > 0 => q \in 1 .. Len(holes) /\ EndOf(q) = holes[q].addr + holes[q].size
  BY <1>1, <1>3 DEF EndOf
<1>7. \A i \in 1 .. Len(holes) : i < q => holes[i].addr + holes[i].size < holes[q].addr
  BY <1>2, <1>3, <1>6
<1>8. ASSUME NEW i \in 1 .. Len(holes), i <= q
      PROVE  /\ holes[i].addr + holes[i].size <= a
             /\ ~Behind => holes[i].addr + holes[i].size < a
  <2>1. q > 0 /\ holes[q].addr \in Nat /\ holes[q].size \in Nat /\ holes[q].size > 0
        /\ holes[q].addr + holes[q].size <= a
    BY <1>1, <1>3, <1>5, <1>6, <1>8
  <2>2. CASE i < q
    <3>1. PICK c \in Nat, m \in Nat : c = holes[i].addr /\ m = holes[i].size
      BY <1>5, Zenon
    <3>2. PICK d \in Nat, k \in Nat : d = holes[q].addr /\ k = holes[q].size
      BY <2>1, Zenon
    <3>3. c + m < d /\ d + k <= a
      BY <3>1, <3>2, <2>1, <2>2, <1>7, Zenon
    <3>4. c + m <= a /\ c + m < a + 1 /\ (k > 0 => c + m < a)
      BY <3>3
    <3>. QED BY <3>1, <3>2, <3>4, <2>1, Zenon
  <2>3. CASE i = q
    <3>1. ~Behind => holes[q].addr + holes[q].size # a
      BY <2>1, <1>6 DEF Behind
    <3>2. PICK e \in Nat : e = holes[q].addr + holes[q].size
      BY <2>1
    <3>3. e <= a /\ (~Behind => e # a)
      BY <2>1, <3>1, <3>2, Zenon
    <3>4. e <= a /\ (e # a => e < a)
      BY <3>3
    <3>. QED BY <2>3, <3>2, <3>3, <3>4, Zenon
  <2>. QED BY <2>2, <2>3, <1>3, <1>8
<1>9. Behind => q > 0 /\ (HasNext => ~(NextHole.addr <= a))
  <2>. SUFFICES ASSUME Behind PROVE q > 0 /\ (HasNext => ~(NextHole.addr <= a))
    OBVIOUS
  <2>1. q > 0
    BY <1>3, <1>4 DEF Behind, EndOf
  <2>2. ASSUME HasNext PROVE ~(NextHole.addr <= a)
    <3>1. q + 1 \in 1 .. Len(holes) /\ q < q + 1
      BY <2>2, <1>3 DEF HasNext
    <3>2. holes[q].addr + holes[q].size < holes[q + 1].addr /\ holes[q].addr + holes[q].size = a
      BY <3>1, <2>1, <1>2, <1>6, Zenon DEF Behind
    <3>3. PICK c \in Nat : c = holes[q + 1].addr
      BY <3>1, <1>5, Zenon
    <3>4. a < c
      BY <3>2, <3>3, Zenon
    <3>5. ~(c <= a)
      BY <3>4
    <3>. QED BY <3>3, <3>5, <1>3, Zenon DEF NextHole
  <2>. QED BY <2>1, <2>2
<1>10. ASSUME ~Before, HasNext => ~(NextHole.addr <= a), NEW i \in 1 .. Len(holes), q < i
       PROVE  a + n < holes[i].addr
  <2>1. q + 1 \in 1 .. Len(holes) /\ HasNext
    BY <1>3, <1>10 DEF HasNext
  <2>2. PICK c \in Nat, m \in Nat : c = holes[q + 1].addr /\ m = holes[q + 1].size
    BY <2>1, <1>5, Zenon
  <2>3. c + m <= a \/ a + n <= c
    BY <2>1, <2>2, <1>1, <1>3, Zenon DEF Apart
  <2>4. c # a + n /\ ~(c <= a)
    BY <2>1, <2>2, <1>10, Zenon DEF Before, NextHole
  <2>5. a + n < c
    <3>1. \A w, x, y, z \in Nat :
            (y + z <= w \/ w + x <= y) /\ y # w + x /\ ~(y <= w) => w + x < y
      OBVIOUS
    <3>2. a \in Nat /\ n \in Nat
      BY <1>3, Zenon
    <3>. QED BY <3>1, <3>2, <2>2, <2>3, <2>4, Zenon
  <2>6. CASE i = q + 1
    BY <2>6, <2>5, <2>2
  <2>7. CASE q + 1 < i
    <3>1. c + m < holes[i].addr
      BY <2>1, <2>2, <2>7, <1>2, Zenon
    <3>2. PICK d \in Nat : d = holes[i].addr
      BY <1>5, Zenon
    <3>3. c + m < d
      BY <3>1, <3>2, Zenon
    <3>4. a + n < d
      BY <3>3, <2>5
    <3>. QED BY <3>2, <3>4, Zenon
  <2>. QED BY <2>6, <2>7, <1>3, <1>10
<1>11. ASSUME Before, NEW i \in 1 .. Len(holes), q + 1 < i
       PROVE  NextHole.addr + NextHole.size < holes[i].addr
  <2>1. q + 1 \in 1 .. Len(holes)
    BY <1>3, <1>11 DEF Before, HasNext
  <2>. QED BY <2>1, <1>2, <1>11, Zenon DEF NextHole
<1>12. \A i \in 1 .. Len(holes) : i <= q => holes[i].addr + holes[i].size <= a
  BY <1>8, Zenon
<1>13. ~Behind => \A i \in 1 .. Len(holes) : i <= q => holes[i].addr + holes[i].size < a
  BY <1>8, Zenon
<1>14. ~Before /\ (HasNext => ~(NextHole.addr <= a))
         => \A i \in 1 .. Len(holes) : q < i => a + n < holes[i].addr
  BY <1>10, Zenon
<1>15. Before => \A i \in 1 .. Len(holes) :
                   q + 1 < i => NextHole.addr + NextHole.size < holes[i].addr
  BY <1>11, Zenon
<1>. QED BY <1>1, <1>3, <1>4, <1>7, <1>9, <1>12, <1>13, <1>14, <1>15, Zenon
-----------------------------------------------------------------------------
\* The loop ends: the piece in hand and the holes lo to hi are one hole now.
LEMMA FreedAsOne ==
  ASSUME Cut, freeing # None, freeing' = None, blocks' = blocks,
         NEW lo \in Nat \ {0}, NEW hi \in Nat, lo <= hi + 1, hi <= Len(holes),
         NEW new, GoodPiece(new), Spliced(holes, holes', lo, hi, <<new>>),
         \A i \in 1 .. Len(holes) :
           /\ i < lo => holes[i].addr + holes[i].size < new.addr
           /\ hi < i => new.addr + new.size < holes[i].addr,
         \A b \in blocks : Apart(new, Span(b)),
         \A x \in Int : Has(Hand, x) => Has(new, x),
         \A x \in Int : \A k \in 1 .. Len(holes) :
           lo <= k /\ k <= hi /\ Has(holes[k], x) => Has(new, x)
  PROVE  Cut'
<1>1. PICK mid : mid = <<new>>
  OBVIOUS
<1>2. new \in Pieces
  BY Zenon DEF GoodPiece
<1>3. mid \in Seq(Pieces) /\ Len(mid) = 1 /\ \A k \in 1 .. Len(mid) : mid[k] = new
  BY <1>1, <1>2
<1>4. Spliced(holes, holes', lo, hi, mid)
  BY <1>1, Zenon
<1>5. ListInv /\ BlocksInv
  BY Zenon DEF Cut
<1>6. ListInv'
  <2>1. \A k, m \in 1 .. Len(mid) : k < m => mid[k].addr + mid[k].size < mid[m].addr
    BY <1>3
  <2>2. \A k \in 1 .. Len(mid) : GoodPiece(mid[k])
    BY <1>3, Zenon
  <2>3. \A i \in 1 .. Len(holes) : \A k \in 1 .. Len(mid) :
          /\ i < lo => holes[i].addr + holes[i].size < mid[k].addr
          /\ hi < i => mid[k].addr + mid[k].size < holes[i].addr
    BY <1>3, Zenon
  <2>. QED BY <1>3, <1>4, <1>5, <2>1, <2>2, <2>3, ListKept, Zenon
<1>7. BlocksInv'
  <2>1. ASSUME NEW b \in blocks PROVE \A j \in 1 .. Len(holes') : Apart(holes'[j], Span(b))
    <3>1. \A k \in 1 .. Len(mid) : Apart(mid[k], Span(b))
      BY <1>3, Zenon
    <3>2. \A i \in 1 .. Len(holes) : i < lo \/ hi < i => Apart(holes[i], Span(b))
      BY <1>5, Zenon DEF BlocksInv
    <3>. QED BY <1>3, <1>4, <1>5, <3>1, <3>2, ListApart, Zenon
  <2>. QED BY <2>1, <1>5, Zenon DEF BlocksInv, Span
<1>8. Covered'
  <2>1. \A x \in Int :
          \/ \E k \in 1 .. Len(holes) : lo <= k /\ k <= hi /\ Has(holes[k], x)
          \/ \E b \in blocks : Has(Span(b), x)
          \/ freeing # None /\ Has(Hand, x)
          => \/ \E k \in 1 .. Len(mid) : Has(mid[k], x)
             \/ \E b \in blocks' : Has(Span(b), x)
             \/ freeing' # None /\ Has(Hand, x)'
    <3>1. 1 \in 1 .. Len(mid)
      BY <1>3
    <3>. QED BY <3>1, <1>3, Zenon
  <2>. QED BY <2>1, <1>3, <1>4, StillCovered, Zenon
<1>. QED BY <1>6, <1>7, <1>8, Zenon DEF Cut, HandInv

\* The piece in hand is a piece, and so are the hole the loop is at and the next one.
LEMMA HandFacts ==
  ASSUME Cut, freeing # None
  PROVE  /\ freeing \in [at : Nat, addr : Nat, size : Nat, freed : Nat]
         /\ GoodPiece(Hand) /\ Hand \in Pieces
         /\ Hand.addr = freeing.addr /\ Hand.size = freeing.size
         /\ holes \in Seq(Pieces) /\ Len(holes) \in Nat
         /\ HasNext => /\ freeing.at + 1 \in 1 .. Len(holes)
                       /\ GoodPiece(NextHole) /\ NextHole \in Pieces
         /\ freeing.at > 0 => /\ freeing.at \in 1 .. Len(holes)
                              /\ GoodPiece(holes[freeing.at]) /\ holes[freeing.at] \in Pieces
                              /\ EndOf(freeing.at) = holes[freeing.at].addr + holes[freeing.at].size
         /\ BlockIsFreeable
         /\ \A b \in blocks : /\ GoodPiece(Span(b)) /\ Apart(Hand, Span(b))
                              /\ \A i \in 1 .. Len(holes) : Apart(holes[i], Span(b))
<1>1. /\ freeing \in [at : Nat, addr : Nat, size : Nat, freed : Nat]
      /\ GoodPiece(Hand) /\ freeing.at <= Len(holes) /\ EndOf(freeing.at) <= freeing.addr
      /\ \A b \in blocks : Apart(Hand, Span(b))
  BY Zenon DEF Cut, HandInv
<1>2. holes \in Seq(Pieces) /\ \A i \in 1 .. Len(holes) : GoodPiece(holes[i])
  BY Zenon DEF Cut, ListInv
<1>3. /\ Len(holes) \in Nat /\ freeing.at \in Nat
      /\ Hand.addr = freeing.addr /\ Hand.size = freeing.size
  BY <1>1, <1>2 DEF Hand
<1>4. HasNext => freeing.at + 1 \in 1 .. Len(holes)
  BY <1>3 DEF HasNext
<1>5. freeing.at > 0 => freeing.at \in 1 .. Len(holes) /\ freeing.at # 0
  BY <1>1, <1>3
<1>6. \A h : GoodPiece(h) => h \in Pieces /\ h.size >= MIN_ALLOC_SIZE
  BY Zenon DEF GoodPiece
<1>7. \A b \in blocks : GoodPiece(Span(b)) /\ \A i \in 1 .. Len(holes) : Apart(holes[i], Span(b))
  BY Zenon DEF Cut, BlocksInv
<1>8. HasNext => GoodPiece(NextHole) /\ NextHole \in Pieces
  BY <1>2, <1>4, <1>6, Zenon DEF NextHole
<1>9. freeing.at > 0 => /\ GoodPiece(holes[freeing.at]) /\ holes[freeing.at] \in Pieces
                        /\ EndOf(freeing.at) = holes[freeing.at].addr + holes[freeing.at].size
  BY <1>2, <1>5, <1>6, Zenon DEF EndOf
<1>10. BlockIsFreeable
  BY <1>1, <1>3, <1>6, Zenon DEF BlockIsFreeable
<1>. QED BY <1>1, <1>2, <1>3, <1>4, <1>5, <1>6, <1>7, <1>8, <1>9, <1>10, Zenon

\* What a hole becomes when it grows.
LEMMA GrownHole ==
  ASSUME Cut, freeing # None, freeing.at > 0, NEW by \in Nat
  PROVE  Grown(by) = [holes EXCEPT ![freeing.at] =
                        [addr |-> holes[freeing.at].addr, size |-> holes[freeing.at].size + by]]
<1>1. PICK q, h : q = freeing.at /\ h = holes[q]
  OBVIOUS
<1>2. h \in Pieces /\ q \in 1 .. Len(holes) /\ holes \in Seq(Pieces)
  BY <1>1, HandFacts, Zenon
<1>3. [h EXCEPT !.size = @ + by] = [addr |-> h.addr, size |-> h.size + by]
  <2>1. PICK a \in Nat, n \in Nat : h = [addr |-> a, size |-> n]
    BY <1>2 DEF Pieces
  <2>. QED BY <2>1
<1>. QED BY <1>1, <1>2, <1>3, Zenon DEF Grown

\* The block fills the gap between two holes.
LEMMA FillsGapCut == ASSUME Cut, freeing # None, FillsGap PROVE Cut'
<1>1. PICK q \in Nat, a \in Nat, n \in Nat : q = freeing.at /\ a = freeing.addr /\ n = freeing.size
  BY HandFacts
<1>2. /\ Behind /\ Before /\ freeing' = None /\ blocks' = blocks
      /\ holes' = RemoveAt(Grown(n + NextHole.size), q + 1)
  BY <1>1, Zenon DEF FillsGap, Freed
<1>3. HasNext
  BY <1>2, Zenon DEF Before
<1>4. q > 0 /\ q <= Len(holes) /\ Len(holes) \in Nat
  BY <1>1, <1>2, HandPlace, Zenon
<1>5. PICK h, g, one, new :
        /\ h = holes[q] /\ g = NextHole
        /\ one = [addr |-> h.addr, size |-> h.size + n]
        /\ new = [addr |-> one.addr, size |-> one.size + g.size]
  BY Zenon
<1>6. /\ GoodPiece(h) /\ GoodPiece(g) /\ GoodPiece(Hand) /\ h \in Pieces /\ g \in Pieces
      /\ Hand.addr = a /\ Hand.size = n /\ q \in 1 .. Len(holes) /\ holes \in Seq(Pieces)
      /\ h.addr + h.size = a /\ a + n = g.addr /\ q + 1 \in 1 .. Len(holes)
  BY <1>1, <1>2, <1>3, <1>4, <1>5, HandFacts, Zenon DEF Behind, Before
<1>7. /\ GoodPiece(one) /\ one.addr = h.addr /\ one.addr + one.size = a + n
      /\ \A x \in Int : Has(one, x) <=> Has(h, x) \/ Has(Hand, x)
      /\ \A b : GoodPiece(b) /\ Apart(h, b) /\ Apart(Hand, b) => Apart(one, b)
  <2>1. Join(h, Hand, one)
    BY <1>5, <1>6, JoinedPieces, Zenon
  <2>. QED BY <2>1, <1>6, Zenon DEF Join
<1>8. /\ GoodPiece(new) /\ new.addr = h.addr /\ new.addr + new.size = g.addr + g.size
      /\ \A x \in Int : Has(new, x) <=> Has(one, x) \/ Has(g, x)
      /\ \A b : GoodPiece(b) /\ Apart(one, b) /\ Apart(g, b) => Apart(new, b)
  <2>1. Join(one, g, new)
    BY <1>5, <1>6, <1>7, JoinedPieces, Zenon
  <2>. QED BY <2>1, <1>7, Zenon DEF Join
<1>9. Spliced(holes, holes', q, q + 1, <<new>>)
  <2>1. h.size \in Nat /\ g.size \in Nat /\ h.addr \in Nat
    BY <1>6 DEF Pieces
  <2>2. n + g.size \in Nat /\ h.size + (n + g.size) = (h.size + n) + g.size
    BY <2>1
  <2>3. new = [addr |-> h.addr, size |-> h.size + (n + g.size)]
    BY <2>2, <1>5
  <2>4. holes' = RemoveAt([holes EXCEPT ![q] = new], q + 1)
    BY <1>1, <1>2, <1>4, <1>5, <2>2, <2>3, GrownHole, Zenon
  <2>5. q < Len(holes) /\ new \in Pieces
    BY <1>4, <1>6, <1>8 DEF GoodPiece
  <2>. QED BY <2>4, <2>5, <1>6, MergeSplices, Zenon
<1>10. \A i \in 1 .. Len(holes) :
         /\ i < q => holes[i].addr + holes[i].size < new.addr
         /\ q + 1 < i => new.addr + new.size < holes[i].addr
  <2>1. \A i \in 1 .. Len(holes) : i < q => holes[i].addr + holes[i].size < holes[q].addr
    BY <1>1, HandPlace, Zenon
  <2>2. \A i \in 1 .. Len(holes) : q + 1 < i => NextHole.addr + NextHole.size < holes[i].addr
    BY <1>1, <1>2, HandPlace, Zenon
  <2>. QED BY <2>1, <2>2, <1>5, <1>8, Zenon
<1>11. \A b \in blocks : Apart(new, Span(b))
  <2>. TAKE b \in blocks
  <2>1. /\ GoodPiece(Span(b)) /\ Apart(Hand, Span(b))
        /\ \A i \in 1 .. Len(holes) : Apart(holes[i], Span(b))
    BY HandFacts, Zenon
  <2>2. Apart(h, Span(b)) /\ Apart(g, Span(b))
    BY <2>1, <1>1, <1>5, <1>6, Zenon DEF NextHole
  <2>. QED BY <2>1, <2>2, <1>7, <1>8, Zenon
<1>12. \A x \in Int : Has(Hand, x) => Has(new, x)
  BY <1>7, <1>8, Zenon
<1>13. \A x \in Int : \A k \in 1 .. Len(holes) :
         q <= k /\ k <= q + 1 /\ Has(holes[k], x) => Has(new, x)
  <2>. TAKE x \in Int
  <2>. TAKE k \in 1 .. Len(holes)
  <2>1. q <= k /\ k <= q + 1 => k = q \/ k = q + 1
    BY <1>4
  <2>2. Has(holes[q], x) => Has(new, x)
    BY <1>5, <1>7, <1>8, Zenon
  <2>3. Has(holes[q + 1], x) => Has(new, x)
    BY <1>1, <1>5, <1>8, Zenon DEF NextHole
  <2>. QED BY <2>1, <2>2, <2>3, Zenon
<1>14. q \in Nat \ {0} /\ q + 1 \in Nat /\ q <= (q + 1) + 1 /\ q + 1 <= Len(holes)
  BY <1>4, <1>6
<1>. QED BY <1>2, <1>8, <1>9, <1>10, <1>11, <1>12, <1>13, <1>14, FreedAsOne, Zenon

\* The block is right behind a hole.
LEMMA GrowsHoleCut == ASSUME Cut, freeing # None, GrowsHole PROVE Cut'
<1>1. PICK q \in Nat, a \in Nat, n \in Nat : q = freeing.at /\ a = freeing.addr /\ n = freeing.size
  BY HandFacts
<1>2. Behind /\ ~Before /\ freeing' = None /\ blocks' = blocks /\ holes' = Grown(n)
  BY <1>1, Zenon DEF GrowsHole, Freed
<1>4. q > 0 /\ q <= Len(holes) /\ Len(holes) \in Nat /\ (HasNext => ~(NextHole.addr <= a))
  BY <1>1, <1>2, HandPlace, Zenon
<1>5. PICK h, new : h = holes[q] /\ new = [addr |-> h.addr, size |-> h.size + n]
  BY Zenon
<1>6. /\ GoodPiece(h) /\ GoodPiece(Hand) /\ h \in Pieces
      /\ Hand.addr = a /\ Hand.size = n /\ q \in 1 .. Len(holes) /\ holes \in Seq(Pieces)
      /\ h.addr + h.size = a
  BY <1>1, <1>2, <1>4, <1>5, HandFacts, Zenon DEF Behind
<1>7. /\ GoodPiece(new) /\ new.addr = h.addr /\ new.addr + new.size = a + n
      /\ \A x \in Int : Has(new, x) <=> Has(h, x) \/ Has(Hand, x)
      /\ \A b : GoodPiece(b) /\ Apart(h, b) /\ Apart(Hand, b) => Apart(new, b)
  <2>1. Join(h, Hand, new)
    BY <1>5, <1>6, JoinedPieces, Zenon
  <2>. QED BY <2>1, <1>6, Zenon DEF Join
<1>9. Spliced(holes, holes', q, q, <<new>>)
  <2>1. holes' = [holes EXCEPT ![q] = new]
    BY <1>1, <1>2, <1>4, <1>5, GrownHole, Zenon
  <2>2. new \in Pieces
    BY <1>7, Zenon DEF GoodPiece
  <2>. QED BY <2>1, <2>2, <1>6, ChangeSplices, Zenon
<1>10. \A i \in 1 .. Len(holes) :
         /\ i < q => holes[i].addr + holes[i].size < new.addr
         /\ q < i => new.addr + new.size < holes[i].addr
  <2>1. \A i \in 1 .. Len(holes) : i < q => holes[i].addr + holes[i].size < holes[q].addr
    BY <1>1, HandPlace, Zenon
  <2>2. \A i \in 1 .. Len(holes) : q < i => a + n < holes[i].addr
    BY <1>1, <1>2, <1>4, HandPlace, Zenon
  <2>. QED BY <2>1, <2>2, <1>5, <1>7, Zenon
<1>11. \A b \in blocks : Apart(new, Span(b))
  <2>. TAKE b \in blocks
  <2>1. /\ GoodPiece(Span(b)) /\ Apart(Hand, Span(b))
        /\ \A i \in 1 .. Len(holes) : Apart(holes[i], Span(b))
    BY HandFacts, Zenon
  <2>. QED BY <2>1, <1>5, <1>6, <1>7, Zenon
<1>12. \A x \in Int : Has(Hand, x) => Has(new, x)
  BY <1>7, Zenon
<1>13. \A x \in Int : \A k \in 1 .. Len(holes) : q <= k /\ k <= q /\ Has(holes[k], x) => Has(new, x)
  <2>1. \A k \in 1 .. Len(holes) : q <= k /\ k <= q => k = q
    BY <1>4
  <2>. QED BY <2>1, <1>5, <1>7, Zenon
<1>14. q \in Nat \ {0} /\ q <= q + 1
  BY <1>4
<1>. QED BY <1>2, <1>4, <1>7, <1>9, <1>10, <1>11, <1>12, <1>13, <1>14, FreedAsOne, Zenon

\* The block becomes a hole of its own.
LEMMA BecomesHoleCut == ASSUME Cut, freeing # None, BecomesHole PROVE Cut' /\ outcome' # "panic"
<1>1. PICK q \in Nat, a \in Nat, n \in Nat : q = freeing.at /\ a = freeing.addr /\ n = freeing.size
  BY HandFacts
<1>2. /\ GoodPiece(Hand) /\ Hand \in Pieces /\ Hand.addr = a /\ Hand.size = n
      /\ holes \in Seq(Pieces) /\ Len(holes) \in Nat /\ a % ALIGN = 0
  BY <1>1, HandFacts, Zenon DEF GoodPiece
<1>3. /\ ~Behind /\ ~Before /\ (HasNext => ~(NextHole.addr <= a)) /\ freeing' = None
      /\ blocks' = blocks /\ outcome' = "ok" /\ holes' = InsertAt(holes, q + 1, Hand)
  BY <1>1, <1>2, Zenon DEF BecomesHole, Freed, Hand
<1>4. q <= Len(holes)
  BY <1>1, HandPlace, Zenon
<1>5. Spliced(holes, holes', q + 1, q, <<Hand>>)
  BY <1>2, <1>3, <1>4, InsertSplices, Zenon
<1>6. /\ \A i \in 1 .. Len(holes) : i <= q => holes[i].addr + holes[i].size < a
      /\ \A i \in 1 .. Len(holes) : q < i => a + n < holes[i].addr
  BY <1>1, <1>3, HandPlace, Zenon
<1>7. \A i \in 1 .. Len(holes) :
        /\ i < q + 1 => holes[i].addr + holes[i].size < Hand.addr
        /\ q < i => Hand.addr + Hand.size < holes[i].addr
  <2>1. \A i \in 1 .. Len(holes) : i < q + 1 => i <= q
    OBVIOUS
  <2>. QED BY <2>1, <1>2, <1>6, Zenon
<1>8. \A b \in blocks : Apart(Hand, Span(b))
  BY HandFacts, Zenon
<1>9. \A x \in Int : \A k \in 1 .. Len(holes) :
        q + 1 <= k /\ k <= q /\ Has(holes[k], x) => Has(Hand, x)
  <2>1. \A k \in 1 .. Len(holes) : ~(q + 1 <= k /\ k <= q)
    OBVIOUS
  <2>. QED BY <2>1, Zenon
<1>10. q + 1 \in Nat \ {0} /\ q + 1 <= q + 1
  OBVIOUS
<1>11. Cut'
  BY <1>2, <1>3, <1>4, <1>5, <1>7, <1>8, <1>9, <1>10, FreedAsOne, Zenon
<1>. QED BY <1>3, <1>11

\* The block is right before a hole: both are in hand afterwards.
LEMMA TakesNextCut == ASSUME Cut, freeing # None, TakesNext PROVE Cut' /\ freeing' # None
<1>1. PICK q \in Nat, a \in Nat, n \in Nat : q = freeing.at /\ a = freeing.addr /\ n = freeing.size
  BY HandFacts
<1>2. /\ ~Behind /\ Before /\ HasNext /\ blocks' = blocks /\ holes' = RemoveAt(holes, q + 1)
      /\ freeing' = [freeing EXCEPT !.size = @ + NextHole.size]
  BY <1>1, Zenon DEF TakesNext, Before
<1>3. /\ GoodPiece(NextHole) /\ NextHole \in Pieces /\ GoodPiece(Hand) /\ Hand \in Pieces
      /\ freeing \in [at : Nat, addr : Nat, size : Nat, freed : Nat]
      /\ Hand.addr = a /\ Hand.size = n /\ holes \in Seq(Pieces) /\ Len(holes) \in Nat
      /\ q + 1 \in 1 .. Len(holes) /\ a + n = NextHole.addr /\ NextHole = holes[q + 1]
  BY <1>1, <1>2, HandFacts, Zenon DEF Before, NextHole
<1>4. PICK g, k, new : g = NextHole /\ k = g.size /\ new = [addr |-> a, size |-> n + k]
  BY Zenon
<1>5. /\ freeing' \in [at : Nat, addr : Nat, size : Nat, freed : Nat]
      /\ freeing'.at = q /\ freeing'.addr = a /\ freeing'.size = n + k
  <2>1. k \in Nat
    BY <1>3, <1>4, Zenon DEF Pieces
  <2>2. freeing' = [freeing EXCEPT !.size = @ + k]
    BY <1>2, <1>4, Zenon
  <2>3. n + k \in Nat
    BY <2>1
  <2>4. PICK v \in Nat : v = freeing.freed
    BY <1>3
  <2>5. freeing = [at |-> q, addr |-> a, size |-> n, freed |-> v]
    BY <2>4, <1>1, <1>3
  <2>6. freeing' = [at |-> q, addr |-> a, size |-> n + k, freed |-> v]
    BY <2>2, <2>5
  <2>. QED BY <2>3, <2>6
<1>6. Hand' = new /\ freeing' # None
  BY <1>4, <1>5, HeapAssumption, Zenon DEF Hand
<1>7. /\ GoodPiece(new) /\ \A x \in Int : Has(new, x) <=> Has(Hand, x) \/ Has(g, x)
      /\ \A b : GoodPiece(b) /\ Apart(Hand, b) /\ Apart(g, b) => Apart(new, b)
      /\ \A b : GoodPiece(b) /\ Apart(b, Hand) /\ Apart(b, g) => Apart(b, new)
  <2>1. Join(Hand, g, new)
    BY <1>3, <1>4, JoinedPieces, Zenon
  <2>. QED BY <2>1, Zenon DEF Join
<1>8. Spliced(holes, holes', q + 1, q + 1, <<>>)
  BY <1>2, <1>3, RemoveSplices, Zenon
<1>9. PICK mid : mid = <<>>
  OBVIOUS
<1>10. mid \in Seq(Pieces) /\ Len(mid) = 0 /\ \A x : x \notin 1 .. Len(mid)
  BY <1>9
<1>11. /\ q + 1 \in Nat \ {0} /\ q + 1 \in Nat /\ q + 1 <= (q + 1) + 1 /\ q + 1 <= Len(holes)
       /\ Spliced(holes, holes', q + 1, q + 1, mid)
  <2>1. ASSUME NEW i \in Nat, NEW len \in Nat, i + 1 \in 1 .. len
        PROVE  i + 1 \in Nat \ {0} /\ i + 1 \in Nat /\ i + 1 <= (i + 1) + 1 /\ i + 1 <= len
    BY <2>1
  <2>. QED BY <2>1, <1>3, <1>8, <1>9, Zenon
<1>12. /\ ListInv /\ BlocksInv /\ HandInv
       /\ \A i \in 1 .. Len(holes) : GoodPiece(holes[i])
       /\ \A i, j \in 1 .. Len(holes) : i < j => holes[i].addr + holes[i].size < holes[j].addr
       /\ \A i \in 1 .. Len(holes) : Apart(holes[i], Hand)
  BY Zenon DEF Cut, ListInv, HandInv
<1>13. ListInv'
  BY <1>10, <1>11, <1>12, ListKept, Zenon
<1>14. BlocksInv'
  <2>1. ASSUME NEW b \in blocks PROVE \A j \in 1 .. Len(holes') : Apart(holes'[j], Span(b))
    <3>1. \A i \in 1 .. Len(holes) : i < q + 1 \/ q + 1 < i => Apart(holes[i], Span(b))
      BY <1>12, Zenon DEF BlocksInv
    <3>. QED BY <1>10, <1>11, <1>12, <3>1, ListApart, Zenon
  <2>. QED BY <2>1, <1>2, <1>12, Zenon DEF BlocksInv, Span
<1>15. \A j \in 1 .. Len(holes') : Apart(holes'[j], new)
  <2>1. ASSUME NEW i \in 1 .. Len(holes), i < q + 1 \/ q + 1 < i PROVE Apart(holes[i], new)
    <3>1. Apart(holes[i], g)
      <4>1. \/ holes[i].addr + holes[i].size < g.addr
            \/ g.addr + g.size < holes[i].addr
        BY <2>1, <1>3, <1>4, <1>12, Zenon
      <4>2. holes[i].addr \in Nat /\ holes[i].size \in Nat /\ g.addr \in Nat /\ g.size \in Nat
        <5>1. holes[i] \in Pieces /\ g \in Pieces
          BY <1>3, <1>4, <1>12, Zenon DEF GoodPiece
        <5>. QED BY <5>1 DEF Pieces
      <4>. QED BY <4>1, <4>2 DEF Apart
    <3>. QED BY <3>1, <1>7, <1>12, Zenon
  <2>. QED BY <2>1, <1>10, <1>11, <1>12, ListApart, Zenon
<1>16. Len(holes') = Len(holes) - 1 /\ (q > 0 => holes'[q] = holes[q])
  <2>1. Len(holes') = (Len(holes) - (q + 1)) + ((q + 1) - 1) + 0
        /\ \A j \in 1 .. (q + 1) - 1 : holes'[j] = holes[j]
    BY <1>8 DEF Spliced
  <2>2. Len(holes') = Len(holes) - 1
    BY <2>1, <1>3
  <2>3. q > 0 => q \in 1 .. (q + 1) - 1
    OBVIOUS
  <2>. QED BY <2>1, <2>2, <2>3, Zenon
<1>17. HandInv'
  <2>1. q <= Len(holes')
    BY <1>3, <1>16
  <2>2. EndOf(q)' = EndOf(q)
    BY <1>16 DEF EndOf
  <2>3. EndOf(q) <= a
    BY <1>1, <1>12, Zenon DEF HandInv
  <2>4. \A b \in blocks : Apart(new, Span(b))
    <3>1. \A b \in blocks : /\ GoodPiece(Span(b)) /\ Apart(Hand, Span(b))
                            /\ \A i \in 1 .. Len(holes) : Apart(holes[i], Span(b))
      BY HandFacts, Zenon
    <3>. QED BY <3>1, <1>3, <1>4, <1>7, Zenon
  <2>. QED BY <2>1, <2>2, <2>3, <2>4, <1>2, <1>5, <1>6, <1>7, <1>15, Zenon DEF HandInv, Span
<1>18. Covered'
  <2>1. \A j \in 1 .. Len(holes) : q + 1 <= j /\ j <= q + 1 => j = q + 1
    OBVIOUS
  <2>2. \A x \in Int :
          \/ \E j \in 1 .. Len(holes) : q + 1 <= j /\ j <= q + 1 /\ Has(holes[j], x)
          \/ \E b \in blocks : Has(Span(b), x)
          \/ freeing # None /\ Has(Hand, x)
          => \/ \E j \in 1 .. Len(mid) : Has(mid[j], x)
             \/ \E b \in blocks' : Has(Span(b), x)
             \/ freeing' # None /\ Has(Hand, x)'
    <3>. TAKE x \in Int
    <3>1. Has(Hand, x)' = Has(new, x)
      BY <1>6, Zenon DEF Has
    <3>2. (\E j \in 1 .. Len(holes) : q + 1 <= j /\ j <= q + 1 /\ Has(holes[j], x)) => Has(new, x)
      BY <2>1, <1>3, <1>4, <1>7, Zenon
    <3>3. freeing # None /\ Has(Hand, x) => Has(new, x)
      BY <1>7, Zenon
    <3>4. (\E b \in blocks : Has(Span(b), x)) => \E b \in blocks' : Has(Span(b), x)
      BY <1>2, Zenon
    <3>. QED BY <3>1, <3>2, <3>3, <3>4, <1>6, Zenon
  <2>. QED BY <2>2, <1>10, <1>11, StillCovered, Zenon
<1>. QED BY <1>6, <1>13, <1>14, <1>17, <1>18, Zenon DEF Cut

\* The loop goes on behind the next hole.
LEMMA GoesOnCut == ASSUME Cut, freeing # None, GoesOn PROVE Cut' /\ freeing' # None
<1>1. PICK q \in Nat, a \in Nat, n \in Nat : q = freeing.at /\ a = freeing.addr /\ n = freeing.size
  BY HandFacts
<1>2. /\ HasNext /\ NextHole.addr <= a /\ holes' = holes /\ blocks' = blocks
      /\ freeing' = [freeing EXCEPT !.at = @ + 1]
  BY <1>1, Zenon DEF GoesOn
<1>3. /\ freeing \in [at : Nat, addr : Nat, size : Nat, freed : Nat] /\ NextHole \in Pieces
      /\ GoodPiece(NextHole) /\ Hand.addr = a /\ Hand.size = n /\ Len(holes) \in Nat
      /\ q + 1 \in 1 .. Len(holes) /\ NextHole = holes[q + 1]
  BY <1>1, <1>2, HandFacts, Zenon DEF NextHole
<1>4. /\ freeing' \in [at : Nat, addr : Nat, size : Nat, freed : Nat]
      /\ freeing'.at = q + 1 /\ freeing'.addr = a /\ freeing'.size = n
  BY <1>1, <1>2, <1>3
<1>5. Hand' = Hand /\ freeing' # None
  BY <1>1, <1>4, HeapAssumption, Zenon DEF Hand
<1>6. ListInv /\ BlocksInv /\ HandInv /\ Covered
  BY Zenon DEF Cut
<1>7. EndOf(q + 1) <= a
  <2>1. PICK c \in Nat, k \in Nat : c = NextHole.addr /\ k = NextHole.size
    BY <1>3 DEF Pieces
  <2>2. c + k <= a \/ a + n <= c
    BY <2>1, <1>3, <1>6, Zenon DEF HandInv, Apart
  <2>3. n > 0
    BY <1>1, HandPlace, Zenon
  <2>4. c <= a
    BY <2>1, <1>2, Zenon
  <2>5. c + k <= a
    BY <2>2, <2>3, <2>4
  <2>6. q + 1 # 0
    OBVIOUS
  <2>. QED BY <2>1, <2>5, <2>6, <1>3, Zenon DEF EndOf
<1>8. ListInv' /\ BlocksInv'
  BY <1>2, <1>6, Zenon DEF ListInv, BlocksInv, Span
<1>9. HandInv'
  <2>1. q + 1 <= Len(holes)
    BY <1>3
  <2>2. EndOf(q + 1)' = EndOf(q + 1)
    BY <1>2, Zenon DEF EndOf
  <2>3. /\ GoodPiece(Hand) /\ \A i \in 1 .. Len(holes) : Apart(holes[i], Hand)
        /\ \A b \in blocks : Apart(Hand, Span(b))
    BY <1>6, Zenon DEF HandInv
  <2>. QED BY <2>1, <2>2, <2>3, <1>2, <1>4, <1>5, <1>7, Zenon DEF HandInv, Span
<1>10. Covered'
  BY <1>2, <1>5, <1>6, Zenon DEF Covered, Span, Has
<1>. QED BY <1>5, <1>8, <1>9, <1>10, Zenon DEF Cut
-----------------------------------------------------------------------------
\* Three lists one after the other.
LEMMA PiecesAssociative ==
  ASSUME NEW s \in Seq(Pieces), NEW f \in Seq(Pieces), NEW g \in Seq(Pieces)
  PROVE  (s \o f) \o g = s \o (f \o g)
<1>1. /\ Len(s \o f) = Len(s) + Len(f) /\ Len(f \o g) = Len(f) + Len(g)
      /\ s \o f \in Seq(Pieces) /\ f \o g \in Seq(Pieces)
      /\ Len(s) \in Nat /\ Len(f) \in Nat /\ Len(g) \in Nat
  OBVIOUS
<1>2. /\ (s \o f) \o g \in Seq(Pieces) /\ s \o (f \o g) \in Seq(Pieces)
      /\ Len((s \o f) \o g) = Len(s) + Len(f) + Len(g)
      /\ Len(s \o (f \o g)) = Len(s) + Len(f) + Len(g)
  BY <1>1
<1>3. ASSUME NEW i \in 1 .. Len(s) + Len(f) + Len(g)
      PROVE  ((s \o f) \o g)[i] = (s \o (f \o g))[i]
  BY <1>1
<1>. QED BY <1>2, <1>3

\* An allocation goes into the hands of `deallocate`.
LEMMA ReleaseCut == ASSUME Cut, NEW b \in blocks, Release(b) PROVE Cut' /\ freeing' # None
<1>1. PICK a, n : a = b.addr /\ n = AlignedSize(b.layout)
  OBVIOUS
<1>2. /\ freeing = None /\ blocks' = blocks \ {b} /\ holes' = holes
      /\ freeing' = [at |-> 0, addr |-> a, size |-> n, freed |-> n]
  BY <1>1, Zenon DEF Release
<1>3. ListInv /\ BlocksInv /\ Covered /\ GoodPiece(Span(b)) /\ Span(b) = [addr |-> a, size |-> n]
  BY <1>1, Zenon DEF Cut, BlocksInv, Span
<1>4. a \in Nat /\ n \in Nat /\ Len(holes) \in Nat
  <2>1. Span(b) \in Pieces /\ holes \in Seq(Pieces)
    BY <1>3, Zenon DEF GoodPiece, ListInv
  <2>. QED BY <2>1, <1>3 DEF Pieces
<1>5. /\ freeing' \in [at : Nat, addr : Nat, size : Nat, freed : Nat]
      /\ freeing'.at = 0 /\ freeing'.addr = a /\ freeing'.size = n
  BY <1>2, <1>4
<1>6. Hand' = Span(b) /\ freeing' # None
  BY <1>3, <1>5, HeapAssumption, Zenon DEF Hand
<1>7. ListInv' /\ BlocksInv'
  BY <1>2, <1>3, Zenon DEF ListInv, BlocksInv, Span
<1>8. HandInv'
  <2>1. 0 <= Len(holes) /\ 0 <= a
    BY <1>4
  <2>2. EndOf(0)' = 0
    BY DEF EndOf
  <2>3. /\ \A i \in 1 .. Len(holes) : Apart(holes[i], Span(b))
        /\ \A c \in blocks \ {b} : Apart(Span(b), Span(c))
    BY <1>3, Zenon DEF BlocksInv
  <2>. QED BY <2>1, <2>2, <2>3, <1>2, <1>3, <1>5, <1>6, Zenon DEF HandInv, Span
<1>9. Covered'
  <2>. SUFFICES ASSUME NEW x \in FirstByte .. EndByte - 1
                PROVE  \/ \E i \in 1 .. Len(holes') : Has(holes'[i], x)
                       \/ \E c \in blocks' : Has(Span(c), x)
                       \/ freeing' # None /\ Has(Hand, x)'
    BY Zenon DEF Covered, Has
  <2>1. Has(Hand, x)' = Has(Span(b), x)
    BY <1>6, Zenon DEF Has
  <2>2. (\E i \in 1 .. Len(holes) : Has(holes[i], x)) \/ \E c \in blocks : Has(Span(c), x)
    BY <1>2, <1>3, Zenon DEF Covered
  <2>. QED BY <2>1, <2>2, <1>2, <1>6, Zenon
<1>. QED BY <1>6, <1>7, <1>8, <1>9, Zenon DEF Cut
-----------------------------------------------------------------------------
\* What an allocation takes out of a hole, and the holes it leaves.
CutsOut(hole, taken, mid) ==
  /\ GoodPiece(taken)
  /\ hole.addr <= taken.addr /\ taken.addr + taken.size <= hole.addr + hole.size
  /\ mid \in Seq(Pieces)
  /\ \A k \in 1 .. Len(mid) :
       /\ GoodPiece(mid[k]) /\ Apart(mid[k], taken)
       /\ hole.addr <= mid[k].addr /\ mid[k].addr + mid[k].size <= hole.addr + hole.size
  /\ \A k, m \in 1 .. Len(mid) : k < m => mid[k].addr + mid[k].size < mid[m].addr
  /\ \A x \in Int : Has(hole, x) => Has(taken, x) \/ \E k \in 1 .. Len(mid) : Has(mid[k], x)

\* The address that split_hole chooses has the alignment of Hole too.
LEMMA ChosenAligned ==
  ASSUME NEW hole, GoodPiece(hole), NEW l \in Layouts
  PROVE  /\ AlignedAddr(hole, l.align) \in Nat /\ AlignedAddr(hole, l.align) % ALIGN = 0
         /\ hole.addr <= AlignedAddr(hole, l.align)
<1>a. PICK x \in Nat, al \in Nat \ {0} : x = hole.addr /\ al = l.align
  BY HeapAssumption DEF GoodPiece, Pieces
<1>b. PICK a : a = AlignedAddr(hole, al)
  OBVIOUS
<1>1. x = hole.addr /\ al = l.align /\ a = AlignedAddr(hole, al)
  BY <1>a, <1>b, Zenon
<1>2. ALIGN \in Nat \ {0} /\ MIN_ALLOC_SIZE \in Nat \ {0} /\ x % ALIGN = 0
  BY <1>1, HeapEnds, Zenon DEF GoodPiece
<1>3. hole \in [addr : Nat, size : Nat]
  BY Zenon DEF GoodPiece, Pieces
<1>4. a \in Nat /\ a % al = 0 /\ (a = x \/ a >= x + MIN_ALLOC_SIZE)
  BY <1>1, <1>3, ChosenAddress, Zenon
<1>5. CASE a = x
  BY <1>1, <1>2, <1>4, <1>5
<1>6. CASE a # x
  <2>1. AlignUp(x, al) # x
    BY <1>1, <1>6, Zenon DEF AlignedAddr
  <2>2. ASSUME ALIGN % al = 0 PROVE FALSE
    <3>1. x % al = 0
      BY <2>2, <1>2, Multiples, Zenon
    <3>2. /\ x <= AlignUp(x, al) /\ AlignUp(x, al) \in Nat
          /\ \A m \in Nat : m % al = 0 /\ x <= m => AlignUp(x, al) <= m
      BY AlignUpLeast, Zenon
    <3>3. x <= x
      OBVIOUS
    <3>4. AlignUp(x, al) <= x
      BY <3>1, <3>2, <3>3, Zenon
    <3>. QED BY <3>2, <3>4, <2>1
  <2>3. al % ALIGN = 0
    BY <2>2, <1>1, HeapAssumption, Zenon
  <2>4. a % ALIGN = 0
    BY <2>3, <1>2, <1>4, Multiples, Zenon
  <2>5. x <= a
    BY <1>2, <1>4, <1>6
  <2>. QED BY <2>4, <2>5, <1>1, <1>4, Zenon
<1>. QED BY <1>5, <1>6

\* Where split_hole accepts a hole, the allocation and its paddings are such pieces.
LEMMA SplitCutsOut ==
  ASSUME NEW hole, GoodPiece(hole), NEW l \in Layouts, Fits(hole, AlignedSize(l), l.align)
  PROVE  /\ AlignedAddr(hole, l.align) % l.align = 0
         /\ CutsOut(hole, [addr |-> AlignedAddr(hole, l.align), size |-> AlignedSize(l)],
                    Listed(FrontPadding(hole, l.align))
                      \o Listed(BackPadding(hole, AlignedSize(l), l.align)))
<1>1. PICK x \in Nat, n \in Nat, al \in Nat \ {0}, s \in Nat :
        x = hole.addr /\ n = hole.size /\ al = l.align /\ s = AlignedSize(l)
  BY HeapAssumption, SizesGood DEF GoodPiece, Pieces
<1>2. s >= MIN_ALLOC_SIZE /\ s % ALIGN = 0 /\ s > 0
  BY <1>1, SizesGood, HeapEnds
<1>3. PICK a, front, back :
        a = AlignedAddr(hole, al) /\ front = FrontPadding(hole, al) /\ back = BackPadding(hole, s, al)
  OBVIOUS
<1>4. a \in Nat /\ a % ALIGN = 0 /\ x <= a
  BY <1>1, <1>3, ChosenAligned, Zenon
<1>5. hole \in [addr : Nat, size : Nat] /\ Fits(hole, s, al)
  BY <1>1, Zenon DEF GoodPiece, Pieces
<1>6. /\ a % al = 0
      /\ IF a = x THEN front = None
         ELSE front.addr = x /\ front.addr + front.size = a /\ front.size >= MIN_ALLOC_SIZE
      /\ IF a + s = x + n THEN back = None
         ELSE /\ back.addr = a + s /\ back.addr + back.size = x + n
              /\ back.size >= MIN_ALLOC_SIZE
  <2>1. /\ AlignedAddr(hole, al) % al = 0
        /\ IF AlignedAddr(hole, al) = hole.addr THEN FrontPadding(hole, al) = None
           ELSE /\ FrontPadding(hole, al).addr = hole.addr
                /\ FrontPadding(hole, al).addr + FrontPadding(hole, al).size = AlignedAddr(hole, al)
                /\ FrontPadding(hole, al).size >= MIN_ALLOC_SIZE
        /\ IF AlignedAddr(hole, al) + s = hole.addr + hole.size THEN BackPadding(hole, s, al) = None
           ELSE /\ BackPadding(hole, s, al).addr = AlignedAddr(hole, al) + s
                /\ BackPadding(hole, s, al).addr + BackPadding(hole, s, al).size
                     = hole.addr + hole.size
                /\ BackPadding(hole, s, al).size >= MIN_ALLOC_SIZE
    BY <1>5, SplitTiles
  <2>. QED BY <2>1, <1>1, <1>3, Zenon
<1>7. /\ FirstByte <= x /\ x + n <= EndByte /\ x % ALIGN = 0 /\ FirstByte \in Nat /\ EndByte \in Nat
      /\ MIN_ALLOC_SIZE \in Nat \ {0} /\ ALIGN \in Nat \ {0}
  BY <1>1, HeapEnds, Zenon DEF GoodPiece
<1>8. a + s <= x + n
  BY <1>1, <1>3, <1>5, Zenon DEF Fits
<1>9. PICK taken : taken = [addr |-> a, size |-> s]
  BY Zenon
<1>10. /\ GoodPiece(taken) /\ taken.addr = a /\ taken.size = s
  BY <1>2, <1>4, <1>7, <1>8, <1>9 DEF GoodPiece, Pieces
<1>11. a # x => /\ GoodPiece(front) /\ front.addr = x /\ front.addr + front.size = a
                /\ front # None
  <2>. SUFFICES ASSUME a # x PROVE GoodPiece(front) /\ front # None
    BY <1>6, Zenon
  <2>1. front = [addr |-> x, size |-> a - x]
    BY <1>1, <1>3, Zenon DEF FrontPadding
  <2>2. front \in Pieces /\ a - x \in Nat
    BY <2>1, <1>4 DEF Pieces
  <2>3. front.addr = x /\ front.size = a - x /\ front.size >= MIN_ALLOC_SIZE
    BY <2>1, <1>6
  <2>4. x + (a - x) <= EndByte
    BY <1>4, <1>7, <1>8
  <2>5. GoodPiece(front)
    BY <2>2, <2>3, <2>4, <1>7, Zenon DEF GoodPiece
  <2>. QED BY <2>2, <2>5, HeapAssumption, Zenon DEF Pieces
<1>12. a + s # x + n => /\ GoodPiece(back) /\ back.addr = a + s
                        /\ back.addr + back.size = x + n /\ back # None
  <2>. SUFFICES ASSUME a + s # x + n PROVE GoodPiece(back) /\ back # None
    BY <1>6, Zenon
  <2>1. back = [addr |-> a + s, size |-> (x + n) - (a + s)]
    BY <1>1, <1>3, Zenon DEF BackPadding
  <2>2. back \in Pieces /\ (x + n) - (a + s) \in Nat
    BY <2>1, <1>4, <1>8 DEF Pieces
  <2>3. back.addr = a + s /\ back.size >= MIN_ALLOC_SIZE /\ back.addr + back.size = x + n
    BY <1>6, Zenon
  <2>4. (a + s) % ALIGN = 0
    BY <1>2, <1>4, <1>7, Multiples, Zenon
  <2>5. FirstByte <= a + s
    BY <1>4, <1>7
  <2>6. GoodPiece(back)
    BY <2>2, <2>3, <2>4, <2>5, <1>7, Zenon DEF GoodPiece
  <2>. QED BY <2>2, <2>6, HeapAssumption, Zenon DEF Pieces
<1>13. PICK mid : mid = Listed(front) \o Listed(back)
  BY Zenon
<1>14. CutsOut(hole, taken, mid)
  <2>0. hole.addr <= taken.addr /\ taken.addr + taken.size <= hole.addr + hole.size
    BY <1>1, <1>4, <1>8, <1>10, Zenon
  <2>1. CASE a = x /\ a + s = x + n
    <3>1. mid = <<>>
      BY <2>1, <1>6, <1>13 DEF Listed
    <3>2. mid \in Seq(Pieces) /\ Len(mid) = 0 /\ \A k : k \notin 1 .. Len(mid)
      BY <3>1
    <3>3. \A y \in Int : Has(hole, y) => Has(taken, y)
      BY <2>1, <1>1, <1>4, <1>10 DEF Has
    <3>. QED BY <2>0, <3>2, <3>3, <1>10, Zenon DEF CutsOut
  <2>2. CASE a # x /\ a + s = x + n
    <3>1. mid = <<front>>
      BY <2>2, <1>6, <1>11, <1>13 DEF Listed
    <3>2. front \in Pieces /\ GoodPiece(front) /\ front.addr = x /\ front.addr + front.size = a
      BY <2>2, <1>11, Zenon DEF GoodPiece
    <3>3. mid \in Seq(Pieces) /\ \A k \in 1 .. Len(mid) : k = 1 /\ mid[k] = front
      BY <3>1, <3>2
    <3>4. 1 \in 1 .. Len(mid) /\ ~(1 < 1)
      BY <3>1
    <3>5. Apart(front, taken) /\ x <= front.addr /\ front.addr + front.size <= x + n
      BY <3>2, <1>4, <1>8, <1>10 DEF Apart
    <3>6. \A y \in Int : Has(hole, y) => Has(taken, y) \/ Has(front, y)
      BY <2>2, <3>2, <1>1, <1>4, <1>10 DEF Has
    <3>. QED BY <2>0, <3>2, <3>3, <3>4, <3>5, <3>6, <1>1, <1>10, Zenon DEF CutsOut
  <2>3. CASE a = x /\ a + s # x + n
    <3>1. mid = <<back>>
      BY <2>3, <1>6, <1>12, <1>13 DEF Listed
    <3>2. /\ back \in Pieces /\ GoodPiece(back) /\ back.addr = a + s
          /\ back.addr + back.size = x + n
      BY <2>3, <1>12, Zenon DEF GoodPiece
    <3>3. mid \in Seq(Pieces) /\ \A k \in 1 .. Len(mid) : k = 1 /\ mid[k] = back
      BY <3>1, <3>2
    <3>4. 1 \in 1 .. Len(mid) /\ ~(1 < 1)
      BY <3>1
    <3>5. Apart(back, taken) /\ x <= back.addr /\ back.addr + back.size <= x + n
      BY <3>2, <1>4, <1>10 DEF Apart
    <3>6. \A y \in Int : Has(hole, y) => Has(taken, y) \/ Has(back, y)
      BY <2>3, <3>2, <1>1, <1>4, <1>10 DEF Has
    <3>. QED BY <2>0, <3>2, <3>3, <3>4, <3>5, <3>6, <1>1, <1>10, Zenon DEF CutsOut
  <2>4. CASE a # x /\ a + s # x + n
    <3>0. mid = <<front>> \o <<back>>
      BY <2>4, <1>11, <1>12, <1>13, Zenon DEF Listed
    <3>2. /\ front \in Pieces /\ GoodPiece(front) /\ front.addr = x /\ front.addr + front.size = a
          /\ back \in Pieces /\ GoodPiece(back) /\ back.addr = a + s
          /\ back.addr + back.size = x + n
      BY <2>4, <1>11, <1>12, Zenon DEF GoodPiece
    <3>1. PICK s1, s2 : s1 = <<front>> /\ s2 = <<back>> /\ mid = s1 \o s2
      BY <3>0, Zenon
    <3>3. /\ mid \in Seq(Pieces) /\ Len(mid) = 2 /\ mid[1] = front /\ mid[2] = back
      <4>1. /\ s1 \in Seq(Pieces) /\ s2 \in Seq(Pieces) /\ Len(s1) = 1 /\ Len(s2) = 1
            /\ s1[1] = front /\ s2[1] = back
        BY <3>1, <3>2
      <4>2. /\ s1 \o s2 \in Seq(Pieces) /\ Len(s1 \o s2) = Len(s1) + Len(s2)
            /\ \A k \in 1 .. Len(s1) + Len(s2) :
                 (s1 \o s2)[k] = IF k <= Len(s1) THEN s1[k] ELSE s2[k - Len(s1)]
        BY <4>1, ConcatProperties, Zenon
      <4>. QED BY <4>1, <4>2, <3>1
    <3>4. /\ 1 \in 1 .. Len(mid) /\ 2 \in 1 .. Len(mid) /\ ~(1 < 1) /\ ~(2 < 1) /\ ~(2 < 2)
          /\ \A k \in 1 .. Len(mid) : k = 1 \/ k = 2
      BY <3>3
    <3>5. /\ Apart(front, taken) /\ x <= front.addr /\ front.addr + front.size <= x + n
          /\ Apart(back, taken) /\ x <= back.addr /\ back.addr + back.size <= x + n
          /\ front.addr + front.size < back.addr
      BY <3>2, <1>2, <1>4, <1>8, <1>10 DEF Apart
    <3>6. \A y \in Int : Has(hole, y) => Has(taken, y) \/ Has(front, y) \/ Has(back, y)
      BY <3>2, <1>1, <1>4, <1>10 DEF Has
    <3>7. \A k \in 1 .. Len(mid) :
            /\ GoodPiece(mid[k]) /\ Apart(mid[k], taken)
            /\ x <= mid[k].addr /\ mid[k].addr + mid[k].size <= x + n
      BY <3>2, <3>3, <3>4, <3>5, Zenon
    <3>8. \A k, m \in 1 .. Len(mid) : k < m => mid[k].addr + mid[k].size < mid[m].addr
      BY <3>3, <3>4, <3>5, Zenon
    <3>9. \A y \in Int : Has(hole, y) => Has(taken, y) \/ \E k \in 1 .. Len(mid) : Has(mid[k], y)
      BY <3>3, <3>4, <3>6, Zenon
    <3>. QED BY <2>0, <3>3, <3>7, <3>8, <3>9, <1>1, <1>10, Zenon DEF CutsOut
  <2>. QED BY <2>1, <2>2, <2>3, <2>4, Zenon
<1>. QED BY <1>1, <1>3, <1>6, <1>9, <1>13, <1>14, Zenon

\* An allocation is taken out of a hole.
LEMMA AllocateCut ==
  ASSUME Cut, freeing = None, freeing' = None, NEW l \in Layouts, NEW i \in 1 .. Len(holes),
         Fits(holes[i], AlignedSize(l), l.align), NEW b,
         b = [addr |-> AlignedAddr(holes[i], l.align), layout |-> l], blocks' = blocks \cup {b},
         holes' = Split(i, FrontPadding(holes[i], l.align),
                           BackPadding(holes[i], AlignedSize(l), l.align))
  PROVE  /\ Cut' /\ GoodPiece(Span(b))
         /\ \A c \in blocks : Apart(Span(b), Span(c)) /\ Apart(Span(c), Span(b))
<1>1. PICK hole, mid, front, back :
        /\ hole = holes[i] /\ front = FrontPadding(holes[i], l.align)
        /\ back = BackPadding(holes[i], AlignedSize(l), l.align)
        /\ mid = Listed(front) \o Listed(back)
  BY Zenon
<1>2. /\ ListInv /\ BlocksInv /\ Covered /\ holes \in Seq(Pieces)
      /\ \A j \in 1 .. Len(holes) : GoodPiece(holes[j])
      /\ \A j, k \in 1 .. Len(holes) : j < k => holes[j].addr + holes[j].size < holes[k].addr
  BY Zenon DEF Cut, ListInv
<1>3. /\ b.layout = l /\ b.addr = AlignedAddr(hole, l.align)
      /\ Span(b) = [addr |-> AlignedAddr(hole, l.align), size |-> AlignedSize(l)]
  BY <1>1 DEF Span
<1>4. b.addr % b.layout.align = 0 /\ CutsOut(hole, Span(b), mid) /\ GoodPiece(hole)
  BY <1>1, <1>2, <1>3, SplitCutsOut, Zenon
<1>5. PICK taken : taken = Span(b)
  OBVIOUS
<1>6. /\ GoodPiece(taken)
      /\ hole.addr <= taken.addr /\ taken.addr + taken.size <= hole.addr + hole.size
      /\ mid \in Seq(Pieces)
      /\ \A k \in 1 .. Len(mid) :
           /\ GoodPiece(mid[k]) /\ Apart(mid[k], taken)
           /\ hole.addr <= mid[k].addr /\ mid[k].addr + mid[k].size <= hole.addr + hole.size
      /\ \A k, m \in 1 .. Len(mid) : k < m => mid[k].addr + mid[k].size < mid[m].addr
      /\ \A x \in Int : Has(hole, x) => Has(taken, x) \/ \E k \in 1 .. Len(mid) : Has(mid[k], x)
  BY <1>4, <1>5, Zenon DEF CutsOut
<1>7. i \in Nat \ {0} /\ i \in Nat /\ i <= i + 1 /\ i <= Len(holes) /\ Len(holes) \in Nat
  BY <1>2
<1>8. Spliced(holes, holes', i, i, mid)
  <2>1. PICK s, t, f, g : /\ s = SubSeq(holes, 1, i - 1) /\ t = SubSeq(holes, i + 1, Len(holes))
                          /\ f = Listed(front) /\ g = Listed(back)
    BY Zenon
  <2>2. s \in Seq(Pieces)
    BY <2>1, <1>2, <1>7
  <2>3. f \in Seq(Pieces) /\ g \in Seq(Pieces)
    <3>1. front = None \/ front \in Pieces
      <4>1. PICK a : a = AlignedAddr(hole, l.align)
        OBVIOUS
      <4>2. a \in Nat /\ hole.addr <= a /\ hole.addr \in Nat
        BY <4>1, <1>4, ChosenAligned DEF GoodPiece, Pieces
      <4>3. front = None \/ front = [addr |-> hole.addr, size |-> a - hole.addr]
        BY <1>1, <4>1, Zenon DEF FrontPadding
      <4>. QED BY <4>2, <4>3 DEF Pieces
    <3>2. back = None \/ back \in Pieces
      <4>1. PICK e, d : e = AlignedAddr(hole, l.align) + AlignedSize(l) /\ d = hole.addr + hole.size
        OBVIOUS
      <4>2. e \in Nat /\ d \in Nat
        <5>1. hole.addr \in Nat /\ hole.size \in Nat
          BY <1>4, Zenon DEF GoodPiece, Pieces
        <5>2. AlignedAddr(hole, l.align) \in Nat /\ AlignedSize(l) \in Nat
          BY <1>4, ChosenAligned, SizesGood
        <5>3. \A x, y \in Nat : x + y \in Nat
          OBVIOUS
        <5>. QED BY <4>1, <5>1, <5>2, <5>3, Zenon
      <4>3. e <= d
        BY <4>1, <1>1, Zenon DEF Fits
      <4>4. back = None \/ back = [addr |-> e, size |-> d - e]
        BY <1>1, <4>1, Zenon DEF BackPadding
      <4>. QED BY <4>2, <4>3, <4>4 DEF Pieces
    <3>3. \A h : h = None \/ h \in Pieces => Listed(h) \in Seq(Pieces)
      BY DEF Listed
    <3>. QED BY <3>1, <3>2, <3>3, <2>1, Zenon
  <2>4. (s \o f) \o g = s \o mid
    <3>1. (s \o f) \o g = s \o (f \o g)
      BY <2>2, <2>3, PiecesAssociative, Zenon
    <3>. QED BY <3>1, <2>1, <1>1, Zenon
  <2>5. holes' = (s \o mid) \o t
    BY <2>1, <2>4, <1>1, Zenon DEF Split
  <2>6. Spliced(holes, SubSeq(holes, 1, i - 1) \o mid \o SubSeq(holes, i + 1, Len(holes)), i, i, mid)
    BY <1>2, <1>6, <1>7, ThreeParts, Zenon
  <2>. QED BY <2>1, <2>5, <2>6, Zenon
<1>9. \A j \in 1 .. Len(holes) : holes[j].addr \in Nat /\ holes[j].size \in Nat
  <2>1. \A j \in 1 .. Len(holes) : holes[j] \in Pieces
    BY <1>2, Zenon DEF GoodPiece
  <2>. QED BY <2>1 DEF Pieces
<1>10. \A k \in 1 .. Len(mid) : mid[k].addr \in Nat /\ mid[k].size \in Nat
  <2>1. \A k \in 1 .. Len(mid) : mid[k] \in Pieces
    BY <1>6, Zenon DEF GoodPiece
  <2>. QED BY <2>1 DEF Pieces
<1>11. taken.addr \in Nat /\ taken.size \in Nat /\ taken.size > 0
  <2>1. taken \in Pieces /\ taken.size >= MIN_ALLOC_SIZE
    BY <1>6, Zenon DEF GoodPiece
  <2>. QED BY <2>1, HeapEnds DEF Pieces
<1>12. PICK x \in Nat, n \in Nat : x = hole.addr /\ n = hole.size
  BY <1>1, <1>9
<1>13. ASSUME NEW j \in 1 .. Len(holes), NEW h, h.addr \in Nat, h.size \in Nat,
              x <= h.addr, h.addr + h.size <= x + n
       PROVE  /\ j < i => holes[j].addr + holes[j].size < h.addr
              /\ i < j => h.addr + h.size < holes[j].addr
  <2>1. /\ j < i => holes[j].addr + holes[j].size < x
        /\ i < j => x + n < holes[j].addr
    BY <1>1, <1>2, <1>12, Zenon
  <2>2. PICK c \in Nat, k \in Nat, d \in Nat, m \in Nat :
          c = holes[j].addr /\ k = holes[j].size /\ d = h.addr /\ m = h.size
    BY <1>9, <1>13, Zenon
  <2>3. /\ j < i => c + k < x
        /\ i < j => x + n < c
        /\ x <= d /\ d + m <= x + n
    BY <2>1, <2>2, <1>13, Zenon
  <2>4. (j < i => c + k < d) /\ (i < j => d + m < c)
    BY <2>3
  <2>. QED BY <2>2, <2>4, Zenon
<1>14. ListInv'
  <2>1. \A j \in 1 .. Len(holes) : \A k \in 1 .. Len(mid) :
          /\ j < i => holes[j].addr + holes[j].size < mid[k].addr
          /\ i < j => mid[k].addr + mid[k].size < holes[j].addr
    BY <1>6, <1>10, <1>12, <1>13, Zenon
  <2>. QED BY <2>1, <1>2, <1>6, <1>7, <1>8, ListKept, Zenon
<1>15. \A j \in 1 .. Len(holes) : j < i \/ i < j => Apart(holes[j], taken)
  <2>. TAKE j \in 1 .. Len(holes)
  <2>1. /\ j < i => holes[j].addr + holes[j].size < taken.addr
        /\ i < j => taken.addr + taken.size < holes[j].addr
    BY <1>6, <1>11, <1>12, <1>13, Zenon
  <2>. QED BY <2>1, <1>9, <1>11 DEF Apart
<1>16. ASSUME NEW c, GoodPiece(c), Apart(hole, c), NEW h, h.addr \in Nat, h.size \in Nat, h.size > 0,
              x <= h.addr, h.addr + h.size <= x + n
       PROVE  Apart(h, c) /\ Apart(c, h)
  <2>1. PICK d \in Nat, m \in Nat, e \in Nat, k \in Nat :
          d = c.addr /\ m = c.size /\ e = h.addr /\ k = h.size
    BY <1>16 DEF GoodPiece, Pieces
  <2>2. (x + n <= d \/ d + m <= x) /\ x <= e /\ e + k <= x + n
    BY <2>1, <1>12, <1>16, Zenon DEF Apart
  <2>3. e + k <= d \/ d + m <= e
    BY <2>2
  <2>. QED BY <2>1, <2>3, Zenon DEF Apart
<1>17. ASSUME NEW c \in blocks
       PROVE  /\ \A k \in 1 .. Len(mid) : Apart(mid[k], Span(c))
              /\ Apart(taken, Span(c)) /\ Apart(Span(c), taken)
  <2>1. GoodPiece(Span(c)) /\ Apart(hole, Span(c))
    BY <1>1, <1>2, Zenon DEF BlocksInv
  <2>2. \A k \in 1 .. Len(mid) : mid[k].size > 0
    <3>1. \A k \in 1 .. Len(mid) : mid[k].size >= MIN_ALLOC_SIZE
      BY <1>6, Zenon DEF GoodPiece
    <3>. QED BY <3>1, <1>10, HeapEnds
  <2>. QED BY <2>1, <2>2, <1>6, <1>10, <1>11, <1>12, <1>16, Zenon
<1>18. BlocksInv'
  <2>1. ASSUME NEW c \in blocks' PROVE \A j \in 1 .. Len(holes') : Apart(holes'[j], Span(c))
    <3>1. CASE c \in blocks
      <4>1. \A j \in 1 .. Len(holes) : j < i \/ i < j => Apart(holes[j], Span(c))
        BY <3>1, <1>2, Zenon DEF BlocksInv
      <4>2. \A k \in 1 .. Len(mid) : Apart(mid[k], Span(c))
        BY <3>1, <1>17, Zenon
      <4>. QED BY <4>1, <4>2, <1>2, <1>6, <1>7, <1>8, ListApart, Zenon
    <3>2. CASE c = b
      <4>1. \A k \in 1 .. Len(mid) : Apart(mid[k], taken)
        BY <1>6, Zenon
      <4>2. \A j \in 1 .. Len(holes') : Apart(holes'[j], taken)
        BY <4>1, <1>2, <1>6, <1>7, <1>8, <1>15, ListApart, Zenon
      <4>. QED BY <4>2, <3>2, <1>5, Zenon
    <3>. QED BY <3>1, <3>2, Zenon
  <2>2. ASSUME NEW c \in blocks'
        PROVE  c.layout \in Layouts /\ GoodPiece(Span(c)) /\ c.addr % c.layout.align = 0
    BY <1>2, <1>3, <1>4, <1>5, <1>6, Zenon DEF BlocksInv
  <2>3. ASSUME NEW c \in blocks', NEW d \in blocks', c # d PROVE Apart(Span(c), Span(d))
    BY <2>3, <1>2, <1>5, <1>17, Zenon DEF BlocksInv
  <2>. QED BY <2>1, <2>2, <2>3, Zenon DEF BlocksInv, Span
<1>19. Covered'
  <2>1. \A k \in 1 .. Len(holes) : i <= k /\ k <= i => k = i
    BY <1>7
  <2>2. \A y \in Int :
          \/ \E k \in 1 .. Len(holes) : i <= k /\ k <= i /\ Has(holes[k], y)
          \/ \E c \in blocks : Has(Span(c), y)
          \/ freeing # None /\ Has(Hand, y)
          => \/ \E k \in 1 .. Len(mid) : Has(mid[k], y)
             \/ \E c \in blocks' : Has(Span(c), y)
             \/ freeing' # None /\ Has(Hand, y)'
    <3>. TAKE y \in Int
    <3>1. (\E k \in 1 .. Len(holes) : i <= k /\ k <= i /\ Has(holes[k], y))
            => Has(taken, y) \/ \E k \in 1 .. Len(mid) : Has(mid[k], y)
      BY <2>1, <1>1, <1>6, Zenon
    <3>2. Has(taken, y) => \E c \in blocks' : Has(Span(c), y)
      BY <1>5, Zenon
    <3>. QED BY <3>1, <3>2, Zenon
  <2>. QED BY <2>2, <1>6, <1>7, <1>8, StillCovered, Zenon
<1>. QED BY <1>5, <1>6, <1>14, <1>17, <1>18, <1>19, Zenon DEF Cut, HandInv
-----------------------------------------------------------------------------
\* The bytes of a piece, counted, and those of two pieces that are apart.
LEMMA PieceBytes ==
  ASSUME NEW h, GoodPiece(h)
  PROVE  /\ IsFiniteSet(BytesAt(h.addr, h.size)) /\ Cardinality(BytesAt(h.addr, h.size)) = h.size
         /\ \A x : x \in BytesAt(h.addr, h.size) <=> x \in Int /\ Has(h, x)
         /\ BytesAt(h.addr, h.size) \subseteq FirstByte .. EndByte - 1
         /\ \A g : GoodPiece(g) /\ Apart(h, g)
                     => BytesAt(h.addr, h.size) \cap BytesAt(g.addr, g.size) = {}
<1>1. PICK a \in Nat, n \in Nat : a = h.addr /\ n = h.size
  BY DEF GoodPiece, Pieces
<1>2. n > 0 /\ FirstByte <= a /\ a + n <= EndByte /\ FirstByte \in Nat /\ EndByte \in Nat
  <2>1. n >= MIN_ALLOC_SIZE /\ FirstByte <= a /\ a + n <= EndByte
    BY <1>1, Zenon DEF GoodPiece
  <2>. QED BY <2>1, HeapEnds
<1>3. a \in Int /\ (a + n) - 1 \in Int /\ a <= (a + n) - 1 /\ (((a + n) - 1) - a) + 1 = n
  BY <1>2
<1>4. IsFiniteSet(a .. (a + n) - 1) /\ Cardinality(a .. (a + n) - 1) = n
  <2>1. \A u, v \in Int : /\ IsFiniteSet(u .. v)
                          /\ Cardinality(u .. v) = IF u > v THEN 0 ELSE (v - u) + 1
    BY FS_Interval
  <2>2. ~(a > (a + n) - 1)
    BY <1>3
  <2>3. Cardinality(a .. (a + n) - 1) = (((a + n) - 1) - a) + 1
    BY <2>1, <2>2, <1>3, Zenon
  <2>. QED BY <2>1, <2>3, <1>3, Zenon
<1>5. BytesAt(h.addr, h.size) = a .. (a + n) - 1
  <2>1. a + (n - 1) = (a + n) - 1
    OBVIOUS
  <2>. QED BY <2>1, <1>1, Zenon DEF BytesAt
<1>6. \A x : x \in a .. (a + n) - 1 <=> x \in Int /\ Has(h, x)
  BY <1>1 DEF Has
<1>7. a .. (a + n) - 1 \subseteq FirstByte .. EndByte - 1
  BY <1>2
<1>8. ASSUME NEW g, GoodPiece(g), Apart(h, g)
      PROVE  BytesAt(h.addr, h.size) \cap BytesAt(g.addr, g.size) = {}
  <2>1. PICK c \in Nat, m \in Nat : c = g.addr /\ m = g.size
    BY <1>8 DEF GoodPiece, Pieces
  <2>2. a + n <= c \/ c + m <= a
    BY <2>1, <1>1, <1>8, Zenon DEF Apart
  <2>3. (a .. (a + n) - 1) \cap (c .. (c + m) - 1) = {}
    BY <2>2
  <2>4. c + (m - 1) = (c + m) - 1
    OBVIOUS
  <2>. QED BY <2>1, <2>3, <2>4, <1>1, <1>5, Zenon DEF BytesAt
<1>. QED BY <1>1, <1>4, <1>5, <1>6, <1>7, <1>8, Zenon

\* Sizes of a union and of a difference, for the account.
LEMMA SizeOfUnion ==
  ASSUME NEW S, NEW T, IsFiniteSet(S), IsFiniteSet(T), S \cap T = {}
  PROVE  /\ IsFiniteSet(S \cup T) /\ Cardinality(S \cup T) = Cardinality(S) + Cardinality(T)
         /\ Cardinality(S) \in Nat /\ Cardinality(T) \in Nat
<1>1. Cardinality(S) \in Nat /\ Cardinality(T) \in Nat
  BY FS_CardinalityType
<1>2. IsFiniteSet(S \cup T)
      /\ Cardinality(S \cup T) = Cardinality(S) + Cardinality(T) - Cardinality(S \cap T)
  BY FS_Union
<1>3. Cardinality(S \cap T) = 0
  BY FS_EmptySet
<1>. QED BY <1>1, <1>2, <1>3

\* A block that is apart from the others adds its size to what is occupied.
LEMMA OccupiedGrows ==
  ASSUME NEW B, NEW b, GoodPiece(Span(b)), \A c \in B : GoodPiece(Span(c)),
         \A c \in B : Apart(Span(b), Span(c))
  PROVE  LET all(C) == UNION {BlockBytes(c) : c \in C}
         IN  /\ Cardinality(all(B \cup {b})) = Cardinality(all(B)) + AlignedSize(b.layout)
             /\ Cardinality(all(B)) \in Nat /\ AlignedSize(b.layout) \in Nat
<1>1. PICK S, T : S = UNION {BlockBytes(c) : c \in B} /\ T = BlockBytes(b)
  BY Zenon
<1>2. \A c : BlockBytes(c) = BytesAt(Span(c).addr, Span(c).size)
  BY DEF BlockBytes, Span
<1>3. IsFiniteSet(T) /\ Cardinality(T) = AlignedSize(b.layout)
  <2>1. Span(b).size = AlignedSize(b.layout)
    BY DEF Span
  <2>2. /\ IsFiniteSet(BytesAt(Span(b).addr, Span(b).size))
        /\ Cardinality(BytesAt(Span(b).addr, Span(b).size)) = Span(b).size
    BY PieceBytes, Zenon
  <2>. QED BY <2>1, <2>2, <1>1, <1>2, Zenon
<1>4. IsFiniteSet(S)
  <2>1. \A c \in B : BlockBytes(c) \subseteq FirstByte .. EndByte - 1
    BY <1>2, PieceBytes, Zenon
  <2>2. S \subseteq FirstByte .. EndByte - 1
    BY <2>1, <1>1, Zenon
  <2>3. IsFiniteSet(FirstByte .. EndByte - 1)
    <3>1. FirstByte \in Int /\ EndByte - 1 \in Int
      BY HeapEnds
    <3>. QED BY <3>1, FS_Interval, Zenon
  <2>. QED BY <2>2, <2>3, FS_Subset, Zenon
<1>5. S \cap T = {}
  <2>1. \A c \in B : BlockBytes(b) \cap BlockBytes(c) = {}
    BY <1>2, PieceBytes, Zenon
  <2>2. ASSUME NEW x, x \in S, x \in T PROVE FALSE
    <3>1. PICK c \in B : x \in BlockBytes(c)
      BY <2>2, <1>1, Zenon
    <3>. QED BY <2>1, <2>2, <3>1, <1>1, Zenon
  <2>. QED BY <2>2, Zenon
<1>6. UNION {BlockBytes(c) : c \in B \cup {b}} = S \cup T
  BY <1>1, Zenon
<1>7. /\ Cardinality(S \cup T) = Cardinality(S) + Cardinality(T)
      /\ Cardinality(S) \in Nat /\ Cardinality(T) \in Nat
  BY <1>3, <1>4, <1>5, SizeOfUnion, Zenon
<1>. QED BY <1>1, <1>3, <1>6, <1>7, Zenon
-----------------------------------------------------------------------------
\* The heap starts as one hole.
LEMMA HeapStarts == HeapInit => HeapIInv
<1>. SUFFICES ASSUME HeapInit PROVE HeapIInv
  OBVIOUS
<1>1. PICK hole : hole = [addr |-> FirstByte, size |-> EndByte - FirstByte]
  BY Zenon
<1>2. holes = <<hole>> /\ blocks = {} /\ freeing = None /\ used = 0 /\ outcome = "init"
  BY <1>1, Zenon DEF HeapInit
<1>3. GoodPiece(hole)
  BY <1>1, HeapEnds DEF GoodPiece, Pieces
<1>4. hole \in Pieces
  BY <1>3, Zenon DEF GoodPiece
<1>5. /\ holes \in Seq(Pieces) /\ 1 \in 1 .. Len(holes) /\ ~(1 < 1)
      /\ \A i \in 1 .. Len(holes) : i = 1 /\ holes[i] = hole
  BY <1>2, <1>4
<1>6. ListInv
  BY <1>3, <1>5, Zenon DEF ListInv
<1>7. Covered
  <2>1. \A x \in FirstByte .. EndByte - 1 : Has(hole, x)
    BY <1>1, HeapEnds DEF Has
  <2>. QED BY <2>1, <1>5, Zenon DEF Covered
<1>8. Account
  <2>1. Occupied = {}
    BY <1>2, Zenon DEF Occupied
  <2>2. Cardinality(Occupied) = 0
    BY <2>1, FS_EmptySet
  <2>. QED BY <2>2, <1>2 DEF Account
<1>. QED BY <1>2, <1>6, <1>7, <1>8 DEF HeapIInv, Cut, BlocksInv, HandInv

\* Every call, and every iteration of `deallocate`, keeps the invariant.
LEMMA HeapKept == HeapIInv /\ [HeapNext]_heapVars => HeapIInv'
<1>. SUFFICES ASSUME HeapIInv, [HeapNext]_heapVars PROVE HeapIInv'
  OBVIOUS
<1>1. Cut /\ Account /\ outcome # "panic"
  BY Zenon DEF HeapIInv
<1>2. \A c \in blocks : GoodPiece(Span(c))
  BY <1>1, Zenon DEF Cut, BlocksInv
<1>3. ASSUME NEW l \in Layouts, AllocateFirstFit(l) PROVE HeapIInv'
  <2>a. PICK i \in 1 .. Len(holes) :
          /\ freeing = None /\ Fits(holes[i], AlignedSize(l), l.align)
          /\ holes' = Split(i, FrontPadding(holes[i], l.align),
                               BackPadding(holes[i], AlignedSize(l), l.align))
          /\ blocks' = blocks \cup {[addr |-> AlignedAddr(holes[i], l.align), layout |-> l]}
          /\ used' = used + AlignedSize(l) /\ outcome' = "ok" /\ freeing' = freeing
    BY <1>3, Zenon DEF AllocateFirstFit
  <2>b. PICK b : b = [addr |-> AlignedAddr(holes[i], l.align), layout |-> l]
    BY Zenon
  <2>1. /\ freeing = None /\ Fits(holes[i], AlignedSize(l), l.align)
        /\ holes' = Split(i, FrontPadding(holes[i], l.align),
                             BackPadding(holes[i], AlignedSize(l), l.align))
        /\ b = [addr |-> AlignedAddr(holes[i], l.align), layout |-> l]
        /\ blocks' = blocks \cup {b} /\ used' = used + AlignedSize(l)
        /\ outcome' = "ok" /\ freeing' = freeing
    BY <2>a, <2>b, Zenon
  <2>2. /\ Cut' /\ GoodPiece(Span(b)) /\ \A c \in blocks : Apart(Span(b), Span(c))
    BY <2>1, <1>1, AllocateCut, Zenon
  <2>3. /\ Cardinality(Occupied') = Cardinality(Occupied) + AlignedSize(b.layout)
        /\ Cardinality(Occupied) \in Nat /\ AlignedSize(b.layout) \in Nat
    BY <2>1, <2>2, <1>2, OccupiedGrows, Zenon DEF Occupied, BlockBytes
  <2>4. b.layout = l
    BY <2>1
  <2>5. used = Cardinality(Occupied)
    <3>1. used = Cardinality(Occupied) + 0
      BY <2>1, <1>1, Zenon DEF Account
    <3>. QED BY <3>1, <2>3
  <2>6. used' = Cardinality(Occupied') + 0
    BY <2>1, <2>3, <2>4, <2>5
  <2>. QED BY <2>1, <2>2, <2>6, Zenon DEF HeapIInv, Account
<1>4. ASSUME NEW b \in blocks, Release(b) PROVE HeapIInv'
  <2>1. Cut' /\ freeing' # None
    BY <1>1, <1>4, ReleaseCut, Zenon
  <2>2. /\ freeing = None /\ blocks' = blocks \ {b} /\ used' = used /\ outcome' = outcome
        /\ freeing'.freed = AlignedSize(b.layout)
    BY <1>4 DEF Release
  <2>3. \A c \in blocks \ {b} : Apart(Span(b), Span(c))
    BY <1>1, Zenon DEF Cut, BlocksInv
  <2>4. blocks = (blocks \ {b}) \cup {b}
    BY Zenon
  <2>5. /\ Cardinality(UNION {BlockBytes(c) : c \in (blocks \ {b}) \cup {b}})
             = Cardinality(UNION {BlockBytes(c) : c \in blocks \ {b}}) + AlignedSize(b.layout)
        /\ Cardinality(UNION {BlockBytes(c) : c \in blocks \ {b}}) \in Nat
        /\ AlignedSize(b.layout) \in Nat
    BY <2>3, <1>2, OccupiedGrows, Zenon
  <2>6. /\ Cardinality(Occupied) = Cardinality(Occupied') + AlignedSize(b.layout)
        /\ Cardinality(Occupied') \in Nat
    BY <2>2, <2>4, <2>5, Zenon DEF Occupied, BlockBytes
  <2>7. used = Cardinality(Occupied) + 0
    BY <2>2, <1>1, Zenon DEF Account
  <2>8. used' = Cardinality(Occupied') + AlignedSize(b.layout)
    BY <2>2, <2>5, <2>6, <2>7
  <2>. QED BY <2>1, <2>2, <2>8, <1>1, Zenon DEF HeapIInv, Account
<1>5. ASSUME freeing # None, Iterate PROVE HeapIInv'
  <2>1. BlockIsFreeable /\ freeing \in [at : Nat, addr : Nat, size : Nat, freed : Nat]
    BY <1>1, <1>5, HandFacts, Zenon
  <2>2. FillsGap \/ GrowsHole \/ TakesNext \/ GoesOn \/ BecomesHole
    BY <2>1, <1>5, Zenon DEF Iterate
  <2>3. Cardinality(Occupied) \in Nat
    <3>1. IsFiniteSet(FirstByte .. EndByte - 1)
      <4>1. FirstByte \in Int /\ EndByte - 1 \in Int
        BY HeapEnds
      <4>. QED BY <4>1, FS_Interval, Zenon
    <3>2. \A c : BlockBytes(c) = BytesAt(Span(c).addr, Span(c).size)
      BY DEF BlockBytes, Span
    <3>3. \A c \in blocks : BlockBytes(c) \subseteq FirstByte .. EndByte - 1
      BY <3>2, <1>2, PieceBytes, Zenon
    <3>4. Occupied \subseteq FirstByte .. EndByte - 1
      BY <3>3, Zenon DEF Occupied
    <3>. QED BY <3>1, <3>4, FS_Subset, FS_CardinalityType, Zenon
  <2>4. blocks' = blocks => Occupied' = Occupied
    BY Zenon DEF Occupied, BlockBytes
  <2>5. used = Cardinality(Occupied) + freeing.freed
    BY <1>1, <1>5, Zenon DEF Account
  <2>6. ASSUME NEW list, Freed(list), Cut' PROVE HeapIInv'
    <3>1. /\ used' = used - freeing.freed /\ freeing' = None /\ outcome' = "ok"
          /\ blocks' = blocks
      BY <2>6, Zenon DEF Freed
    <3>2. used' = Cardinality(Occupied) + 0
      BY <3>1, <2>1, <2>3, <2>5
    <3>. QED BY <3>1, <3>2, <2>4, <2>6, Zenon DEF HeapIInv, Account
  <2>7. ASSUME Cut', freeing' # None, freeing'.freed = freeing.freed, blocks' = blocks,
               used' = used, outcome' = outcome
        PROVE  HeapIInv'
    BY <2>4, <2>5, <2>7, <1>1, Zenon DEF HeapIInv, Account
  <2>8. CASE FillsGap
    BY <2>6, <2>8, <1>1, <1>5, FillsGapCut, Zenon DEF FillsGap
  <2>9. CASE GrowsHole
    BY <2>6, <2>9, <1>1, <1>5, GrowsHoleCut, Zenon DEF GrowsHole
  <2>10. CASE TakesNext
    <3>1. Cut' /\ freeing' # None
      BY <2>10, <1>1, <1>5, TakesNextCut, Zenon
    <3>2. /\ freeing' = [freeing EXCEPT !.size = @ + NextHole.size] /\ blocks' = blocks
          /\ used' = used /\ outcome' = outcome
      BY <2>10, Zenon DEF TakesNext
    <3>3. freeing'.freed = freeing.freed
      BY <3>2, <2>1
    <3>. QED BY <3>1, <3>2, <3>3, <2>7, Zenon
  <2>11. CASE GoesOn
    <3>1. Cut' /\ freeing' # None
      BY <2>11, <1>1, <1>5, GoesOnCut, Zenon
    <3>2. /\ freeing' = [freeing EXCEPT !.at = @ + 1] /\ blocks' = blocks
          /\ used' = used /\ outcome' = outcome
      BY <2>11, Zenon DEF GoesOn
    <3>3. freeing'.freed = freeing.freed
      BY <3>2, <2>1
    <3>. QED BY <3>1, <3>2, <3>3, <2>7, Zenon
  <2>12. CASE BecomesHole
    <3>1. Cut' /\ outcome' # "panic"
      BY <2>12, <1>1, <1>5, BecomesHoleCut, Zenon
    <3>. QED BY <3>1, <2>6, <2>12, Zenon DEF BecomesHole, Panics
  <2>. QED BY <2>2, <2>8, <2>9, <2>10, <2>11, <2>12, Zenon
<1>6. ASSUME UNCHANGED <<used, holes, blocks, freeing>>, outcome' # "panic" PROVE HeapIInv'
  <2>1. used' = used /\ holes' = holes /\ blocks' = blocks /\ freeing' = freeing
    BY <1>6, Zenon
  <2>2. ListInv' /\ BlocksInv'
    BY <2>1, <1>1, Zenon DEF Cut, ListInv, BlocksInv, Span
  <2>3. HandInv'
    BY <2>1, <1>1, Zenon DEF Cut, HandInv, Hand, Span, EndOf
  <2>4. Covered'
    BY <2>1, <1>1, Zenon DEF Cut, Covered, Hand, Span, Has
  <2>5. Account'
    BY <2>1, <1>1, Zenon DEF Account, Occupied, BlockBytes
  <2>. QED BY <2>2, <2>3, <2>4, <2>5, <1>6, Zenon DEF HeapIInv, Cut
<1>7. ASSUME NEW l \in Layouts, AllocateFails(l) PROVE HeapIInv'
  BY <1>6, <1>7 DEF AllocateFails
<1>8. CASE UNCHANGED heapVars
  BY <1>1, <1>6, <1>8 DEF heapVars
<1>9. Iterate => freeing # None
  BY Zenon DEF Iterate
<1>. QED BY <1>3, <1>4, <1>5, <1>7, <1>8, <1>9, Zenon DEF HeapNext

\* What the invariant says of the bytes.
LEMMA IInvTiles == HeapIInv => HeapInv
<1>. SUFFICES ASSUME HeapIInv PROVE HeapInv
  OBVIOUS
<1>1. ListInv /\ BlocksInv /\ HandInv /\ Covered /\ Account /\ outcome # "panic"
  BY Zenon DEF HeapIInv, Cut
<1>2. /\ holes \in Seq(Pieces) /\ \A i \in 1 .. Len(holes) : GoodPiece(holes[i])
      /\ \A i, j \in 1 .. Len(holes) : i < j => holes[i].addr + holes[i].size < holes[j].addr
  BY <1>1, Zenon DEF ListInv
<1>3. /\ \A b \in blocks : GoodPiece(Span(b)) /\ b.addr % b.layout.align = 0
      /\ \A b, c \in blocks : b # c => Apart(Span(b), Span(c))
      /\ \A b \in blocks : \A i \in 1 .. Len(holes) : Apart(holes[i], Span(b))
  BY <1>1, Zenon DEF BlocksInv
<1>4. /\ \A b : BlockBytes(b) = BytesAt(Span(b).addr, Span(b).size)
      /\ freeing # None => InHand = BytesAt(Hand.addr, Hand.size)
      /\ \A b : Span(b).addr = b.addr
  BY DEF BlockBytes, Span, InHand, Hand
<1>5. \A b, c \in blocks : b # c => BlockBytes(b) \cap BlockBytes(c) = {}
  BY <1>3, <1>4, PieceBytes, Zenon
<1>6. \A b \in blocks : b.addr % b.layout.align = 0 /\ b.addr % ALIGN = 0
  BY <1>3, <1>4, Zenon DEF GoodPiece
<1>7. Free \cap Occupied = {}
  <2>1. \A i \in 1 .. Len(holes) : \A b \in blocks : HoleBytes(i) \cap BlockBytes(b) = {}
    BY <1>2, <1>3, <1>4, PieceBytes, Zenon DEF HoleBytes
  <2>2. ASSUME NEW x, x \in Free, x \in Occupied PROVE FALSE
    <3>1. PICK i \in 1 .. Len(holes) : x \in HoleBytes(i)
      BY <2>2, Zenon DEF Free
    <3>2. PICK b \in blocks : x \in BlockBytes(b)
      BY <2>2, Zenon DEF Occupied
    <3>. QED BY <2>1, <3>1, <3>2, Zenon
  <2>. QED BY <2>2, Zenon
<1>8. InHand \cap (Free \cup Occupied) = {}
  <2>1. CASE freeing = None
    BY <2>1, Zenon DEF InHand
  <2>2. CASE freeing # None
    <3>1. /\ GoodPiece(Hand) /\ \A i \in 1 .. Len(holes) : Apart(holes[i], Hand)
          /\ \A b \in blocks : Apart(Hand, Span(b))
      BY <2>2, <1>1, Zenon DEF HandInv
    <3>2. \A i \in 1 .. Len(holes) : HoleBytes(i) \cap InHand = {}
      BY <2>2, <3>1, <1>2, <1>4, PieceBytes, Zenon DEF HoleBytes
    <3>3. \A b \in blocks : InHand \cap BlockBytes(b) = {}
      BY <2>2, <3>1, <1>3, <1>4, PieceBytes, Zenon
    <3>4. InHand \cap Free = {}
      BY <3>2, Zenon DEF Free
    <3>5. InHand \cap Occupied = {}
      BY <3>3, Zenon DEF Occupied
    <3>. QED BY <3>4, <3>5, Zenon
  <2>. QED BY <2>1, <2>2, Zenon
<1>9. Free \cup Occupied \cup InHand = FirstByte .. EndByte - 1
  <2>1. \A i \in 1 .. Len(holes) :
          /\ HoleBytes(i) \subseteq FirstByte .. EndByte - 1
          /\ \A x \in Int : Has(holes[i], x) => x \in HoleBytes(i)
    BY <1>2, PieceBytes, Zenon DEF HoleBytes
  <2>2. \A b \in blocks :
          /\ BlockBytes(b) \subseteq FirstByte .. EndByte - 1
          /\ \A x \in Int : Has(Span(b), x) => x \in BlockBytes(b)
    BY <1>3, <1>4, PieceBytes, Zenon
  <2>3. /\ InHand \subseteq FirstByte .. EndByte - 1
        /\ \A x \in Int : freeing # None /\ Has(Hand, x) => x \in InHand
    <3>1. CASE freeing = None
      BY <3>1, Zenon DEF InHand
    <3>2. CASE freeing # None
      <4>1. GoodPiece(Hand)
        BY <3>2, <1>1, Zenon DEF HandInv
      <4>. QED BY <3>2, <4>1, <1>4, PieceBytes, Zenon
    <3>. QED BY <3>1, <3>2, Zenon
  <2>4. \A x \in FirstByte .. EndByte - 1 : x \in Int
    BY HeapEnds
  <2>5. Free \cup Occupied \cup InHand \subseteq FirstByte .. EndByte - 1
    BY <2>1, <2>2, <2>3, Zenon DEF Free, Occupied
  <2>6. ASSUME NEW x \in FirstByte .. EndByte - 1 PROVE x \in Free \cup Occupied \cup InHand
    <3>1. \/ \E i \in 1 .. Len(holes) : Has(holes[i], x)
          \/ \E b \in blocks : Has(Span(b), x)
          \/ freeing # None /\ Has(Hand, x)
      BY <1>1, Zenon DEF Covered
    <3>. QED BY <3>1, <2>1, <2>2, <2>3, <2>4, Zenon DEF Free, Occupied
  <2>. QED BY <2>5, <2>6, Zenon
<1>10. \A i \in 1 .. Len(holes) : holes[i].size >= MIN_ALLOC_SIZE
  BY <1>2, Zenon DEF GoodPiece
<1>11. \A i \in 1 .. Len(holes) - 1 : EndOf(i) < holes[i + 1].addr
  <2>. TAKE i \in 1 .. Len(holes) - 1
  <2>1. i \in 1 .. Len(holes) /\ i + 1 \in 1 .. Len(holes) /\ i < i + 1 /\ i # 0
    BY <1>2
  <2>. QED BY <2>1, <1>2, Zenon DEF EndOf
<1>. QED BY <1>1, <1>5, <1>6, <1>7, <1>8, <1>9, <1>10, <1>11, Zenon DEF HeapInv, Tiled, Account

\* The heap is right: whatever is allocated and released, in whatever order, after
\* every call and every iteration of `deallocate` the allocations, the holes and the
\* block being released cut the heap into pieces, the holes are in order and never
\* touch, Heap::used is right and no assertion fails.
THEOREM HeapCorrect == HeapSpec => []HeapInv
<1>1. HeapSpec => []HeapIInv
  BY HeapStarts, HeapKept, PTL DEF HeapSpec
<1>. QED BY <1>1, IInvTiles, PTL

\* allocate_first_fit gives up only when no hole has a place for the layout.
THEOREM GivesUpOnlyWhenFull == HeapSpec => []NoPlaceMissed
<1>1. HeapIInv => NoPlaceMissed
  <2>. SUFFICES ASSUME HeapIInv, NEW i \in 1 .. Len(holes), NEW l \in Layouts,
                       Placeable(holes[i], AlignedSize(l), l.align)
                PROVE  Fits(holes[i], AlignedSize(l), l.align)
    BY Zenon DEF NoPlaceMissed
  <2>1. GoodPiece(holes[i])
    BY Zenon DEF HeapIInv, Cut, ListInv
  <2>2. PICK h, s, al : h = holes[i] /\ s = AlignedSize(l) /\ al = l.align
    OBVIOUS
  <2>3. h \in [addr : Nat, size : Nat] /\ s \in Nat /\ al \in Nat \ {0}
    BY <2>1, <2>2, SizesGood, HeapAssumption, Zenon DEF GoodPiece, Pieces
  <2>4. h.addr % al = 0 \/ al >= MIN_ALLOC_SIZE
    <3>1. h.addr \in Nat /\ h.addr % ALIGN = 0 /\ ALIGN \in Nat \ {0}
      BY <2>1, <2>2, <2>3, HeapEnds DEF GoodPiece
    <3>2. ALIGN % al = 0 \/ al >= MIN_ALLOC_SIZE
      BY <2>2, HeapAssumption, Zenon
    <3>3. ALIGN % al = 0 => h.addr % al = 0
      BY <3>1, <2>3, Multiples, Zenon
    <3>. QED BY <3>2, <3>3, Zenon
  <2>. QED BY <2>2, <2>3, <2>4, SplitMissesNoPlace, Zenon
<1>2. HeapSpec => []HeapIInv
  BY HeapStarts, HeapKept, PTL DEF HeapSpec
<1>. QED BY <1>1, <1>2, PTL
=============================================================================
