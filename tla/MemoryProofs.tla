---------------------------- MODULE MemoryProofs ----------------------------
(***************************************************************************)
(* Address spaces are correct for every number of frames and of processes  *)
(* and every size of object, stack and heap.  First the kernel's mappings  *)
(* on their own (KernelMappings), then the frames behind them (Memory).    *)
(***************************************************************************)
EXTENDS Memory, FiniteSetTheorems, WellFoundedInduction, TLAPS

USE MappingAssumption

\* The invariant holds at boot: nothing is mapped.
LEMMA MapInitInv == MapInit => MappingInv
  BY DEF MapInit, MappingInv, RangesOK, BelowOffset, Separate, Pages

\* KernelMapping::new takes pages that nobody had.
LEMMA NewInv == ASSUME NEW n \in Nat \ {0}, MappingInv, New(n) PROVE MappingInv'
<1> DEFINE k == [start |-> offset, end |-> offset + n]
<1>1. n \in Nat /\ n > 0 /\ offset \in Nat /\ offset' = offset + n
  BY DEF MappingInv, RangesOK, New, Advance
<1>2. k \in [start : Nat, end : Nat] /\ k.start = offset /\ k.end = offset + n
  BY <1>1
<1>3. live' = live \cup {k} /\ mapped' = mapped \cup Pages(offset, offset + n)
  BY DEF New
<1> HIDE DEF k
<1>4. RangesOK' /\ KERNEL_MAPPING_BASE <= offset' /\ (\A m \in live' : m.start < m.end)
  BY <1>1, <1>2, <1>3 DEF MappingInv, RangesOK, Pages
<1>5. BelowOffset'
  BY <1>1, <1>2, <1>3 DEF MappingInv, RangesOK, BelowOffset, Pages
<1>6. \A m \in live : PagesOf(m) \cap PagesOf(k) = {}
  BY <1>1, <1>2 DEF MappingInv, RangesOK, BelowOffset, Separate, Pages, PagesOf
<1>7. PagesOf(k) \subseteq mapped'
  BY <1>2, <1>3 DEF PagesOf
<1>8. Separate'
  BY <1>3, <1>6, <1>7 DEF MappingInv, Separate, PagesOf
<1> QED BY <1>4, <1>5, <1>8 DEF MappingInv

\* An extension that succeeds takes pages that nobody had.
LEMMA ExtendInv ==
  ASSUME NEW m \in live, NEW n \in Nat \ {0}, MappingInv, Extend(m, n) PROVE MappingInv'
<1> DEFINE k == [start |-> m.start, end |-> m.end + n]
<1>1. n \in Nat /\ n > 0 /\ offset \in Nat /\ offset' = offset + n
  BY DEF MappingInv, RangesOK, Extend, Advance
<1>2. /\ m.start \in Nat /\ m.end \in Nat /\ m.start < m.end /\ m.end <= offset
  BY DEF MappingInv, RangesOK, BelowOffset
<1>3. k \in [start : Nat, end : Nat] /\ k.start = m.start /\ k.end = m.end + n
  BY <1>1, <1>2
<1>4. /\ live' = (live \ {m}) \cup {k}
      /\ mapped' = mapped \cup Pages(m.end, m.end + n)
      /\ Pages(m.end, m.end + n) \cap mapped = {}
  BY DEF Extend, Extended
<1> HIDE DEF k
<1>5. RangesOK' /\ KERNEL_MAPPING_BASE <= offset' /\ (\A l \in live' : l.start < l.end)
  <2>1. offset' \in Nat /\ KERNEL_MAPPING_BASE <= offset'
    BY <1>1 DEF MappingInv
  <2>2. mapped' \in SUBSET Nat
    <3>1. Pages(m.end, m.end + n) \subseteq Nat
      BY <1>1, <1>2 DEF Pages
    <3> QED BY <3>1, <1>4, Zenon DEF MappingInv, RangesOK
  <2>3. live' \in SUBSET [start : Nat, end : Nat]
    BY <1>3, <1>4 DEF MappingInv, RangesOK
  <2>4. k.start < k.end
    BY <1>1, <1>2, <1>3
  <2>5. \A l \in live' : l.start < l.end
    BY <1>4, <2>4 DEF MappingInv
  <2> QED BY <2>1, <2>2, <2>3, <2>5 DEF RangesOK
<1>6. BelowOffset'
  <2>1. mapped' \subseteq Pages(KERNEL_MAPPING_BASE, offset')
    <3>1. PagesOf(m) # {} /\ PagesOf(m) \subseteq Pages(KERNEL_MAPPING_BASE, offset)
      BY <1>2 DEF MappingInv, BelowOffset, Separate, PagesOf, Pages
    <3>2. KERNEL_MAPPING_BASE <= m.end
      BY <3>1, <1>1, <1>2 DEF PagesOf, Pages
    <3>3. Pages(m.end, m.end + n) \subseteq Pages(KERNEL_MAPPING_BASE, offset')
      BY <3>2, <1>1, <1>2 DEF Pages
    <3>4. mapped \subseteq Pages(KERNEL_MAPPING_BASE, offset')
      BY <1>1 DEF MappingInv, BelowOffset, Pages
    <3> QED BY <3>3, <3>4, <1>4
  <2>2. \A l \in live' : l.end <= offset'
    BY <1>1, <1>2, <1>3, <1>4 DEF MappingInv, RangesOK, BelowOffset
  <2> QED BY <2>1, <2>2 DEF BelowOffset
<1>7. PagesOf(k) = PagesOf(m) \cup Pages(m.end, m.end + n)
  BY <1>1, <1>2, <1>3 DEF PagesOf, Pages
<1>8. \A l \in live \ {m} : PagesOf(l) \cap PagesOf(k) = {} /\ PagesOf(l) \subseteq mapped
  BY <1>4, <1>7 DEF MappingInv, Separate
<1>9. PagesOf(k) \subseteq mapped'
  BY <1>4, <1>7 DEF MappingInv, Separate
<1>10. Separate'
  BY <1>4, <1>8, <1>9 DEF MappingInv, Separate, PagesOf
<1> QED BY <1>5, <1>6, <1>10 DEF MappingInv

\* One that fails leaves pages mapped that belong to no mapping, all of them below
\* the offset.
LEMMA ExtendFailsInv ==
  ASSUME NEW m \in live, NEW n \in Nat \ {0}, MappingInv, ExtendFails(m, n)
  PROVE  MappingInv'
<1>1. n \in Nat /\ n > 0 /\ offset \in Nat /\ offset' = offset + n /\ live' = live
  BY DEF MappingInv, RangesOK, ExtendFails, Advance
<1>2. m.start \in Nat /\ m.end \in Nat /\ m.start < m.end /\ m.end <= offset
  BY DEF MappingInv, RangesOK, BelowOffset
<1>3. mapped \subseteq mapped' /\ mapped' \subseteq mapped \cup Pages(m.end, m.end + n)
  BY DEF ExtendFails, Prefix
<1>4. KERNEL_MAPPING_BASE <= m.end
  <2>1. PagesOf(m) # {} /\ PagesOf(m) \subseteq Pages(KERNEL_MAPPING_BASE, offset)
    BY <1>2 DEF MappingInv, BelowOffset, Separate, PagesOf, Pages
  <2> QED BY <2>1, <1>1, <1>2 DEF PagesOf, Pages
<1>5. RangesOK' /\ KERNEL_MAPPING_BASE <= offset' /\ (\A l \in live' : l.start < l.end)
  BY <1>1, <1>2, <1>3 DEF MappingInv, RangesOK, Pages
<1>6. BelowOffset'
  BY <1>1, <1>2, <1>3, <1>4 DEF MappingInv, RangesOK, BelowOffset, Pages
<1>7. Separate'
  BY <1>1, <1>3 DEF MappingInv, Separate, PagesOf
<1> QED BY <1>5, <1>6, <1>7 DEF MappingInv

\* A mapping that is dropped leaves its pages mapped.
LEMMA ForgetInv == ASSUME NEW m, MappingInv, Forget(m) PROVE MappingInv'
  BY DEF Forget, MappingInv, RangesOK, BelowOffset, Separate, PagesOf

\* The invariant of the kernel's mappings, for every bound and every set of lengths.
THEOREM MappingsCorrect == MapSpec => []MappingInv
<1>1. MappingInv /\ [MapNext]_mappingVars => MappingInv'
  <2> SUFFICES ASSUME MappingInv, [MapNext]_mappingVars PROVE MappingInv'
    OBVIOUS
  <2>1. CASE \E n \in Lengths : New(n)
    BY <2>1, NewInv
  <2>2. CASE \E m \in live : \E n \in Lengths : Extend(m, n)
    BY <2>2, ExtendInv
  <2>3. CASE \E m \in live : \E n \in Lengths : ExtendFails(m, n)
    BY <2>3, ExtendFailsInv
  <2>4. CASE \E m \in live : Forget(m)
    BY <2>4, ForgetInv
  <2>5. CASE UNCHANGED mappingVars
    BY <2>5 DEF mappingVars, MappingInv, RangesOK, BelowOffset, Separate, PagesOf
  <2> QED BY <2>1, <2>2, <2>3, <2>4, <2>5 DEF MapNext
<1> QED BY <1>1, MapInitInv, PTL DEF MapSpec

\* KernelMapping::new never meets a mapped page.
THEOREM NewMeetsNoMapping == MapSpec => []BelowOffset
<1>1. MappingInv => BelowOffset
  BY DEF MappingInv
<1> QED BY <1>1, MappingsCorrect, PTL

\* No kernel page belongs to two mappings.
THEOREM MappingsSeparate == MapSpec => []Separate
<1>1. MappingInv => Separate
  BY DEF MappingInv
<1> QED BY <1>1, MappingsCorrect, PTL
-----------------------------------------------------------------------------
(* The frames that the allocator hands out.                                  *)

USE MemoryAssumption

\* Frames are natural numbers, and finitely many.
LEMMA FreeFinite ==
  ASSUME NEW S \in SUBSET Frames
  PROVE  IsFiniteSet(S) /\ Cardinality(S) \in Nat /\ S \subseteq Nat
<1>1. IsFiniteSet(Frames)
  BY FS_Interval DEF Frames
<1>2. Frames \subseteq Nat
  BY DEF Frames
<1>. QED BY <1>1, <1>2, FS_Subset, FS_CardinalityType, Zenon

\* A set of numbers that is not empty has a least one.
LEMMA Least ==
  ASSUME NEW S, S \subseteq Nat, S # {}
  PROVE  \E f \in S : \A g \in S : f <= g
<1>. DEFINE R == {ss \in Nat \X Nat : ss[1] < ss[2]}
<1>1. IsWellFoundedOn(R, Nat)
  BY NatLessThanWellFounded DEF OpToRel
<1>. HIDE DEF R
<1>2. PICK f \in S : \A g \in S : ~(<<g, f>> \in R)
  BY <1>1, WFMin, Zenon
<1>3. \A g \in S : ~(g < f)
  BY <1>2, Zenon DEF R
<1>. QED BY <1>3

\* A set of frames that is not empty has a greatest one.
LEMMA Greatest ==
  ASSUME NEW S \in SUBSET Frames, S # {}
  PROVE  \E f \in S : \A g \in S : g <= f
<1>. DEFINE T == {n \in Nat : FRAMES - n \in S}
<1>1. PICK s \in S : TRUE
  OBVIOUS
<1>2. FRAMES - s \in T
  BY <1>1 DEF Frames
<1>3. PICK n \in T : \A m \in T : n <= m
  BY <1>2, Least, Zenon
<1>4. ASSUME NEW g \in S PROVE g <= FRAMES - n
  <2>1. g \in Nat /\ FRAMES - g \in T
    BY DEF Frames
  <2>. QED BY <2>1, <1>3
<1>. QED BY <1>3, <1>4

Below(S, f) == {g \in S : g < f}

\* Among enough frames there is one with exactly k frames below it.
LEMMA NthLowest ==
  ASSUME NEW S \in SUBSET Frames, NEW k \in Nat, k < Cardinality(S)
  PROVE  \E f \in S : Cardinality(Below(S, f)) = k
<1>1. /\ IsFiniteSet(S) /\ Cardinality(S) \in Nat /\ S \subseteq Nat
      /\ \A f \in S : /\ Below(S, f) \in SUBSET Frames /\ Below(S, f) \subseteq S
                      /\ Cardinality(Below(S, f)) \in Nat
  BY FreeFinite DEF Below
<1>2. ASSUME NEW T \in SUBSET S, NEW h \in T, \A g \in T : g <= h,
             \A g \in S : g < h => g \in T
      PROVE  Cardinality(Below(S, h)) = Cardinality(T) - 1
  <2>1. Below(S, h) = T \ {h}
    <3>1. ASSUME NEW g \in T \ {h} PROVE g \in S /\ g < h
      <4>1. g \in Nat /\ h \in Nat /\ g <= h /\ g # h
        BY <1>1, <1>2
      <4>. QED BY <4>1
    <3>2. ASSUME NEW g \in S, g < h PROVE g \in T \ {h}
      <4>1. g \in Nat /\ h \in Nat
        BY <1>1
      <4>. QED BY <1>2, <3>2, <4>1
    <3>. QED BY <3>1, <3>2 DEF Below
  <2>2. IsFiniteSet(T)
    BY FreeFinite
  <2>. QED BY <2>1, <2>2, FS_RemoveElement, Zenon
<1>. DEFINE High == {f \in S : Cardinality(Below(S, f)) >= k}
<1>3. High # {}
  <2>1. S # {}
    BY FS_EmptySet
  <2>2. PICK h \in S : \A g \in S : g <= h
    BY <2>1, Greatest
  <2>3. Cardinality(Below(S, h)) = Cardinality(S) - 1
    BY <1>2, <2>2
  <2>. QED BY <2>3, <1>1
<1>4. PICK f \in High : \A g \in High : f <= g
  BY <1>1, <1>3, Least, Zenon
<1>5. Cardinality(Below(S, f)) = k
  <2>. SUFFICES ASSUME Cardinality(Below(S, f)) > k PROVE FALSE
    BY <1>1, <1>4
  <2>1. Below(S, f) # {}
    BY FS_EmptySet
  <2>2. PICK h \in Below(S, f) : \A g \in Below(S, f) : g <= h
    BY <1>1, <1>4, <2>1, Greatest, Zenon
  <2>3. h \in S /\ h < f /\ f \in S /\ h \in Nat /\ f \in Nat
    BY <1>1, <1>4, <2>2 DEF Below
  <2>4. \A g \in S : g < h => g \in Below(S, f)
    BY <1>1, <2>3 DEF Below
  <2>5. Cardinality(Below(S, h)) = Cardinality(Below(S, f)) - 1
    BY <1>1, <1>2, <2>2, <2>3, <2>4
  <2>6. h \in High
    BY <1>1, <2>3, <2>5
  <2>. QED BY <2>3, <2>6, <1>4
<1>. QED BY <1>4, <1>5

\* n calls of FrameAllocator::allocate return n different free frames.
LEMMA LowestFrames ==
  ASSUME NEW n \in Nat, free \in SUBSET Frames, Enough(n)
  PROVE  /\ Lowest(n) \in [1 .. n -> free]
         /\ \A i, j \in 1 .. n : Lowest(n)[i] = Lowest(n)[j] => i = j
<1>1. Cardinality(free) \in Nat /\ n <= Cardinality(free)
  BY FreeFinite DEF Enough
<1>2. ASSUME NEW i \in 1 .. n
      PROVE  Lowest(n)[i] \in free /\ Cardinality(Below(free, Lowest(n)[i])) = i - 1
  <2>1. \E f \in free : Cardinality(Below(free, f)) = i - 1
    BY <1>1, NthLowest
  <2>2. Lowest(n)[i] = CHOOSE f \in free : Cardinality(Below(free, f)) = i - 1
    BY Zenon DEF Lowest, Below
  <2>. QED BY <2>1, <2>2
<1>3. Lowest(n) \in [1 .. n -> free]
  BY <1>2, Zenon DEF Lowest
<1>4. ASSUME NEW i \in 1 .. n, NEW j \in 1 .. n, Lowest(n)[i] = Lowest(n)[j] PROVE i = j
  BY <1>2, <1>4
<1>. QED BY <1>3, <1>4

-----------------------------------------------------------------------------
(* What the invariant says, page by page.                                    *)

\* The pages of a process's heap in the kernel.
HeapPages(q) == IF heap[q] = None THEN {} ELSE PagesOf(heap[q])

\* A frame that a page of an object may lead to.
ObjectFrame(f) == \E k \in mapped : f = kernel[k] /\ \A q \in Procs : k \notin HeapPages(q)

GoodPage(p, x) ==
  \/ x[1] = "heap"
  \/ x[1] = "stack" /\ space[p][x] \in proxy[p]
  \/ x[1] \in {"code", "module"} /\ ObjectFrame(space[p][x])

GoodView(p) ==
  /\ {x \in DOMAIN space[p] : x[1] = "heap"} = {<<"heap", i>> : i \in 0 .. HeapSize(p) - 1}
  /\ \A i \in 0 .. HeapSize(p) - 1 : space[p][<<"heap", i>>] = kernel[heap[p].start + i]

GoodSpace(p) == (\A x \in DOMAIN space[p] : GoodPage(p, x)) /\ GoodView(p)

KernelFrames ==
  /\ kernel \in [mapped -> Frames] /\ Image(kernel) \subseteq proxy[Kernel]
  /\ \A x, y \in mapped : kernel[x] = kernel[y] => x = y

Proxies == proxy \in [Owners -> SUBSET Frames] /\ free \in SUBSET Frames

Heaps ==
  /\ running \in SUBSET Procs /\ heap \in [Procs -> live \cup {None}]
  /\ \A p \in Procs : heap[p] # None => p \in running
  /\ \A p, q \in Procs : heap[p] # None /\ heap[p] = heap[q] => p = q

Spaces == DOMAIN space = Procs /\ \A p \in Procs : space[p] \in [DOMAIN space[p] -> Frames]

\* Who may get at physical memory has asked for it; the kernel's own entry is closed.
Grants ==
  /\ opened \in SUBSET asked /\ asked \in SUBSET Procs /\ exposed \in SUBSET Frames

\* The inductive invariant while the kernel has not panicked.
MemoryInv ==
  /\ MappingInv /\ KernelFrames /\ Proxies /\ OneOwner /\ Heaps /\ Spaces
  /\ \A p \in running : GoodSpace(p)
  /\ halted \in BOOLEAN

\* No page of one process leads to the heap or stack of another.
PrivateSpaces ==
  \A p, q \in running : p # q => FramesOf(p, {"heap", "stack"}) \cap Image(space[q]) = {}

\* What also holds after a panic, with a heap that is mapped in part.
SafeInv == FramesInv /\ PrivateSpaces /\ MappingInv

\* The inductive invariant.
ReachableInv == Grants /\ (MemoryInv \/ (halted /\ SafeInv))

\* The mapping of a heap and its pages.
LEMMA HeapRange ==
  ASSUME MappingInv, Heaps, NEW p \in Procs, heap[p] # None
  PROVE  /\ heap[p] \in live /\ heap[p].start \in Nat /\ heap[p].end \in Nat
         /\ heap[p].start < heap[p].end /\ heap[p].end <= offset /\ offset \in Nat
         /\ HeapSize(p) = heap[p].end - heap[p].start /\ HeapSize(p) \in Nat \ {0}
         /\ HeapPages(p) = PagesOf(heap[p]) /\ HeapPages(p) \subseteq mapped
         /\ \A i \in 0 .. HeapSize(p) - 1 : heap[p].start + i \in HeapPages(p)
         /\ HeapPages(p) = {heap[p].start + i : i \in 0 .. HeapSize(p) - 1}
<1>1. /\ heap[p] \in live /\ heap[p].start \in Nat /\ heap[p].end \in Nat
      /\ heap[p].start < heap[p].end /\ heap[p].end <= offset /\ offset \in Nat
  BY DEF Heaps, MappingInv, RangesOK, BelowOffset
<1>2. HeapSize(p) = heap[p].end - heap[p].start /\ HeapSize(p) \in Nat \ {0}
  BY <1>1 DEF HeapSize
<1>3. HeapPages(p) = PagesOf(heap[p]) /\ HeapPages(p) \subseteq mapped
  BY <1>1 DEF HeapPages, MappingInv, Separate
<1>4. PagesOf(heap[p]) = {heap[p].start + i : i \in 0 .. HeapSize(p) - 1}
  <2>1. ASSUME NEW x \in PagesOf(heap[p]) PROVE \E i \in 0 .. HeapSize(p) - 1 : x = heap[p].start + i
    <3>1. x - heap[p].start \in 0 .. HeapSize(p) - 1 /\ x = heap[p].start + (x - heap[p].start)
      BY <1>1, <1>2 DEF PagesOf, Pages
    <3>. QED BY <3>1
  <2>2. ASSUME NEW i \in 0 .. HeapSize(p) - 1 PROVE heap[p].start + i \in PagesOf(heap[p])
    BY <1>1, <1>2 DEF PagesOf, Pages
  <2>. QED BY <2>1, <2>2
<1>. QED BY <1>1, <1>2, <1>3, <1>4

\* Two heaps share no page of the kernel.
LEMMA HeapsApart ==
  ASSUME MappingInv, Heaps, NEW p \in Procs, NEW q \in Procs, p # q
  PROVE  HeapPages(p) \cap HeapPages(q) = {}
<1>1. CASE heap[p] = None \/ heap[q] = None
  BY <1>1 DEF HeapPages
<1>2. CASE heap[p] # None /\ heap[q] # None
  <2>1. heap[p] \in live /\ heap[q] \in live /\ heap[p] # heap[q]
    BY <1>2 DEF Heaps
  <2>. QED BY <2>1, <1>2 DEF HeapPages, MappingInv, Separate
<1>. QED BY <1>1, <1>2

\* Every frame that a page of a process leads to is in its proxy or the kernel's.
LEMMA PageOwned ==
  ASSUME MemoryInv, NEW p \in running, NEW x \in DOMAIN space[p]
  PROVE  /\ space[p][x] \in proxy[p] \cup proxy[Kernel] /\ space[p][x] \in Frames
         /\ x[1] = "stack" => space[p][x] \in proxy[p]
         /\ x[1] = "heap" => \E k \in HeapPages(p) : k \in mapped /\ space[p][x] = kernel[k]
         /\ x[1] # "heap" => space[p][x] \in proxy[p] \/ ObjectFrame(space[p][x])
<1>1. p \in Procs /\ GoodSpace(p) /\ space[p][x] \in Frames
  BY DEF MemoryInv, Heaps, Spaces
<1>2. \A k \in mapped : kernel[k] \in proxy[Kernel]
  BY DEF MemoryInv, KernelFrames, Image
<1>3. CASE x[1] = "heap"
  <2>1. PICK i \in 0 .. HeapSize(p) - 1 : x = <<"heap", i>>
    BY <1>1, <1>3 DEF GoodSpace, GoodView
  <2>2. heap[p] # None
    BY <2>1 DEF HeapSize
  <2>3. heap[p].start + i \in HeapPages(p) /\ HeapPages(p) \subseteq mapped
    BY <1>1, <2>2, HeapRange DEF MemoryInv
  <2>4. space[p][x] = kernel[heap[p].start + i]
    BY <1>1, <2>1 DEF GoodSpace, GoodView
  <2>. QED BY <1>1, <1>2, <1>3, <2>3, <2>4
<1>4. CASE x[1] # "heap"
  BY <1>1, <1>2, <1>4 DEF GoodSpace, GoodPage, ObjectFrame
<1>. QED BY <1>3, <1>4

\* The invariants that the runs check follow.
LEMMA InvFrames == ASSUME MemoryInv, Grants PROVE FramesInv
<1>1. TypeOK
  <2>1. opened \in SUBSET Owners /\ exposed \in SUBSET Frames /\ asked \in SUBSET Procs
    BY DEF Grants, Owners
  <2>. QED BY <2>1 DEF MemoryInv, TypeOK, KernelFrames, Proxies, Heaps, Spaces
<1>2. \A o \in Owners : proxy[o] \cap free = {}
  BY DEF MemoryInv, OneOwner, Proxies
<1>3. MappedNotFree
  <2>1. Image(kernel) \cap free = {}
    BY <1>2 DEF MemoryInv, KernelFrames, Owners
  <2>2. ASSUME NEW p \in running PROVE Image(space[p]) \cap free = {}
    <3>1. p \in Owners /\ Kernel \in Owners
      BY DEF MemoryInv, Heaps, Owners
    <3>. QED BY <3>1, <1>2, PageOwned DEF Image
  <2>. QED BY <2>1, <2>2 DEF MappedNotFree
<1>4. Provenance
  <2>1. ASSUME NEW p \in running, NEW x \in DOMAIN space[p]
        PROVE  \/ x[1] = "heap"
               \/ x[1] = "stack" /\ space[p][x] \in proxy[p]
               \/ /\ x[1] \in {"code", "module"}
                  /\ \E k \in mapped :
                       /\ space[p][x] = kernel[k]
                       /\ \A q \in Procs : heap[q] # None => k \notin PagesOf(heap[q])
    BY DEF MemoryInv, GoodSpace, GoodPage, ObjectFrame, HeapPages
  <2>. QED BY <2>1 DEF MemoryInv, KernelFrames, Heaps, Provenance
<1>. QED BY <1>1, <1>3, <1>4 DEF MemoryInv, FramesInv

\* From the invariant: the two views of a heap agree.
LEMMA InvViews == ReachableInv => HeapViewsAgree
BY DEF ReachableInv, MemoryInv, GoodSpace, GoodView, HeapViewsAgree

\* From the invariant: no process has a page of another's heap or stack.
LEMMA InvPrivate == MemoryInv => PrivateSpaces
<1>. SUFFICES ASSUME MemoryInv, NEW p \in running, NEW q \in running, p # q,
                     NEW x \in DOMAIN space[p], x[1] \in {"heap", "stack"},
                     NEW y \in DOMAIN space[q], space[p][x] = space[q][y]
              PROVE  FALSE
  BY DEF PrivateSpaces, FramesOf, Image
<1>1. /\ p \in Procs /\ q \in Procs /\ p \in Owners /\ q \in Owners /\ Kernel \in Owners
      /\ p # Kernel /\ q # Kernel
  BY DEF MemoryInv, Heaps, Owners
<1>2. ASSUME NEW f \in Frames, NEW o \in Owners, NEW r \in Owners, f \in proxy[o], f \in proxy[r]
      PROVE  o = r
  BY <1>2 DEF MemoryInv, OneOwner
<1>3. CASE x[1] = "stack"
  <2>1. /\ space[p][x] \in proxy[p] /\ space[p][x] \in Frames
        /\ space[q][y] \in proxy[q] \cup proxy[Kernel]
    BY <1>3, PageOwned
  <2>. QED BY <2>1, <1>1, <1>2
<1>4. CASE x[1] = "heap"
  <2>1. PICK k \in HeapPages(p) : k \in mapped /\ space[p][x] = kernel[k]
    BY <1>4, PageOwned
  <2>2. kernel[k] \in proxy[Kernel] /\ kernel[k] \in Frames
    BY <2>1 DEF MemoryInv, KernelFrames, Image
  <2>3. space[q][y] \notin proxy[q]
    BY <2>1, <2>2, <1>1, <1>2
  <2>4. \A l \in mapped : kernel[l] = kernel[k] => l = k
    BY <2>1 DEF MemoryInv, KernelFrames
  <2>5. CASE y[1] = "heap"
    <3>1. PICK l \in HeapPages(q) : l \in mapped /\ space[q][y] = kernel[l]
      BY <2>5, PageOwned
    <3>2. l = k
      BY <3>1, <2>1, <2>4
    <3>. QED BY <3>1, <3>2, <2>1, <1>1, HeapsApart DEF MemoryInv
  <2>6. CASE y[1] # "heap"
    <3>1. ObjectFrame(space[q][y])
      BY <2>3, <2>6, PageOwned
    <3>. QED BY <3>1, <2>1, <2>4, <1>1 DEF ObjectFrame
  <2>. QED BY <2>5, <2>6
<1>. QED BY <1>3, <1>4

\* While the kernel runs, the invariant says at least what holds after a panic.
LEMMA InvSafe == ReachableInv => SafeInv
<1>1. MemoryInv => MappingInv
  BY DEF MemoryInv
<1>. QED BY <1>1, InvFrames, InvPrivate DEF ReachableInv, SafeInv

\* What a process gets at beyond its pages it has asked for.
LEMMA ReachAsked == ReachableInv => PrivateMemory
<1>. SUFFICES ASSUME ReachableInv, NEW p \in running, NEW q \in running, p # q
              PROVE  LET private == FramesOf(p, {"heap", "stack"})
                     IN  /\ private \cap Image(space[q]) = {}
                         /\ private \cap Reach(q) # {} => q \in asked
  BY DEF PrivateMemory
<1>1. FramesOf(p, {"heap", "stack"}) \cap Image(space[q]) = {}
  BY InvSafe DEF SafeInv, PrivateSpaces
<1>2. q \notin asked => Reach(q) = Image(space[q])
  BY DEF ReachableInv, Grants, Reach
<1>. QED BY <1>1, <1>2

-----------------------------------------------------------------------------
(* What the parts of the handlers do.                                        *)

\* Frames taken from the free ones get one owner.
LEMMA TakeOwned ==
  ASSUME Proxies, OneOwner, NEW p \in Procs, NEW byKernel \in SUBSET free,
         NEW byProc \in SUBSET free, byKernel \cap byProc = {}, Take(byKernel, byProc, p)
  PROVE  /\ Proxies' /\ OneOwner'
         /\ \A o \in Owners : proxy[o] \subseteq proxy'[o]
         /\ proxy'[Kernel] = proxy[Kernel] \cup byKernel
         /\ proxy'[p] = proxy[p] \cup byProc
<1>1. p \in Owners /\ Kernel \in Owners /\ p # Kernel
  BY DEF Owners
<1>2. \A o \in Owners : proxy'[o] = IF o = Kernel THEN proxy[o] \cup byKernel
                                    ELSE IF o = p THEN proxy[o] \cup byProc ELSE proxy[o]
  BY <1>1, Zenon DEF Take, Proxies
<1>3. Proxies'
  BY <1>1 DEF Take, Proxies
<1>4. ASSUME NEW f \in Frames
      PROVE  LET owners == {o \in Owners : f \in proxy'[o]}
             IN  IF f \in free' THEN owners = {} ELSE \E o \in Owners : owners = {o}
  <2>1. CASE f \notin byKernel \cup byProc
    <3>1. {o \in Owners : f \in proxy'[o]} = {o \in Owners : f \in proxy[o]}
      BY <1>2, <2>1, Zenon
    <3>. QED BY <3>1, <2>1, Zenon DEF OneOwner, Take
  <2>2. CASE f \in byKernel
    <3>1. {o \in Owners : f \in proxy[o]} = {} /\ f \notin byProc /\ f \notin free'
      BY <2>2 DEF OneOwner, Take
    <3>2. {o \in Owners : f \in proxy'[o]} = {Kernel}
      BY <3>1, <2>2, <1>1, <1>2, Zenon
    <3>. QED BY <3>1, <3>2, <1>1
  <2>3. CASE f \in byProc
    <3>1. {o \in Owners : f \in proxy[o]} = {} /\ f \notin byKernel /\ f \notin free'
      BY <2>3 DEF OneOwner, Take
    <3>2. {o \in Owners : f \in proxy'[o]} = {p}
      BY <3>1, <2>3, <1>1, <1>2, Zenon
    <3>. QED BY <3>1, <3>2, <1>1
  <2>. QED BY <2>1, <2>2, <2>3
<1>. QED BY <1>1, <1>2, <1>3, <1>4, Zenon DEF OneOwner

\* New pages of the kernel get frames of their own.
LEMMA KernelGrown ==
  ASSUME KernelFrames, Proxies, OneOwner, NEW pages \in SUBSET Nat, pages \cap mapped = {},
         mapped \in SUBSET Nat, mapped' = mapped \cup pages,
         NEW start \in Nat, NEW n \in Nat, NEW f \in [1 .. n -> free],
         \A i, j \in 1 .. n : f[i] = f[j] => i = j,
         \A x \in pages : x - start + 1 \in 1 .. n,
         MapKernelPages(start, f), proxy'[Kernel] = proxy[Kernel] \cup Image(f)
  PROVE  /\ KernelFrames'
         /\ \A k \in mapped : kernel'[k] = kernel[k]
         /\ \A k \in pages : kernel'[k] = f[k - start + 1]
<1>1. kernel' = [x \in mapped' |-> IF x \in mapped THEN kernel[x] ELSE f[x - start + 1]]
  BY DEF MapKernelPages
<1>2. \A k \in mapped : kernel'[k] = kernel[k]
  BY <1>1
<1>3. \A k \in pages : kernel'[k] = f[k - start + 1] /\ f[k - start + 1] \in free
  BY <1>1
<1>4. \A i \in 1 .. n : f[i] \in Image(f)
  BY DEF Image
<1>5. \A k \in mapped : kernel[k] \in proxy[Kernel] /\ kernel[k] \in Frames /\ kernel[k] \notin free
  BY DEF KernelFrames, Image, OneOwner, Owners
<1>6. kernel' \in [mapped' -> Frames]
  BY <1>1, <1>2, <1>3, <1>5 DEF Proxies
<1>7. Image(kernel') \subseteq proxy'[Kernel]
  BY <1>2, <1>3, <1>4, <1>5, <1>6 DEF Image
<1>8. ASSUME NEW x \in mapped', NEW y \in mapped', kernel'[x] = kernel'[y] PROVE x = y
  <2>1. CASE x \in mapped /\ y \in mapped
    BY <2>1, <1>2, <1>8, Zenon DEF KernelFrames
  <2>2. CASE x \in pages /\ y \in pages
    <3>1. x - start + 1 = y - start + 1 /\ x \in Nat /\ y \in Nat
      BY <2>2, <1>3, <1>8, Zenon
    <3>. QED BY <3>1
  <2>3. CASE (x \in mapped /\ y \in pages) \/ (x \in pages /\ y \in mapped)
    <3>1. \A k \in mapped : kernel'[k] \notin free
      BY <1>2, <1>5, Zenon
    <3>2. \A k \in pages : kernel'[k] \in free
      BY <1>3, Zenon
    <3>. QED BY <2>3, <3>1, <3>2, <1>8, Zenon
  <2>. QED BY <2>1, <2>2, <2>3
<1>. QED BY <1>2, <1>3, <1>6, <1>7, <1>8 DEF KernelFrames

\* A step that only adds pages to the kernel, and none that was mapped to a heap.
Grown ==
  /\ mapped \subseteq mapped' /\ \A k \in mapped : kernel'[k] = kernel[k]
  /\ \A q \in Procs : HeapPages(q)' \cap mapped \subseteq HeapPages(q)

\* A frame of an object stays one when the kernel's pages grow.
LEMMA ObjectKept == ASSUME Grown, NEW f, ObjectFrame(f) PROVE ObjectFrame(f)'
<1>1. PICK k \in mapped : f = kernel[k] /\ \A q \in Procs : k \notin HeapPages(q)
  BY DEF ObjectFrame
<1>2. k \in mapped' /\ f = kernel'[k] /\ \A q \in Procs : k \notin HeapPages(q)'
  BY <1>1 DEF Grown
<1>. QED BY <1>2 DEF ObjectFrame

\* The address space of a process that a handler does not touch.
LEMMA SpaceKept ==
  ASSUME MemoryInv, Grown, NEW r \in running, proxy[r] \subseteq proxy'[r],
         space'[r] = space[r], heap'[r] = heap[r]
  PROVE  GoodSpace(r)'
<1>1. r \in Procs /\ GoodSpace(r)
  BY DEF MemoryInv, Heaps
<1>2. ASSUME NEW x \in DOMAIN space'[r] PROVE GoodPage(r, x)'
  <2>1. x \in DOMAIN space[r] /\ space'[r][x] = space[r][x] /\ GoodPage(r, x)
    BY <1>1 DEF GoodSpace
  <2>2. ASSUME NEW f, f = space[r][x], ObjectFrame(f) PROVE ObjectFrame(f)'
    BY <2>2, ObjectKept
  <2>3. ObjectFrame(space[r][x]) => ObjectFrame(space[r][x])'
    <3>1. PICK f : f = space[r][x]
      OBVIOUS
    <3>2. f = space'[r][x]
      BY <3>1
    <3>. QED BY <3>1, <3>2, <2>2 DEF ObjectFrame
  <2>. QED BY <2>1, <2>3 DEF GoodPage
<1>3. GoodView(r)'
  <2>1. HeapSize(r)' = HeapSize(r)
    BY DEF HeapSize
  <2>2. ASSUME NEW i \in 0 .. HeapSize(r) - 1
        PROVE  space'[r][<<"heap", i>>] = kernel'[heap[r].start + i]
    <3>1. heap[r] # None
      BY DEF HeapSize
    <3>2. heap[r].start + i \in mapped
      BY <1>1, <3>1, HeapRange DEF MemoryInv
    <3>. QED BY <3>2, <1>1 DEF GoodSpace, GoodView, Grown
  <2>. QED BY <1>1, <2>1, <2>2 DEF GoodSpace, GoodView
<1>. QED BY <1>2, <1>3 DEF GoodSpace

\* AddressSpace::map_kernel_pages_to: t is s with n more pages.
MapsLocally(t, s, region, first, start, n) ==
  /\ DOMAIN t = DOMAIN s \cup {<<region, first + i>> : i \in 0 .. n - 1}
  /\ t = [x \in DOMAIN t |-> t[x]]
  /\ \A i \in 0 .. n - 1 : t[<<region, first + i>>] = kernel'[start + i]
  /\ \A x \in DOMAIN s : x[1] # region => t[x] = s[x]
  /\ \A x \in DOMAIN s : (\A i \in 0 .. n - 1 : x # <<region, first + i>>) => t[x] = s[x]

\* The pages mapped into an address space lead to the kernel's frames, the others stay.
LEMMA LocalPages ==
  ASSUME NEW s, NEW region, NEW first \in Nat, NEW start \in Nat, NEW n \in Nat,
         NEW t, t = MapLocalPages(s, region, first, start, n)
  PROVE  MapsLocally(t, s, region, first, start, n)
<1>. DEFINE pages == {<<region, first + i>> : i \in 0 .. n - 1}
<1>1. t = [x \in DOMAIN s \cup pages |->
             IF x \in pages THEN kernel'[start + x[2] - first] ELSE s[x]]
  BY DEF MapLocalPages
<1>2. ASSUME NEW i \in 0 .. n - 1 PROVE t[<<region, first + i>>] = kernel'[start + i]
  <2>1. <<region, first + i>> \in pages /\ <<region, first + i>>[2] = first + i
    OBVIOUS
  <2>2. start + (first + i) - first = start + i
    OBVIOUS
  <2>. HIDE DEF pages
  <2>. QED BY <1>1, <2>1, <2>2
<1>3. ASSUME NEW x \in pages
      PROVE  x[1] = region /\ \E i \in 0 .. n - 1 : x = <<region, first + i>>
  <2>1. PICK i \in 0 .. n - 1 : x = <<region, first + i>>
    OBVIOUS
  <2>. QED BY <2>1
<1>. HIDE DEF pages
<1>4. /\ DOMAIN t = DOMAIN s \cup pages /\ t = [x \in DOMAIN t |-> t[x]]
      /\ \A x \in DOMAIN s : x \notin pages => t[x] = s[x]
  BY <1>1
<1>5. \A x \in DOMAIN s : (\A i \in 0 .. n - 1 : x # <<region, first + i>>) => t[x] = s[x]
  BY <1>3, <1>4
<1>6. DOMAIN t = DOMAIN s \cup {<<region, first + i>> : i \in 0 .. n - 1}
  BY <1>4 DEF pages
<1>. QED BY <1>2, <1>3, <1>4, <1>5, <1>6 DEF MapsLocally

-----------------------------------------------------------------------------
(* The handlers.                                                             *)

\* A panic changes nothing but the kernel's own state.
LEMMA PanicInv ==
  ASSUME MemoryInv, UNCHANGED <<mappingVars, kernel, running, heap, space, proxy, free>>,
         halted' \in BOOLEAN
  PROVE  MemoryInv'
<1>1. MappingInv'
  BY DEF mappingVars, MemoryInv, MappingInv, RangesOK, BelowOffset, Separate, PagesOf
<1>2. KernelFrames' /\ Proxies' /\ OneOwner' /\ Heaps' /\ Spaces'
  BY DEF mappingVars, MemoryInv, KernelFrames, Image, Proxies, OneOwner, Heaps, Spaces
<1>3. Grown
  BY DEF Grown, HeapPages, mappingVars
<1>4. ASSUME NEW r \in running' PROVE GoodSpace(r)'
  BY <1>3, SpaceKept
<1>. QED BY <1>1, <1>2, <1>4 DEF MemoryInv

\* The pages that KernelMapping::new takes.
LEMMA NewPages ==
  ASSUME MappingInv, NEW n \in Nat \ {0}, New(n)
  PROVE  /\ offset \in Nat /\ mapped \in SUBSET Nat
         /\ Pages(offset, offset + n) \in SUBSET Nat
         /\ Pages(offset, offset + n) \cap mapped = {}
         /\ mapped' = mapped \cup Pages(offset, offset + n)
         /\ \A x \in Pages(offset, offset + n) : x - offset + 1 \in 1 .. n
         /\ \A i \in 0 .. n - 1 : offset + i \in Pages(offset, offset + n)
         /\ live' = live \cup {[start |-> offset, end |-> offset + n]}
<1>1. offset \in Nat /\ mapped \in SUBSET Nat
  BY DEF MappingInv, RangesOK
<1>2. Pages(offset, offset + n) \cap mapped = {}
  BY <1>1 DEF MappingInv, BelowOffset, Pages
<1>. QED BY <1>1, <1>2 DEF New, Pages

\* A process is dropped.
LEMMA DropInv == ASSUME MemoryInv, NEW p \in running, Drop(p) PROVE MemoryInv'
<1>1. /\ p \in Procs /\ running' = running \ {p} /\ halted' = halted
      /\ kernel' = kernel /\ mapped' = mapped /\ live' = live \ {heap[p]}
      /\ space' = [space EXCEPT ![p] = NoPages] /\ heap' = [heap EXCEPT ![p] = None]
      /\ proxy' = [proxy EXCEPT ![p] = {}] /\ free' = free \cup proxy[p]
  BY DEF Drop, Forget, MemoryInv, Heaps
<1>2. MappingInv'
  BY ForgetInv DEF Drop, MemoryInv
<1>3. p \in Owners /\ Kernel \in Owners /\ p # Kernel
  BY <1>1 DEF Owners
<1>4. Proxies' /\ KernelFrames'
  BY <1>1, <1>3 DEF MemoryInv, Proxies, KernelFrames, Image
<1>5. OneOwner'
  <2>1. ASSUME NEW f \in Frames
        PROVE  LET owners == {o \in Owners : f \in proxy'[o]}
               IN  IF f \in free' THEN owners = {} ELSE \E o \in Owners : owners = {o}
    <3>1. \A o \in Owners : proxy'[o] = IF o = p THEN {} ELSE proxy[o]
      BY <1>1, <1>3 DEF MemoryInv, Proxies
    <3>2. CASE f \in proxy[p]
      <4>1. \A o \in Owners \ {p} : f \notin proxy[o]
        BY <1>3, <3>2 DEF MemoryInv, OneOwner
      <4>. QED BY <4>1, <3>1, <3>2, <1>1
    <3>3. CASE f \notin proxy[p]
      <4>1. {o \in Owners : f \in proxy'[o]} = {o \in Owners : f \in proxy[o]}
        BY <3>1, <3>3
      <4>. QED BY <4>1, <3>3, <1>1 DEF MemoryInv, OneOwner
    <3>. QED BY <3>2, <3>3
  <2>. QED BY <2>1 DEF OneOwner
<1>6. Heaps'
  <2>1. \A q \in Procs : heap'[q] = IF q = p THEN None ELSE heap[q]
    BY <1>1 DEF MemoryInv, Heaps
  <2>2. \A q \in Procs : q # p /\ heap[q] # None => heap[q] \in live'
    BY <1>1 DEF MemoryInv, Heaps
  <2>3. heap' \in [Procs -> live' \cup {None}]
    BY <2>1, <2>2, <1>1 DEF MemoryInv, Heaps
  <2>. QED BY <2>1, <2>3, <1>1 DEF MemoryInv, Heaps
<1>7. Spaces'
  <2>1. NoPages \in [DOMAIN NoPages -> Frames]
    BY DEF NoPages
  <2>. QED BY <2>1, <1>1 DEF MemoryInv, Spaces
<1>8. Grown
  BY <1>1 DEF Grown, HeapPages, MemoryInv, Heaps
<1>9. ASSUME NEW r \in running' PROVE GoodSpace(r)'
  <2>1. r \in running /\ r # p /\ r \in Procs /\ r \in Owners
    BY <1>1 DEF MemoryInv, Heaps, Owners
  <2>2. space'[r] = space[r] /\ heap'[r] = heap[r] /\ proxy[r] \subseteq proxy'[r]
    BY <2>1, <1>1 DEF MemoryInv, Spaces, Heaps, Proxies
  <2>. QED BY <2>1, <2>2, <1>8, SpaceKept, Zenon
<1>. QED BY <1>1, <1>2, <1>4, <1>5, <1>6, <1>7, <1>9 DEF MemoryInv

\* __page_fault_handler on a section that the process may use.
LEMMA MapModuleInv ==
  ASSUME MemoryInv, NEW p \in Procs, NEW m \in live, MapModule(p, m) PROVE MemoryInv'
<1>1. CASE ~Enough(1)
  <2>1. p \in running /\ (Panic \/ Drop(p))
    BY <1>1, Zenon DEF MapModule
  <2>2. CASE Panic
    BY <2>2, PanicInv DEF Panic
  <2>. QED BY <2>1, <2>2, DropInv
<1>2. CASE Enough(1)
  <2>1. /\ p \in running /\ Enough(1) /\ Take({}, Image(Lowest(1)), p)
        /\ UNCHANGED <<mappingVars, kernel, running, heap, halted>>
        /\ \A q \in Procs : m # heap[q]
        /\ space' = [space EXCEPT ![p] =
             MapLocalPages(space[p], "module", m.start, m.start, m.end - m.start)]
    BY <1>2, Zenon DEF MapModule
  <2>2. PICK n, t : /\ n = m.end - m.start
                    /\ t = MapLocalPages(space[p], "module", m.start, m.start, n)
    OBVIOUS
  <2>3. /\ m.start \in Nat /\ n \in Nat /\ PagesOf(m) \subseteq mapped
        /\ \A i \in 0 .. n - 1 : m.start + i \in PagesOf(m)
    <3>1. m.start \in Nat /\ m.end \in Nat /\ m.start < m.end /\ PagesOf(m) \subseteq mapped
      BY DEF MemoryInv, MappingInv, RangesOK, Separate
    <3>. QED BY <3>1, <2>2 DEF PagesOf, Pages
  <2>4. Image(Lowest(1)) \in SUBSET free
    <3>1. Lowest(1) \in [1 .. 1 -> free]
      BY <2>1, LowestFrames, Zenon DEF MemoryInv, Proxies
    <3>. QED BY <3>1 DEF Image
  <2>5. /\ Proxies' /\ OneOwner' /\ \A o \in Owners : proxy[o] \subseteq proxy'[o]
        /\ proxy'[Kernel] = proxy[Kernel]
    <3>1. PICK K, P : K = {} /\ P = Image(Lowest(1))
      BY Zenon
    <3>2. K \in SUBSET free /\ P \in SUBSET free /\ K \cap P = {} /\ Take(K, P, p)
      BY <3>1, <2>1, <2>4
    <3>3. /\ Proxies' /\ OneOwner' /\ \A o \in Owners : proxy[o] \subseteq proxy'[o]
          /\ proxy'[Kernel] = proxy[Kernel] \cup K
      BY <3>2, TakeOwned, Zenon DEF MemoryInv
    <3>. QED BY <3>1, <3>3
  <2>6. MappingInv' /\ Heaps' /\ halted' \in BOOLEAN
    BY <2>1, Zenon DEF mappingVars, MemoryInv, MappingInv, RangesOK, BelowOffset, Separate, PagesOf, Heaps
  <2>7. KernelFrames'
    BY <2>1, <2>5, Zenon DEF mappingVars, MemoryInv, KernelFrames, Image
  <2>8. Grown
    BY <2>1, SMTT(30) DEF Grown, HeapPages, mappingVars
  <2>9. /\ DOMAIN t = DOMAIN space[p]
                        \cup {<<"module", m.start + i>> : i \in 0 .. n - 1}
        /\ t = [x \in DOMAIN t |-> t[x]]
        /\ \A i \in 0 .. n - 1 : t[<<"module", m.start + i>>] = kernel'[m.start + i]
        /\ \A x \in DOMAIN space[p] : x[1] # "module" => t[x] = space[p][x]
        /\ \A x \in DOMAIN space[p] :
             (\A i \in 0 .. n - 1 : x # <<"module", m.start + i>>)
               => t[x] = space[p][x]
    <3>1. MapsLocally(t, space[p], "module", m.start, m.start, n)
      BY <2>2, <2>3, LocalPages
    <3>. QED BY <3>1 DEF MapsLocally
  <2>10. \A r \in Procs : space'[r] = IF r = p THEN t ELSE space[r]
    BY <2>1, <2>2 DEF MemoryInv, Spaces
  <2>11. ASSUME NEW i \in 0 .. n - 1
         PROVE  /\ ObjectFrame(kernel[m.start + i]) /\ kernel[m.start + i] \in Frames
                /\ t[<<"module", m.start + i>>] = kernel[m.start + i]
    <3>1. m.start + i \in PagesOf(m) /\ m.start + i \in mapped
      BY <2>3
    <3>2. ASSUME NEW q \in Procs PROVE m.start + i \notin HeapPages(q)
      <4>1. CASE heap[q] = None
        BY <4>1 DEF HeapPages
      <4>2. CASE heap[q] # None
        <5>1. heap[q] \in live /\ heap[q] # m
          BY <4>2, <2>1 DEF MemoryInv, Heaps
        <5>. QED BY <5>1, <4>2, <3>1 DEF HeapPages, MemoryInv, MappingInv, Separate
      <4>. QED BY <4>1, <4>2
    <3>. QED BY <3>1, <3>2, <2>1, <2>9 DEF ObjectFrame, MemoryInv, KernelFrames
  <2>12. ASSUME NEW x \in DOMAIN t
         PROVE  /\ t[x] \in Frames
                /\ \/ x \in DOMAIN space[p] /\ t[x] = space[p][x]
                   \/ x[1] = "module" /\ ObjectFrame(t[x])
    <3>1. CASE \E i \in 0 .. n - 1 : x = <<"module", m.start + i>>
      BY <3>1, <2>11
    <3>2. CASE \A i \in 0 .. n - 1 : x # <<"module", m.start + i>>
      BY <3>2, <2>9 DEF MemoryInv, Spaces
    <3>. QED BY <3>1, <3>2
  <2>13. Spaces'
    <3>1. t \in [DOMAIN t -> Frames]
      BY <2>9, <2>12
    <3>2. DOMAIN space' = Procs
      BY <2>1 DEF MemoryInv, Spaces
    <3>. QED BY <3>1, <3>2, <2>10 DEF MemoryInv, Spaces
  <2>14. ASSUME NEW r \in running' PROVE GoodSpace(r)'
    <3>1. r \in running /\ r \in Procs /\ proxy[r] \subseteq proxy'[r] /\ heap'[r] = heap[r]
      BY <2>1, <2>5, Zenon DEF MemoryInv, Heaps, Owners
    <3>2. CASE r # p
      BY <3>1, <3>2, <2>8, <2>10, SpaceKept
    <3>3. CASE r = p
      <4>1. space'[p] = t /\ GoodSpace(p)
        BY <2>10, <2>1, SMTT(30) DEF MemoryInv
      <4>2. ASSUME NEW x \in DOMAIN t PROVE GoodPage(p, x)'
        <5>1. PICK f : f = t[x]
          OBVIOUS
        <5>2. ObjectFrame(f) => ObjectFrame(f)'
          BY <2>8, ObjectKept
        <5>3. \/ x[1] = "heap"
              \/ x[1] = "stack" /\ f \in proxy[p]
              \/ x[1] \in {"code", "module"} /\ ObjectFrame(f)
          BY <4>1, <5>1, <2>12, Zenon DEF GoodSpace, GoodPage
        <5>4. ObjectFrame(f)' => ObjectFrame(space[p][x])'
          BY <4>1, <5>1 DEF ObjectFrame
        <5>. QED BY <5>1, <5>2, <5>3, <5>4, <4>1, <3>1, <3>3, Zenon DEF GoodPage
      <4>3. GoodView(p)'
        <5>1. {x \in DOMAIN t : x[1] = "heap"} = {x \in DOMAIN space[p] : x[1] = "heap"}
          BY <2>9
        <5>2. HeapSize(p)' = HeapSize(p)
          BY <2>1, SMTT(30) DEF HeapSize
        <5>3. ASSUME NEW i \in 0 .. HeapSize(p) - 1
              PROVE  t[<<"heap", i>>] = kernel'[heap'[p].start + i]
          <6>1. <<"heap", i>> \in DOMAIN space[p]
            BY <4>1 DEF GoodSpace, GoodView
          <6>2. t[<<"heap", i>>] = space[p][<<"heap", i>>]
            BY <6>1, <2>9
          <6>. QED BY <6>2, <2>1, <4>1, Zenon DEF GoodSpace, GoodView
        <5>. QED BY <5>1, <5>2, <5>3, <4>1 DEF GoodSpace, GoodView
      <4>. QED BY <4>1, <4>2, <4>3, <3>3 DEF GoodSpace
    <3>. QED BY <3>2, <3>3
  <2>. QED BY <2>5, <2>6, <2>7, <2>13, <2>14 DEF MemoryInv
<1>. QED BY <1>1, <1>2

\* The heap of a process gets n more pages, in the kernel and in the process.
LEMMA HeapGrown ==
  ASSUME MemoryInv, Grown, NEW p \in running, proxy[p] \subseteq proxy'[p],
         NEW size \in Nat, size = HeapSize(p), NEW start \in Nat, NEW n \in Nat,
         heap[p] # None => heap[p].start = start,
         heap'[p] # None /\ heap'[p].start = start /\ heap'[p].end = start + size + n,
         NEW t, MapsLocally(t, space[p], "heap", size, start + size, n), space'[p] = t,
         \A i \in 0 .. n - 1 : kernel'[start + size + i] \in Frames
  PROVE  GoodSpace(p)' /\ t \in [DOMAIN t -> Frames]
<1>1. p \in Procs /\ GoodSpace(p) /\ space[p] \in [DOMAIN space[p] -> Frames]
  BY Zenon DEF MemoryInv, Heaps, Spaces
<1>2. /\ DOMAIN t = DOMAIN space[p] \cup {<<"heap", size + i>> : i \in 0 .. n - 1}
      /\ t = [x \in DOMAIN t |-> t[x]]
      /\ \A i \in 0 .. n - 1 : t[<<"heap", size + i>>] = kernel'[start + size + i]
      /\ \A x \in DOMAIN space[p] : x[1] # "heap" => t[x] = space[p][x]
      /\ \A x \in DOMAIN space[p] :
           (\A i \in 0 .. n - 1 : x # <<"heap", size + i>>) => t[x] = space[p][x]
  BY DEF MapsLocally
<1>3. HeapSize(p)' = size + n
  BY SMTT(30) DEF HeapSize
<1>4. {x \in DOMAIN space[p] : x[1] = "heap"} = {<<"heap", i>> : i \in 0 .. size - 1}
  BY <1>1, Zenon DEF GoodSpace, GoodView
<1>5. ASSUME NEW x \in DOMAIN t, x[1] # "heap"
      PROVE  x \in DOMAIN space[p] /\ t[x] = space[p][x]
  BY <1>2, <1>5
<1>6. ASSUME NEW x \in DOMAIN t PROVE GoodPage(p, x)'
  <2>1. CASE x[1] = "heap"
    BY <2>1 DEF GoodPage
  <2>2. CASE x[1] # "heap"
    <3>1. PICK f : f = t[x]
      OBVIOUS
    <3>2. x \in DOMAIN space[p] /\ f = space[p][x] /\ f = space'[p][x]
      BY <2>2, <3>1, <1>5
    <3>3. ObjectFrame(f) => ObjectFrame(f)'
      BY ObjectKept
    <3>4. ObjectFrame(f)' => ObjectFrame(space[p][x])'
      BY <3>2 DEF ObjectFrame
    <3>5. \/ x[1] = "stack" /\ f \in proxy[p]
          \/ x[1] \in {"code", "module"} /\ ObjectFrame(f)
      BY <2>2, <3>2, <1>1, Zenon DEF GoodSpace, GoodPage
    <3>. QED BY <3>2, <3>3, <3>4, <3>5 DEF GoodPage
  <2>. QED BY <2>1, <2>2
<1>7. ASSUME NEW i \in 0 .. size + n - 1
      PROVE  /\ <<"heap", i>> \in DOMAIN t
             /\ t[<<"heap", i>>] = kernel'[start + i] /\ t[<<"heap", i>>] \in Frames
  <2>1. CASE i < size
    <3>1. i \in 0 .. size - 1
      BY <2>1
    <3>2. <<"heap", i>> \in DOMAIN space[p]
      BY <1>4, <3>1
    <3>3. \A j \in 0 .. n - 1 : <<"heap", i>> # <<"heap", size + j>>
      BY <2>1
    <3>4. t[<<"heap", i>>] = space[p][<<"heap", i>>]
      BY <3>2, <3>3, <1>2, SMTT(30)
    <3>5. heap[p] # None
      <4>1. size # 0
        BY <2>1
      <4>2. heap[p] = None => HeapSize(p) = 0
        BY Zenon DEF HeapSize
      <4>. QED BY <4>1, <4>2, Zenon
    <3>6. space[p][<<"heap", i>>] = kernel[start + i] /\ start + i \in mapped
      BY <3>1, <3>5, <1>1, HeapRange, Zenon DEF MemoryInv, GoodSpace, GoodView
    <3>. QED BY <3>2, <3>4, <3>6, <1>1, <1>2 DEF Grown
  <2>2. CASE ~(i < size)
    <3>1. PICK j \in 0 .. n - 1 : i = size + j
      <4>1. i - size \in 0 .. n - 1 /\ i = size + (i - size)
        BY <2>2
      <4>. QED BY <4>1
    <3>2. start + size + j = start + i
      BY <3>1
    <3>3. <<"heap", i>> \in DOMAIN t /\ t[<<"heap", i>>] = kernel'[start + size + j]
      BY <3>1, <1>2
    <3>. QED BY <3>2, <3>3
  <2>. QED BY <2>1, <2>2
<1>8. ASSUME NEW x \in DOMAIN t, x[1] = "heap"
      PROVE  \E i \in 0 .. size + n - 1 : x = <<"heap", i>>
  <2>1. CASE x \in DOMAIN space[p]
    <3>1. PICK i \in 0 .. size - 1 : x = <<"heap", i>>
      BY <2>1, <1>4, <1>8
    <3>. QED BY <3>1
  <2>2. CASE x \in {<<"heap", size + i>> : i \in 0 .. n - 1}
    <3>1. PICK i \in 0 .. n - 1 : x = <<"heap", size + i>>
      BY <2>2
    <3>2. size + i \in 0 .. size + n - 1
      OBVIOUS
    <3>. QED BY <3>1, <3>2
  <2>. QED BY <2>1, <2>2, <1>2
<1>9. GoodView(p)'
  <2>1. {x \in DOMAIN t : x[1] = "heap"} = {<<"heap", i>> : i \in 0 .. size + n - 1}
    <3>1. ASSUME NEW x \in {<<"heap", i>> : i \in 0 .. size + n - 1}
          PROVE  x \in DOMAIN t /\ x[1] = "heap"
      <4>1. PICK i \in 0 .. size + n - 1 : x = <<"heap", i>>
        OBVIOUS
      <4>. QED BY <4>1, <1>7
    <3>. QED BY <3>1, <1>8
  <2>. QED BY <2>1, <1>3, <1>7, SMTT(30) DEF GoodView
<1>10. ASSUME NEW x \in DOMAIN t PROVE t[x] \in Frames
  BY <1>1, <1>5, <1>7, <1>8
<1>. QED BY <1>2, <1>6, <1>9, <1>10, SMTT(30) DEF GoodSpace

\* The first frames of a longer series of allocations.
LEMMA LowestPrefix ==
  ASSUME NEW n \in Nat, NEW k \in Nat, free \in SUBSET Frames, Enough(n + k)
  PROVE  /\ Enough(n) /\ Image(Lowest(n)) \in SUBSET free
         /\ Image(Lowest(n + k)) \in SUBSET free
         /\ \A i \in n + 1 .. n + k : /\ Lowest(n + k)[i] \in free
                                      /\ Lowest(n + k)[i] \notin Image(Lowest(n))
<1>1. Enough(n)
  BY FreeFinite DEF Enough
<1>2. /\ Lowest(n) \in [1 .. n -> free] /\ Lowest(n + k) \in [1 .. n + k -> free]
      /\ \A i, j \in 1 .. n + k : Lowest(n + k)[i] = Lowest(n + k)[j] => i = j
  BY <1>1, LowestFrames
<1>3. ASSUME NEW i \in 1 .. n PROVE Lowest(n)[i] = Lowest(n + k)[i]
  <2>1. i \in 1 .. n + k
    OBVIOUS
  <2>2. Lowest(n)[i] = CHOOSE f \in free : Cardinality({g \in free : g < f}) = i - 1
    BY Zenon DEF Lowest
  <2>3. Lowest(n + k)[i] = CHOOSE f \in free : Cardinality({g \in free : g < f}) = i - 1
    BY <2>1, Zenon DEF Lowest
  <2>. QED BY <2>2, <2>3, Zenon
<1>4. ASSUME NEW i \in n + 1 .. n + k
      PROVE  Lowest(n + k)[i] \in free /\ Lowest(n + k)[i] \notin Image(Lowest(n))
  <2>1. i \in 1 .. n + k /\ \A j \in 1 .. n : j # i /\ j \in 1 .. n + k
    OBVIOUS
  <2>2. Image(Lowest(n)) = {Lowest(n)[j] : j \in 1 .. n}
    BY <1>2, SMTT(30) DEF Image
  <2>. QED BY <2>1, <2>2, <1>2, <1>3, Zenon
<1>5. Image(Lowest(n)) \in SUBSET free /\ Image(Lowest(n + k)) \in SUBSET free
  <2>1. ASSUME NEW j \in Nat, NEW f, f \in [1 .. j -> free] PROVE Image(f) \in SUBSET free
    BY <2>1, Zenon DEF Image
  <2>2. n + k \in Nat
    OBVIOUS
  <2>. QED BY <1>2, <2>1, <2>2, Zenon
<1>. QED BY <1>1, <1>4, <1>5, Zenon

\* Only the kernel's pages grow.
LEMMA KernelOnly ==
  ASSUME MemoryInv, MappingInv', KernelFrames', Proxies', OneOwner', live \subseteq live',
         mapped \subseteq mapped', \A k \in mapped : kernel'[k] = kernel[k],
         \A o \in Owners : proxy[o] \subseteq proxy'[o],
         UNCHANGED <<running, heap, space>>, halted' \in BOOLEAN
  PROVE  MemoryInv'
<1>1. Heaps' /\ Spaces'
  <2>1. Heaps /\ Spaces /\ running' = running /\ heap' = heap /\ space' = space
    BY Zenon DEF MemoryInv
  <2>2. Heaps'
    <3>1. heap \in [Procs -> live \cup {None}] => heap \in [Procs -> live' \cup {None}]
      OBVIOUS
    <3>. QED BY <2>1, <3>1, Zenon DEF Heaps
  <2>3. Spaces'
    BY <2>1, Zenon DEF Spaces
  <2>. QED BY <2>2, <2>3, Zenon
<1>2. Grown
  BY Zenon DEF Grown, HeapPages
<1>3. ASSUME NEW r \in running' PROVE GoodSpace(r)'
  <2>1. r \in running /\ r \in Owners
    BY SMTT(30) DEF MemoryInv, Heaps, Owners
  <2>. QED BY <1>2, <2>1, SpaceKept
<1>. QED BY <1>1, <1>3 DEF MemoryInv

\* The heap of p becomes m, which no other process has.
HeapBecomes(p, m) ==
  /\ m # None /\ running' = running /\ heap' = [heap EXCEPT ![p] = m]
  /\ \A q \in Procs \ {p} : heap[q] # None => heap[q] \in live' /\ heap[q] # m

\* Such a step keeps the heaps apart.
LEMMA HeapsMoved ==
  ASSUME Heaps, NEW p \in running, NEW m \in live', HeapBecomes(p, m)
  PROVE  Heaps'
<1>. USE DEF HeapBecomes
<1>1. /\ running \in SUBSET Procs /\ p \in Procs /\ heap \in [Procs -> live \cup {None}]
      /\ \A q \in Procs : heap[q] # None => q \in running
      /\ \A q, r \in Procs : heap[q] # None /\ heap[q] = heap[r] => q = r
  BY Zenon DEF Heaps
<1>2. heap'[p] = m /\ \A q \in Procs \ {p} : heap'[q] = heap[q]
  BY <1>1, Zenon
<1>3. heap' \in [Procs -> live' \cup {None}]
  BY <1>1
<1>4. \A q \in Procs : heap'[q] # None => q \in running'
  BY <1>1, <1>2, Zenon
<1>5. ASSUME NEW q \in Procs, NEW r \in Procs, heap'[q] # None, heap'[q] = heap'[r]
      PROVE  q = r
  <2>1. CASE q = p
    BY <2>1, <1>2, <1>5, Zenon
  <2>2. CASE r = p
    BY <2>2, <1>2, <1>5, Zenon
  <2>3. CASE q # p /\ r # p
    BY <2>3, <1>1, <1>2, <1>5, Zenon
  <2>. QED BY <2>1, <2>2, <2>3, Zenon
<1>. QED BY <1>1, <1>3, <1>4, <1>5, Zenon DEF Heaps

\* The heap of p becomes m, in the kernel and in its address space.
LEMMA HeapMoved ==
  ASSUME MemoryInv, MappingInv', KernelFrames', Proxies', OneOwner',
         NEW p \in running, NEW m \in live', heap' = [heap EXCEPT ![p] = m],
         \A q \in Procs \ {p} : heap[q] # None => heap[q] \in live' /\ heap[q] # m,
         PagesOf(m) \cap mapped \subseteq HeapPages(p),
         mapped \subseteq mapped', \A k \in mapped : kernel'[k] = kernel[k],
         \A o \in Owners : proxy[o] \subseteq proxy'[o],
         UNCHANGED <<running, halted>>,
         NEW size \in Nat, size = HeapSize(p), NEW start \in Nat, NEW n \in Nat,
         heap[p] # None => heap[p].start = start,
         m.start = start, m.end = start + size + n,
         NEW t, MapsLocally(t, space[p], "heap", size, start + size, n),
         space' = [space EXCEPT ![p] = t],
         \A i \in 0 .. n - 1 : start + size + i \in mapped'
  PROVE  MemoryInv'
<1>1. /\ p \in Procs /\ m # None /\ heap'[p] = m /\ p \in Owners
      /\ \A q \in Procs \ {p} : heap'[q] = heap[q] /\ space'[q] = space[q]
      /\ space'[p] = t /\ DOMAIN space' = Procs
  BY SMTT(30) DEF MemoryInv, Heaps, Spaces, MappingInv, RangesOK, Owners
<1>2. Heaps'
  <2>1. Heaps /\ running' = running
    BY Zenon DEF MemoryInv
  <2>2. HeapBecomes(p, m)
    BY <2>1, <1>1, Zenon DEF HeapBecomes
  <2>. QED BY <2>1, <2>2, HeapsMoved, Zenon
<1>3. Grown
  <2>1. ASSUME NEW q \in Procs PROVE HeapPages(q)' \cap mapped \subseteq HeapPages(q)
    <3>1. CASE q = p
      BY <3>1, <1>1, Zenon DEF HeapPages
    <3>2. CASE q # p
      BY <3>2, <1>1, Zenon DEF HeapPages
    <3>. QED BY <3>1, <3>2, Zenon
  <2>. QED BY <2>1, Zenon DEF Grown
<1>4. \A i \in 0 .. n - 1 : kernel'[start + size + i] \in Frames
  BY Zenon DEF KernelFrames
<1>5. GoodSpace(p)' /\ t \in [DOMAIN t -> Frames]
  BY <1>1, <1>3, <1>4, HeapGrown, SMTT(60)
<1>6. ASSUME NEW r \in running' PROVE GoodSpace(r)'
  <2>1. r \in running /\ r \in Procs /\ r \in Owners
    BY Zenon DEF MemoryInv, Heaps, Owners
  <2>2. CASE r = p
    BY <2>2, <1>5, Zenon
  <2>3. CASE r # p
    BY <2>1, <2>3, <1>1, <1>3, SpaceKept, Zenon
  <2>. QED BY <2>2, <2>3, Zenon
<1>7. Spaces'
  <2>1. \A r \in Procs : space'[r] \in [DOMAIN space'[r] -> Frames]
    <3>1. ASSUME NEW r \in Procs, r # p PROVE space'[r] \in [DOMAIN space'[r] -> Frames]
      <4>1. space'[r] = space[r] /\ space[r] \in [DOMAIN space[r] -> Frames]
        BY <3>1, <1>1, Zenon DEF MemoryInv, Spaces
      <4>. QED BY <4>1, Zenon
    <3>2. space'[p] \in [DOMAIN space'[p] -> Frames]
      BY <1>1, <1>5, Zenon
    <3>. QED BY <3>1, <3>2, Zenon
  <2>. QED BY <2>1, <1>1, Zenon DEF Spaces
<1>. QED BY <1>2, <1>6, <1>7, Zenon DEF MemoryInv

\* __page_fault_handler on the first touch of a heap.
LEMMA CreateHeapInv ==
  ASSUME MemoryInv, NEW p \in Procs, NEW n \in Nat \ {0}, CreateHeap(p, n) PROVE MemoryInv'
<1>1. CASE ~Enough(n)
  BY <1>1, PanicInv, Zenon DEF CreateHeap, Panic
<1>2. CASE Enough(n)
  <2>1. /\ p \in running /\ heap[p] = None /\ New(n) /\ MapKernelPages(offset, Lowest(n))
        /\ running' = running
    BY <1>2, SMTT(30) DEF CreateHeap
  <2>2. /\ offset \in Nat /\ mapped \in SUBSET Nat
        /\ Pages(offset, offset + n) \in SUBSET Nat
        /\ Pages(offset, offset + n) \cap mapped = {}
        /\ mapped' = mapped \cup Pages(offset, offset + n)
        /\ \A x \in Pages(offset, offset + n) : x - offset + 1 \in 1 .. n
        /\ \A i \in 0 .. n - 1 : offset + i \in Pages(offset, offset + n)
        /\ live' = live \cup {[start |-> offset, end |-> offset + n]}
    BY <2>1, NewPages, Zenon DEF MemoryInv
  <2>3. MappingInv'
    BY <2>1, NewInv, Zenon DEF MemoryInv
  <2>4. /\ Lowest(n) \in [1 .. n -> free] /\ Image(Lowest(n)) \in SUBSET free
        /\ \A i, j \in 1 .. n : Lowest(n)[i] = Lowest(n)[j] => i = j
    <3>1. /\ Lowest(n) \in [1 .. n -> free]
          /\ \A i, j \in 1 .. n : Lowest(n)[i] = Lowest(n)[j] => i = j
      <4>1. n \in Nat /\ free \in SUBSET Frames
        BY DEF MemoryInv, Proxies
      <4>. QED BY <4>1, <1>2, LowestFrames, Zenon
    <3>2. Image(Lowest(n)) \in SUBSET free
      BY <3>1, SMTT(30) DEF Image
    <3>. QED BY <3>1, <3>2, Zenon
  <2>5. ASSUME NEW P \in SUBSET free, Image(Lowest(n)) \cap P = {}, Take(Image(Lowest(n)), P, p)
        PROVE  /\ Proxies' /\ OneOwner' /\ \A o \in Owners : proxy[o] \subseteq proxy'[o]
               /\ KernelFrames' /\ \A k \in mapped : kernel'[k] = kernel[k]
    <3>1. /\ Proxies' /\ OneOwner' /\ \A o \in Owners : proxy[o] \subseteq proxy'[o]
          /\ proxy'[Kernel] = proxy[Kernel] \cup Image(Lowest(n))
      BY <2>4, <2>5, TakeOwned, Zenon DEF MemoryInv
    <3>2. KernelFrames' /\ \A k \in mapped : kernel'[k] = kernel[k]
      BY <2>1, <2>2, <2>4, <3>1, KernelGrown, Zenon DEF MemoryInv
    <3>. QED BY <3>1, <3>2, SMTT(30)
  <2>6. CASE Enough(n + 1)
    <3>. DEFINE m == [start |-> offset, end |-> offset + n]
    <3>1. PICK P, t : /\ P = {Lowest(n + 1)[n + 1]}
                      /\ t = MapLocalPages(space[p], "heap", 0, offset, n)
      BY Zenon
    <3>2. /\ space' = [space EXCEPT ![p] = t] /\ heap' = [heap EXCEPT ![p] = m]
          /\ Take(Image(Lowest(n)), P, p) /\ halted' = halted
      BY <3>1, <2>6, <1>2, SMTT(30) DEF CreateHeap
    <3>3. P \in SUBSET free /\ Image(Lowest(n)) \cap P = {}
      BY <3>1, <2>6, LowestPrefix DEF MemoryInv, Proxies
    <3>4. m \in live' /\ m.start = offset /\ m.end = offset + 0 + n /\ PagesOf(m) \cap mapped = {}
      BY <2>2, SMTT(30) DEF PagesOf
    <3>5. ASSUME NEW q \in Procs \ {p}, heap[q] # None PROVE heap[q] \in live' /\ heap[q] # m
      <4>1. heap[q] \in live /\ heap[q].start < heap[q].end /\ heap[q].end <= offset
            /\ heap[q].start \in Nat /\ heap[q].end \in Nat
        BY <3>5, HeapRange DEF MemoryInv
      <4>. QED BY <4>1, <2>2, <3>4, SMTT(30)
    <3>6. MapsLocally(t, space[p], "heap", 0, offset + 0, n)
      <4>1. MapsLocally(t, space[p], "heap", 0, offset, n)
        BY <3>1, <2>2, LocalPages
      <4>2. offset + 0 = offset
        BY <2>2
      <4>. QED BY <4>1, <4>2, Zenon
    <3>7. HeapSize(p) = 0 /\ \A i \in 0 .. n - 1 : offset + 0 + i \in mapped'
      BY <2>1, <2>2, SMTT(30) DEF HeapSize
    <3>. HIDE DEF m
    <3>8. /\ Proxies' /\ OneOwner' /\ \A o \in Owners : proxy[o] \subseteq proxy'[o]
          /\ KernelFrames' /\ \A k \in mapped : kernel'[k] = kernel[k]
      BY <3>2, <3>3, <2>5, Zenon
    <3>9. /\ mapped \subseteq mapped' /\ UNCHANGED <<running, halted>>
          /\ PagesOf(m) \cap mapped \subseteq HeapPages(p) /\ 0 \in Nat /\ 0 = HeapSize(p)
          /\ heap[p] # None => heap[p].start = offset
      BY <2>1, <2>2, <3>2, <3>4, <3>7, SMTT(30)
    <3>. QED BY <2>1, <2>2, <2>3, <3>2, <3>4, <3>5, <3>6, <3>7, <3>8, <3>9, HeapMoved, Zenon
  <2>7. CASE ~Enough(n + 1)
    <3>1. PICK P : P = {}
      BY Zenon
    <3>2. UNCHANGED <<space, heap>> /\ Take(Image(Lowest(n)), P, p) /\ halted' \in BOOLEAN
      BY <3>1, <2>7, <1>2 DEF CreateHeap
    <3>3. P \in SUBSET free /\ Image(Lowest(n)) \cap P = {}
      BY <3>1
    <3>4. /\ Proxies' /\ OneOwner' /\ \A o \in Owners : proxy[o] \subseteq proxy'[o]
          /\ KernelFrames' /\ \A k \in mapped : kernel'[k] = kernel[k]
      BY <3>2, <3>3, <2>5, Zenon
    <3>. QED BY <2>1, <2>2, <2>3, <3>2, <3>4, KernelOnly, Zenon
  <2>. QED BY <2>6, <2>7
<1>. QED BY <1>1, <1>2

\* The pages that an extension maps before it meets a mapped one follow the mapping.
LEMMA PrefixPages ==
  ASSUME MappingInv, NEW m \in live, NEW n \in Nat
  PROVE  LET k == Cardinality(Prefix(m, n))
         IN  /\ k \in 0 .. n /\ Prefix(m, n) = Pages(m.end, m.end + k)
             /\ Prefix(m, n) \cap mapped = {}
             /\ Pages(m.end, m.end + n) \cap mapped = {} => k = n
<1>1. m.end \in Nat /\ mapped \in SUBSET Nat
  BY DEF MappingInv, RangesOK
<1>. DEFINE met == Pages(m.end, m.end + n) \cap mapped
<1>2. \E j \in 0 .. n : /\ Prefix(m, n) = Pages(m.end, m.end + j)
                        /\ met = {} => j = n
  <2>1. CASE met = {}
    BY <1>1, <2>1 DEF Prefix, Pages
  <2>2. CASE met # {}
    <3>1. met \subseteq Nat
      BY <1>1, Zenon
    <3>2. PICK c \in met : \A g \in met : c <= g
      BY <2>2, <3>1, Least, Zenon
    <3>3. c \in Nat /\ c - m.end \in 0 .. n
      BY <1>1, <3>2 DEF Pages
    <3>4. Prefix(m, n) = Pages(m.end, m.end + (c - m.end))
      <4>1. ASSUME NEW x \in Prefix(m, n) PROVE x \in Pages(m.end, m.end + (c - m.end))
        BY <1>1, <3>2, <3>3 DEF Prefix, Pages
      <4>2. ASSUME NEW x \in Pages(m.end, m.end + (c - m.end)) PROVE x \in Prefix(m, n)
        <5>1. x \in Pages(m.end, m.end + n) /\ x < c /\ x \in Nat
          BY <1>1, <3>2, <3>3 DEF Pages
        <5>2. \A g \in met : x < g
          BY <5>1, <3>1, <3>2, <3>3
        <5>. QED BY <5>1, <5>2 DEF Prefix
      <4>. QED BY <4>1, <4>2, Zenon
    <3>. QED BY <3>3, <3>4, <2>2
  <2>. QED BY <2>1, <2>2
<1>3. PICK j \in 0 .. n : /\ Prefix(m, n) = Pages(m.end, m.end + j)
                          /\ met = {} => j = n
  BY <1>2
<1>4. Cardinality(Prefix(m, n)) = j
  <2>1. m.end \in Int /\ m.end + j - 1 \in Int
    BY <1>1
  <2>2. Cardinality(m.end .. m.end + j - 1) =
          IF m.end > m.end + j - 1 THEN 0 ELSE (m.end + j - 1) - m.end + 1
    BY <2>1, FS_Interval, Zenon
  <2>3. (IF m.end > m.end + j - 1 THEN 0 ELSE (m.end + j - 1) - m.end + 1) = j
    BY <1>1
  <2>4. Pages(m.end, m.end + j) = m.end .. m.end + j - 1
    BY <1>1 DEF Pages
  <2>. QED BY <1>3, <2>2, <2>3, <2>4, Zenon
<1>5. Prefix(m, n) \cap mapped = {}
  <2>1. SUFFICES ASSUME NEW x \in Prefix(m, n), x \in mapped PROVE FALSE
    OBVIOUS
  <2>2. x \in Nat /\ x < x
    BY <2>1, <1>1 DEF Prefix
  <2>. QED BY <2>2
<1>. QED BY <1>3, <1>4, <1>5

\* What an extension that ends half-way leaves in the address spaces: pages that were
\* there, and pages of the heap of p that lead to frames that were free.
PartOf(p, q, x) ==
  /\ q = p /\ x[1] = "heap"
  /\ space'[q][x] \in free /\ space'[q][x] \in proxy'[Kernel] /\ space'[q][x] \in Frames
Partly(p) ==
  \A q \in running : \A x \in DOMAIN space'[q] :
    PartOf(p, q, x) \/ (x \in DOMAIN space[q] /\ space'[q][x] = space[q][x])

\* The pages of the heap of p that were mapped when a table was missing.
LEMMA PartlyPages ==
  ASSUME Proxies, running \in SUBSET Procs, Spaces, KernelFrames',
         NEW p \in running, NEW size \in Nat, NEW start \in Nat, NEW n \in Nat,
         NEW t, MapsLocally(t, space[p], "heap", size, start, n), space' = [space EXCEPT ![p] = t],
         \A i \in 0 .. n - 1 : start + i \in mapped' /\ kernel'[start + i] \in free
  PROVE  Partly(p) /\ Spaces'
<1>1. /\ p \in Procs /\ space'[p] = t /\ DOMAIN space' = Procs
      /\ \A q \in Procs \ {p} : space'[q] = space[q]
  BY DEF Spaces
<1>2. ASSUME NEW x \in DOMAIN t
      PROVE  \/ /\ x[1] = "heap" /\ t[x] \in free /\ t[x] \in Frames /\ t[x] \in proxy'[Kernel]
             \/ x \in DOMAIN space[p] /\ t[x] = space[p][x]
  <2>1. CASE \E i \in 0 .. n - 1 : x = <<"heap", size + i>>
    <3>1. PICK i \in 0 .. n - 1 : x = <<"heap", size + i>>
      BY <2>1, Zenon
    <3>2. t[x] = kernel'[start + i] /\ start + i \in mapped' /\ kernel'[start + i] \in free
      BY <3>1, Zenon DEF MapsLocally
    <3>3. kernel'[start + i] \in proxy'[Kernel]
      <4>1. mapped' = DOMAIN kernel' /\ Image(kernel') \subseteq proxy'[Kernel]
        BY DEF KernelFrames
      <4>. QED BY <4>1, <3>2, Zenon DEF Image
    <3>4. x[1] = "heap"
      BY <3>1
    <3>. QED BY <3>2, <3>3, <3>4, Zenon DEF Proxies
  <2>2. CASE \A i \in 0 .. n - 1 : x # <<"heap", size + i>>
    <3>1. DOMAIN t = DOMAIN space[p] \cup {<<"heap", size + i>> : i \in 0 .. n - 1}
      BY Zenon DEF MapsLocally
    <3>2. x \in DOMAIN space[p]
      BY <2>2, <3>1, Zenon
    <3>. QED BY <2>2, <3>2, Zenon DEF MapsLocally
  <2>. QED BY <2>1, <2>2, Zenon
<1>3. Partly(p)
  <2>1. SUFFICES ASSUME NEW q \in running, NEW x \in DOMAIN space'[q]
                 PROVE  PartOf(p, q, x) \/ (x \in DOMAIN space[q] /\ space'[q][x] = space[q][x])
    BY Zenon DEF Partly
  <2>2. CASE q = p
    BY <2>2, <1>1, <1>2, Zenon DEF PartOf
  <2>3. CASE q # p
    BY <2>3, <1>1, Zenon
  <2>. QED BY <2>2, <2>3, Zenon
<1>4. t \in [DOMAIN t -> Frames]
  <2>1. \A x \in DOMAIN space[p] : space[p][x] \in Frames
    BY <1>1, Zenon DEF Spaces
  <2>2. \A x \in DOMAIN t : t[x] \in Frames
    BY <1>2, <2>1, Zenon
  <2>3. t = [x \in DOMAIN t |-> t[x]]
    BY Zenon DEF MapsLocally
  <2>. QED BY <2>2, <2>3, Zenon
<1>5. ASSUME NEW r \in Procs PROVE space'[r] \in [DOMAIN space'[r] -> Frames]
  <2>1. CASE r = p
    BY <2>1, <1>1, <1>4, Zenon
  <2>2. CASE r # p
    <3>1. space'[r] = space[r] /\ space[r] \in [DOMAIN space[r] -> Frames]
      BY <2>2, <1>1, Zenon DEF Spaces
    <3>. QED BY <3>1, Zenon
  <2>. QED BY <2>1, <2>2, Zenon
<1>6. Spaces'
  BY <1>1, <1>5, Zenon DEF Spaces
<1>. QED BY <1>3, <1>6, Zenon

\* No frame of such a space is free.
LEMMA PartlyNotFree ==
  ASSUME MemoryInv, NEW p \in running, Partly(p), KernelFrames', Proxies', OneOwner',
         running' = running, \A o \in Owners : proxy[o] \subseteq proxy'[o]
  PROVE  MappedNotFree'
<1>1. ASSUME NEW o \in Owners, NEW f \in proxy'[o] PROVE f \notin free'
  <2>1. proxy'[o] \in SUBSET Frames
    BY DEF Proxies
  <2>2. f \in Frames
    BY <2>1, Zenon
  <2>. QED BY <2>2, Zenon DEF OneOwner
<1>2. Kernel \in Owners /\ running \in SUBSET Owners
  BY DEF MemoryInv, Heaps, Owners
<1>3. ASSUME NEW f \in Image(kernel') PROVE f \notin free'
  <2>1. f \in proxy'[Kernel]
    BY <1>3, Zenon DEF KernelFrames
  <2>. QED BY <2>1, <1>1, <1>2, Zenon
<1>4. ASSUME NEW q \in running, NEW x \in DOMAIN space'[q] PROVE space'[q][x] \notin free'
  <2>1. CASE PartOf(p, q, x)
    BY <2>1, <1>1, <1>2, Zenon DEF PartOf
  <2>2. CASE x \in DOMAIN space[q] /\ space'[q][x] = space[q][x]
    <3>1. space[q][x] \in proxy[q] \cup proxy[Kernel] /\ q \in Owners
      BY <2>2, <1>2, PageOwned, Zenon
    <3>2. space[q][x] \in proxy'[q] \/ space[q][x] \in proxy'[Kernel]
      BY <3>1, <1>2, Zenon
    <3>. QED BY <2>2, <3>1, <3>2, <1>1, <1>2, Zenon
  <2>. QED BY <2>1, <2>2, Zenon DEF Partly
<1>5. ASSUME NEW f \in free', f \in Image(kernel') \cup UNION {Image(space'[q]) : q \in running'}
      PROVE  FALSE
  <2>1. CASE f \in Image(kernel')
    BY <2>1, <1>3, Zenon
  <2>2. CASE f \in UNION {Image(space'[q]) : q \in running'}
    <3>1. PICK q \in running : f \in Image(space'[q])
      BY <2>2, Zenon
    <3>2. PICK x \in DOMAIN space'[q] : f = space'[q][x]
      BY <3>1, Zenon DEF Image
    <3>. QED BY <3>2, <1>4, Zenon
  <2>. QED BY <1>5, <2>1, <2>2, Zenon
<1>. QED BY <1>5, Zenon DEF MappedNotFree

\* Where the frames of such a space come from.
LEMMA PartlyProvenance ==
  ASSUME MemoryInv, NEW p \in running, Partly(p), KernelFrames', Heaps', Grown,
         running' = running, \A o \in Owners : proxy[o] \subseteq proxy'[o]
  PROVE  Provenance'
<1>1. ASSUME NEW q \in running, NEW x \in DOMAIN space'[q]
      PROVE  \/ x[1] = "heap"
             \/ x[1] = "stack" /\ space'[q][x] \in proxy'[q]
             \/ /\ x[1] \in {"code", "module"}
                /\ \E k \in mapped' :
                     /\ space'[q][x] = kernel'[k]
                     /\ \A o \in Procs : heap'[o] # None => k \notin PagesOf(heap'[o])
  <2>1. CASE PartOf(p, q, x)
    BY <2>1, Zenon DEF PartOf
  <2>2. CASE x \in DOMAIN space[q] /\ space'[q][x] = space[q][x]
    <3>1. GoodPage(q, x) /\ q \in Owners
      BY <2>2, Zenon DEF MemoryInv, GoodSpace, Heaps, Owners
    <3>2. PICK f : f = space[q][x]
      OBVIOUS
    <3>3. ASSUME ObjectFrame(f)
          PROVE  \E k \in mapped' :
                   /\ f = kernel'[k]
                   /\ \A o \in Procs : heap'[o] # None => k \notin PagesOf(heap'[o])
      <4>1. ObjectFrame(f)'
        BY <3>3, ObjectKept, Zenon
      <4>2. PICK k \in mapped' : f = kernel'[k] /\ \A o \in Procs : k \notin HeapPages(o)'
        BY <4>1, Zenon DEF ObjectFrame
      <4>3. ASSUME NEW o \in Procs, heap'[o] # None PROVE k \notin PagesOf(heap'[o])
        BY <4>2, <4>3, Zenon DEF HeapPages
      <4>. QED BY <4>2, <4>3, Zenon
    <3>. QED BY <2>2, <3>1, <3>2, <3>3, Zenon DEF GoodPage
  <2>. QED BY <2>1, <2>2, Zenon DEF Partly
<1>. QED BY <1>1, Zenon DEF KernelFrames, Heaps, Provenance

\* The pages that are there only in part are private too.
LEMMA PartlyPrivate ==
  ASSUME MemoryInv, NEW p \in running, Partly(p), running' = running PROVE PrivateSpaces'
<1>1. ASSUME NEW q \in running, NEW x \in DOMAIN space[q] PROVE space[q][x] \notin free
  <2>1. space[q][x] \in proxy[q] \cup proxy[Kernel] /\ q \in Owners /\ Kernel \in Owners
        /\ space[q][x] \in Frames
    BY PageOwned, Zenon DEF MemoryInv, Heaps, Owners
  <2>. QED BY <2>1, Zenon DEF MemoryInv, OneOwner
<1>2. ASSUME NEW q \in running, NEW o \in running, q # o,
             NEW x \in DOMAIN space'[q], x[1] \in {"heap", "stack"},
             NEW y \in DOMAIN space'[o], space'[q][x] = space'[o][y]
      PROVE  FALSE
  <2>1. CASE space'[q][x] \in free
    <3>1. q = p
      BY <2>1, <1>1, Zenon DEF Partly, PartOf
    <3>2. space'[o][y] \in free
      BY <1>2, <2>1, Zenon
    <3>3. o = p
      BY <3>2, <1>1, Zenon DEF Partly, PartOf
    <3>. QED BY <1>2, <3>1, <3>3, Zenon
  <2>2. CASE space'[q][x] \notin free
    <3>1. x \in DOMAIN space[q] /\ space'[q][x] = space[q][x]
      BY <2>2, Zenon DEF Partly, PartOf
    <3>2. y \in DOMAIN space[o] /\ space'[o][y] = space[o][y]
      BY <1>2, <2>2, Zenon DEF Partly, PartOf
    <3>3. space[q][x] \in FramesOf(q, {"heap", "stack"}) /\ space[q][x] \in Image(space[o])
      BY <1>2, <3>1, <3>2, Zenon DEF FramesOf, Image
    <3>. QED BY <1>2, <3>3, InvPrivate, Zenon DEF PrivateSpaces
  <2>. QED BY <2>1, <2>2, Zenon
<1>3. ASSUME NEW q \in running', NEW o \in running', q # o,
             NEW f \in FramesOf(q, {"heap", "stack"})', f \in Image(space'[o])
      PROVE  FALSE
  <2>1. PICK x \in DOMAIN space'[q] : x[1] \in {"heap", "stack"} /\ f = space'[q][x]
    BY <1>3, Zenon DEF FramesOf
  <2>2. PICK y \in DOMAIN space'[o] : f = space'[o][y]
    BY <1>3, Zenon DEF Image
  <2>. QED BY <1>2, <1>3, <2>1, <2>2, Zenon
<1>. QED BY <1>3, Zenon DEF PrivateSpaces

\* A heap whose pages are new in the kernel, and mapped in part when it panics.
LEMMA PartlyMapped ==
  ASSUME MemoryInv, Grants', MappingInv', KernelFrames', Proxies', OneOwner', live' = live,
         mapped \subseteq mapped', \A k \in mapped : kernel'[k] = kernel[k],
         \A o \in Owners : proxy[o] \subseteq proxy'[o],
         UNCHANGED <<running, heap>>, halted' \in BOOLEAN,
         NEW p \in running, NEW size \in Nat, NEW start \in Nat, NEW n \in Nat,
         NEW t, MapsLocally(t, space[p], "heap", size, start, n), space' = [space EXCEPT ![p] = t],
         \A i \in 0 .. n - 1 : start + i \in mapped' /\ kernel'[start + i] \in free
  PROVE  SafeInv'
<1>1. Proxies /\ Heaps /\ Spaces /\ running \in SUBSET Procs
  BY Zenon DEF MemoryInv, Heaps
<1>2. Partly(p) /\ Spaces'
  BY <1>1, PartlyPages, Zenon
<1>3. running' = running /\ heap' = heap
  BY Zenon
<1>4. Heaps'
  BY <1>1, <1>3, Zenon DEF Heaps
<1>5. Grown
  BY <1>3, Zenon DEF Grown, HeapPages
<1>6. TypeOK'
  <2>1. opened' \in SUBSET Owners /\ exposed' \in SUBSET Frames /\ asked' \in SUBSET Procs
    BY Zenon DEF Grants, Owners
  <2>. QED BY <2>1, <1>2, <1>4, Zenon DEF TypeOK, KernelFrames, Proxies, Heaps, Spaces
<1>7. MappedNotFree'
  BY <1>2, <1>3, PartlyNotFree, Zenon
<1>8. Provenance'
  BY <1>2, <1>3, <1>4, <1>5, PartlyProvenance, Zenon
<1>9. PrivateSpaces'
  BY <1>2, <1>3, PartlyPrivate, Zenon
<1>. QED BY <1>6, <1>7, <1>8, <1>9, Zenon DEF SafeInv, FramesInv

\* __page_fault_handler beyond the end of a heap.
LEMMA ExtendHeapInv ==
  ASSUME MemoryInv, Grants', NEW p \in Procs, NEW n \in Nat \ {0}, NEW t \in Nat,
         ExtendHeap(p, n, t)
  PROVE  MemoryInv' \/ (halted' /\ SafeInv')
<1>1. PICK old, k, took : /\ old = heap[p] /\ k = Cardinality(Prefix(old, n))
                          /\ took = IF k = n THEN n ELSE k + 1
  OBVIOUS
<1>2. /\ p \in running /\ old # None
      /\ \/ ~Enough(took) /\ Panic
         \/ /\ Enough(took + t) /\ Extend(old, n) /\ MapKernelPages(old.end, Lowest(took))
            /\ space' = [space EXCEPT ![p] =
                 MapLocalPages(@, "heap", old.end - old.start, old.end, n)]
            /\ heap' = [heap EXCEPT ![p] = Extended(old, n)]
            /\ Take(Image(Lowest(took)), Image(Lowest(took + t)) \ Image(Lowest(took)), p)
            /\ UNCHANGED <<running, halted>>
         \/ /\ Enough(took) /\ ExtendFails(old, n) /\ MapKernelPages(old.end, Lowest(took))
            /\ Take(Image(Lowest(took)), {}, p)
            /\ halted' = TRUE /\ UNCHANGED <<running, heap>>
            /\ \/ UNCHANGED space
               \/ k = n /\ \E done \in 0 .. n - 1 :
                              space' = [space EXCEPT ![p] =
                                MapLocalPages(@, "heap", old.end - old.start, old.end, done)]
  BY <1>1, Zenon DEF ExtendHeap
<1>3. /\ old \in live /\ old.start \in Nat /\ old.end \in Nat /\ old.start < old.end
      /\ old.end <= offset /\ HeapSize(p) = old.end - old.start /\ HeapSize(p) \in Nat
      /\ HeapPages(p) = PagesOf(old) /\ mapped \in SUBSET Nat /\ offset \in Nat
  BY <1>1, <1>2, HeapRange, Zenon DEF MemoryInv, MappingInv, RangesOK
<1>4. /\ k \in 0 .. n /\ Prefix(old, n) = Pages(old.end, old.end + k)
      /\ Prefix(old, n) \cap mapped = {}
      /\ Pages(old.end, old.end + n) \cap mapped = {} => k = n
  BY <1>1, <1>3, PrefixPages, Zenon DEF MemoryInv
<1>5. took \in Nat /\ k <= took
  BY <1>1, <1>4
<1>6. ASSUME NEW byProc \in SUBSET free, Image(Lowest(took)) \cap byProc = {}, Enough(took),
             Take(Image(Lowest(took)), byProc, p), MapKernelPages(old.end, Lowest(took)),
             mapped' = mapped \cup Prefix(old, n)
      PROVE  /\ Proxies' /\ OneOwner' /\ \A o \in Owners : proxy[o] \subseteq proxy'[o]
             /\ KernelFrames' /\ \A x \in mapped : kernel'[x] = kernel[x]
             /\ \A x \in Prefix(old, n) : kernel'[x] \in free
  <2>1. /\ Lowest(took) \in [1 .. took -> free] /\ Image(Lowest(took)) \in SUBSET free
        /\ \A i, j \in 1 .. took : Lowest(took)[i] = Lowest(took)[j] => i = j
    <3>1. /\ Lowest(took) \in [1 .. took -> free]
          /\ \A i, j \in 1 .. took : Lowest(took)[i] = Lowest(took)[j] => i = j
      <4>1. free \in SUBSET Frames /\ took \in Nat
        BY <1>5, Zenon DEF MemoryInv, Proxies
      <4>. QED BY <4>1, <1>6, LowestFrames, Zenon
    <3>2. Image(Lowest(took)) \in SUBSET free
      BY <3>1, Zenon DEF Image
    <3>. QED BY <3>1, <3>2, Zenon
  <2>2. /\ Proxies' /\ OneOwner' /\ \A o \in Owners : proxy[o] \subseteq proxy'[o]
        /\ proxy'[Kernel] = proxy[Kernel] \cup Image(Lowest(took))
    <3>1. Proxies /\ OneOwner
      BY DEF MemoryInv
    <3>. QED BY <3>1, <2>1, <1>6, TakeOwned, Zenon
  <2>3. Prefix(old, n) \in SUBSET Nat /\ \A x \in Prefix(old, n) : x - old.end + 1 \in 1 .. took
    <3>1. \A x \in Pages(old.end, old.end + k) : x \in Nat /\ x - old.end + 1 \in 1 .. k
      <4>1. old.end \in Nat /\ k \in Nat
        BY <1>3, <1>4
      <4>. QED BY <4>1 DEF Pages
    <3>. QED BY <3>1, <1>4, <1>5
  <2>4. KernelFrames' /\ \A x \in mapped : kernel'[x] = kernel[x]
    BY <1>3, <1>4, <1>5, <1>6, <2>1, <2>2, <2>3, KernelGrown, Zenon DEF MemoryInv
  <2>5. \A x \in Prefix(old, n) : kernel'[x] \in free
    <3>1. ASSUME NEW x \in Prefix(old, n) PROVE kernel'[x] = Lowest(took)[x - old.end + 1]
      <4>1. x \in mapped' /\ x \notin mapped
        BY <1>4, <1>6, Zenon
      <4>. QED BY <4>1, <1>6, Zenon DEF MapKernelPages
    <3>2. ASSUME NEW i \in 1 .. took PROVE Lowest(took)[i] \in free
      BY <2>1, <3>2, Zenon
    <3>3. ASSUME NEW x \in Prefix(old, n) PROVE Lowest(took)[x - old.end + 1] \in free
      <4>1. x - old.end + 1 \in 1 .. took
        BY <2>3, <3>3, Zenon
      <4>. QED BY <4>1, <3>2, Zenon
    <3>. QED BY <3>1, <3>3, Zenon
  <2>. QED BY <2>2, <2>4, <2>5, Zenon
<1>7. CASE ~Enough(took) /\ Panic
  BY <1>7, PanicInv DEF Panic
<1>8. CASE /\ Enough(took + t) /\ Extend(old, n) /\ MapKernelPages(old.end, Lowest(took))
           /\ space' = [space EXCEPT ![p] =
                MapLocalPages(@, "heap", old.end - old.start, old.end, n)]
           /\ heap' = [heap EXCEPT ![p] = Extended(old, n)]
           /\ Take(Image(Lowest(took)), Image(Lowest(took + t)) \ Image(Lowest(took)), p)
           /\ UNCHANGED <<running, halted>>
  <2>. DEFINE m == [start |-> old.start, end |-> old.end + n]
  <2>1. /\ Pages(old.end, old.end + n) \cap mapped = {}
        /\ mapped' = mapped \cup Pages(old.end, old.end + n)
        /\ live' = (live \ {old}) \cup {m} /\ heap' = [heap EXCEPT ![p] = m]
    BY <1>8 DEF Extend, Extended
  <2>2. mapped' = mapped \cup Prefix(old, n)
    BY <2>1, <1>4
  <2>3. PICK byProc, s : /\ byProc = Image(Lowest(took + t)) \ Image(Lowest(took))
                         /\ s = MapLocalPages(space[p], "heap", HeapSize(p), old.end, n)
    BY Zenon
  <2>4. /\ space' = [space EXCEPT ![p] = s] /\ Take(Image(Lowest(took)), byProc, p)
        /\ byProc \in SUBSET free /\ Image(Lowest(took)) \cap byProc = {} /\ Enough(took)
    BY <2>3, <1>3, <1>5, <1>8, LowestPrefix, Zenon DEF MemoryInv, Proxies
  <2>5. /\ Proxies' /\ OneOwner' /\ \A o \in Owners : proxy[o] \subseteq proxy'[o]
        /\ KernelFrames' /\ \A x \in mapped : kernel'[x] = kernel[x]
    BY <2>2, <2>4, <1>6, <1>8, Zenon
  <2>6. MappingInv'
    BY <1>3, <1>8, ExtendInv DEF MemoryInv
  <2>7. /\ m \in live' /\ m.start = old.start
        /\ m.end = old.start + HeapSize(p) + n
        /\ old.start + HeapSize(p) = old.end
    BY <2>1, <1>3, SMTT(30)
  <2>8. ASSUME NEW q \in Procs \ {p}, heap[q] # None PROVE heap[q] \in live' /\ heap[q] # m
    <3>1. heap[q] \in live /\ heap[q] # old /\ heap[q].start < heap[q].end
          /\ heap[q].start \in Nat /\ heap[q].end \in Nat
      BY <1>1, <1>2, <2>8, HeapRange, Zenon DEF MemoryInv, Heaps
    <3>2. PagesOf(heap[q]) \cap PagesOf(old) = {}
      <4>1. Separate
        BY Zenon DEF MemoryInv, MappingInv
      <4>. QED BY <3>1, <4>1, <1>3, Zenon DEF Separate
    <3>3. heap[q].start # old.start
      <4>1. \A r : r.start \in Nat /\ r.end \in Nat /\ r.start < r.end => r.start \in PagesOf(r)
        BY DEF PagesOf, Pages
      <4>2. old.start \in Nat /\ old.end \in Nat /\ old.start < old.end
        BY <1>3, Zenon
      <4>3. heap[q].start \in PagesOf(heap[q]) /\ old.start \in PagesOf(old)
        BY <3>1, <4>1, <4>2, Zenon
      <4>. QED BY <3>2, <4>3, Zenon
    <3>4. heap[q] \in live'
      BY <3>1, <2>1, Zenon
    <3>5. m.start = old.start
      OBVIOUS
    <3>. QED BY <3>3, <3>4, <3>5, Zenon
  <2>9. PagesOf(m) \cap mapped \subseteq HeapPages(p)
    <3>1. PagesOf(m) = PagesOf(old) \cup Pages(old.end, old.end + n)
      BY <1>3, SMTT(30) DEF PagesOf, Pages
    <3>. QED BY <3>1, <2>1, <1>3, Zenon
  <2>10. MapsLocally(s, space[p], "heap", HeapSize(p), old.start + HeapSize(p), n)
    BY <2>3, <2>7, <1>3, LocalPages, Zenon
  <2>11. \A i \in 0 .. n - 1 : old.start + HeapSize(p) + i \in mapped'
    BY <2>1, <2>7, <1>3 DEF Pages
  <2>12. /\ mapped \subseteq mapped' /\ n \in Nat
         /\ heap[p] # None => heap[p].start = old.start
    BY <2>1, <1>1, Zenon
  <2>. HIDE DEF m
  <2>13. PICK size, start : size = HeapSize(p) /\ start = old.start
    BY SMTT(30)
  <2>14. /\ size \in Nat /\ start \in Nat /\ m.start = start /\ m.end = start + size + n
         /\ heap[p] # None => heap[p].start = start
         /\ MapsLocally(s, space[p], "heap", size, start + size, n)
         /\ \A i \in 0 .. n - 1 : start + size + i \in mapped'
    BY <1>3, <2>7, <2>10, <2>11, <2>12, <2>13, Zenon
  <2>15. UNCHANGED <<running, halted>> /\ p \in running /\ m \in live'
    BY <1>2, <1>8, <2>7, Zenon
  <2>. QED BY <2>1, <2>4, <2>5, <2>6, <2>8, <2>9, <2>12, <2>13, <2>14, <2>15, HeapMoved, Zenon
<1>9. CASE /\ Enough(took) /\ ExtendFails(old, n) /\ MapKernelPages(old.end, Lowest(took))
           /\ Take(Image(Lowest(took)), {}, p)
           /\ halted' = TRUE /\ UNCHANGED <<running, heap>>
           /\ \/ UNCHANGED space
              \/ k = n /\ \E done \in 0 .. n - 1 :
                             space' = [space EXCEPT ![p] =
                               MapLocalPages(@, "heap", old.end - old.start, old.end, done)]
  <2>1. mapped' = mapped \cup Prefix(old, n) /\ live' = live
    BY <1>9, SMTT(30) DEF ExtendFails
  <2>2. /\ Proxies' /\ OneOwner' /\ \A o \in Owners : proxy[o] \subseteq proxy'[o]
        /\ KernelFrames' /\ \A x \in mapped : kernel'[x] = kernel[x]
        /\ \A x \in Prefix(old, n) : kernel'[x] \in free
    <3>1. PICK byProc : byProc = {}
      BY Zenon
    <3>2. /\ byProc \in SUBSET free /\ Image(Lowest(took)) \cap byProc = {}
          /\ Take(Image(Lowest(took)), byProc, p) /\ Enough(took)
          /\ MapKernelPages(old.end, Lowest(took))
      BY <3>1, <1>9, Zenon
    <3>. QED BY <3>2, <2>1, <1>6, Zenon
  <2>3. MappingInv'
    BY <1>3, <1>9, ExtendFailsInv DEF MemoryInv
  <2>4. halted' \in BOOLEAN /\ mapped \subseteq mapped' /\ live \subseteq live'
    BY <1>9, <2>1
  <2>5. CASE UNCHANGED space
    BY <1>9, <2>2, <2>3, <2>4, <2>5, KernelOnly, Zenon
  <2>6. CASE k = n /\ \E done \in 0 .. n - 1 :
                        space' = [space EXCEPT ![p] =
                          MapLocalPages(@, "heap", old.end - old.start, old.end, done)]
    <3>1. PICK done \in 0 .. n - 1 :
            space' = [space EXCEPT ![p] =
              MapLocalPages(@, "heap", old.end - old.start, old.end, done)]
      BY <2>6, Zenon
    <3>2. PICK size, start, s : /\ size = old.end - old.start /\ start = old.end
                                /\ s = MapLocalPages(space[p], "heap", size, start, done)
      BY Zenon
    <3>3. size \in Nat /\ start \in Nat /\ done \in Nat /\ done < n
      BY <1>3, <3>2
    <3>4. space' = [space EXCEPT ![p] = s] /\ MapsLocally(s, space[p], "heap", size, start, done)
      <4>1. space' = [space EXCEPT ![p] = s]
        BY <3>1, <3>2, Zenon
      <4>. QED BY <4>1, <3>2, <3>3, LocalPages, Zenon
    <3>5. \A i \in 0 .. done - 1 : start + i \in Prefix(old, n)
      <4>1. Prefix(old, n) = start .. start + n - 1
        <5>1. Prefix(old, n) = Pages(start, start + n)
          BY <1>4, <2>6, <3>2, Zenon
        <5>2. Pages(start, start + n) = start .. start + n - 1
          <6>1. start \in Nat /\ n \in Nat
            BY <3>3, Zenon
          <6>. QED BY <6>1 DEF Pages
        <5>. QED BY <5>1, <5>2, Zenon
      <4>. QED BY <4>1, <3>3
    <3>6. \A i \in 0 .. done - 1 : start + i \in mapped' /\ kernel'[start + i] \in free
      BY <3>5, <2>1, <2>2, Zenon
    <3>7. UNCHANGED <<running, heap>> /\ halted' /\ p \in running /\ Grants' /\ live' = live
      BY <1>2, <1>9, <2>1, Zenon
    <3>. QED BY <2>2, <2>3, <2>4, <3>3, <3>4, <3>6, <3>7, PartlyMapped, Zenon
  <2>. QED BY <1>9, <2>5, <2>6, Zenon
<1>. QED BY <1>2, <1>7, <1>8, <1>9, Zenon

\* Scheduler::run_user_process
LEMMA RunUserProcessInv ==
  ASSUME MemoryInv, NEW p \in Procs, NEW n \in OBJECT_SIZES, RunUserProcess(p, n)
  PROVE  MemoryInv'
<1>1. PICK need, f, object, stack :
        /\ need = 1 + n + 1 + STACK_PAGES + 1
        /\ f = Lowest(need) /\ object = [i \in 1 .. n |-> f[i + 1]]
        /\ stack = [x \in {<<"stack", i>> : i \in 1 .. STACK_PAGES} |-> f[n + 2 + x[2]]]
  BY Zenon
<1>2. /\ p \notin running
      /\ \/ ~Enough(need) /\ Panic
         \/ /\ Enough(need) /\ New(n) /\ MapKernelPages(offset, object)
            /\ space' = [space EXCEPT ![p] = MapLocalPages(stack, "code", 0, offset, n)]
            /\ running' = running \cup {p}
            /\ Take(Image(object), Image(f) \ Image(object), p)
            /\ UNCHANGED <<heap, halted>>
  BY <1>1, Zenon DEF RunUserProcess
<1>3. CASE ~Enough(need) /\ Panic
  BY <1>3, PanicInv, SMTT(30) DEF Panic
<1>4. CASE /\ Enough(need) /\ New(n) /\ MapKernelPages(offset, object)
           /\ space' = [space EXCEPT ![p] = MapLocalPages(stack, "code", 0, offset, n)]
           /\ running' = running \cup {p}
           /\ Take(Image(object), Image(f) \ Image(object), p)
           /\ UNCHANGED <<heap, halted>>
  <2>1. n \in Nat \ {0} /\ need \in Nat /\ need = n + 2 + (STACK_PAGES + 1) /\ n + 2 <= need
        /\ STACK_PAGES \in Nat
    <3>1. need = 1 + n + 1 + STACK_PAGES + 1
      BY <1>1, Zenon
    <3>. QED BY <3>1
  <2>2. f \in [1 .. need -> free] /\ \A i, j \in 1 .. need : f[i] = f[j] => i = j
    BY <1>1, <1>4, <2>1, LowestFrames, Zenon DEF MemoryInv, Proxies
  <2>3. /\ object \in [1 .. n -> free]
        /\ \A i, j \in 1 .. n : object[i] = object[j] => i = j
        /\ \A i \in n + 2 .. need : f[i] \in Image(f) \ Image(object)
    <3>1. \A i \in 1 .. n : i + 1 \in 1 .. need /\ object[i] = f[i + 1]
      BY <1>1, <2>1
    <3>2. object \in [1 .. n -> free]
      BY <1>1, <2>2, <3>1
    <3>3. \A i, j \in 1 .. n : object[i] = object[j] => i = j
      BY <2>1, <2>2, <3>1
    <3>4. ASSUME NEW i \in n + 2 .. need PROVE f[i] \in Image(f) \ Image(object)
      <4>1. i \in 1 .. need /\ \A j \in 1 .. n : j + 1 # i
        BY <2>1
      <4>. QED BY <4>1, <2>2, <3>1, <3>2 DEF Image
    <3>. QED BY <3>2, <3>3, <3>4
  <2>4. PICK byProc : byProc = Image(f) \ Image(object)
    BY Zenon
  <2>5. /\ Image(object) \in SUBSET free /\ byProc \in SUBSET free
        /\ Image(object) \cap byProc = {} /\ Take(Image(object), byProc, p)
    BY <1>4, <2>2, <2>3, <2>4, SMTT(30) DEF Image
  <2>6. /\ Proxies' /\ OneOwner' /\ \A o \in Owners : proxy[o] \subseteq proxy'[o]
        /\ proxy'[Kernel] = proxy[Kernel] \cup Image(object)
        /\ proxy'[p] = proxy[p] \cup byProc
    BY <2>5, TakeOwned, Zenon DEF MemoryInv
  <2>7. /\ offset \in Nat /\ mapped \in SUBSET Nat
        /\ Pages(offset, offset + n) \in SUBSET Nat
        /\ Pages(offset, offset + n) \cap mapped = {}
        /\ mapped' = mapped \cup Pages(offset, offset + n)
        /\ \A x \in Pages(offset, offset + n) : x - offset + 1 \in 1 .. n
        /\ \A i \in 0 .. n - 1 : offset + i \in Pages(offset, offset + n)
        /\ live' = live \cup {[start |-> offset, end |-> offset + n]}
    <3>1. MappingInv /\ n \in Nat \ {0} /\ New(n)
      BY <1>4, <2>1, Zenon DEF MemoryInv
    <3>. QED BY <3>1, NewPages, Zenon
  <2>8. KernelFrames' /\ \A k \in mapped : kernel'[k] = kernel[k]
    BY <1>4, <2>1, <2>3, <2>6, <2>7, KernelGrown, Zenon DEF MemoryInv
  <2>9. MappingInv'
    BY <1>4, <2>1, NewInv DEF MemoryInv
  <2>10. /\ Heaps' /\ heap' = heap /\ heap[p] = None /\ HeapSize(p)' = 0
         /\ \A q \in Procs : HeapPages(q)' = HeapPages(q) /\ HeapPages(q) \subseteq mapped
    <3>1. heap[p] = None /\ heap' = heap /\ Heaps'
      <4>1. /\ running \in SUBSET Procs /\ heap \in [Procs -> live \cup {None}]
            /\ \A q \in Procs : heap[q] # None => q \in running
            /\ \A q, r \in Procs : heap[q] # None /\ heap[q] = heap[r] => q = r
        BY Zenon DEF MemoryInv, Heaps
      <4>2. live \subseteq live' /\ heap' = heap /\ running' = running \cup {p}
        BY <1>4, <2>7, Zenon
      <4>3. heap \in [Procs -> live' \cup {None}]
        BY <4>1, <4>2
      <4>4. heap[p] = None
        BY <4>1, <1>2, Zenon
      <4>. QED BY <4>1, <4>2, <4>3, <4>4, Zenon DEF Heaps
    <3>2. ASSUME NEW q \in Procs
          PROVE  HeapPages(q)' = HeapPages(q) /\ HeapPages(q) \subseteq mapped
      BY <3>1, HeapRange, Zenon DEF HeapPages, MemoryInv
    <3>. QED BY <3>1, <3>2, SMTT(30) DEF HeapSize
  <2>11. Grown
    BY <2>7, <2>8, <2>10, Zenon DEF Grown
  <2>12. PICK t : t = MapLocalPages(stack, "code", 0, offset, n)
    BY SMTT(30)
  <2>13. MapsLocally(t, stack, "code", 0, offset, n)
    BY <2>12, <2>1, <2>7, LocalPages, SMTT(30)
  <2>14. /\ space'[p] = t /\ DOMAIN space' = Procs
         /\ \A r \in Procs \ {p} : space'[r] = space[r]
    BY <1>4, <2>12, Zenon DEF MemoryInv, Spaces
  <2>15. ASSUME NEW x \in DOMAIN t
         PROVE  /\ t[x] \in Frames /\ x[1] # "heap"
                /\ \/ x[1] = "stack" /\ t[x] \in proxy'[p]
                   \/ x[1] = "code" /\ ObjectFrame(t[x])'
    <3>1. CASE x \in DOMAIN stack
      <4>1. PICK i \in 1 .. STACK_PAGES : x = <<"stack", i>>
        BY <3>1, <1>1
      <4>2. n + 2 + i \in n + 2 .. need /\ x[1] = "stack" /\ x[2] = i
        BY <4>1, <2>1, SMTT(30)
      <4>3. stack[x] = f[n + 2 + i]
        BY <3>1, <4>2, <1>1
      <4>4. t[x] = stack[x]
        BY <3>1, <4>2, <2>13 DEF MapsLocally
      <4>5. t[x] \in byProc
        BY <4>2, <4>3, <4>4, <2>3, <2>4
      <4>6. t[x] \in Frames /\ t[x] \in proxy'[p]
        BY <4>5, <2>5, <2>6, SMTT(30) DEF MemoryInv, Proxies
      <4>. QED BY <4>2, <4>6
    <3>2. CASE x \notin DOMAIN stack
      <4>1. PICK i \in 0 .. n - 1 : x = <<"code", 0 + i>>
        BY <3>2, <2>13 DEF MapsLocally
      <4>2. x[1] = "code" /\ t[x] = kernel'[offset + i]
        BY <4>1, <2>13 DEF MapsLocally
      <4>3. offset + i \in mapped' /\ offset + i \notin mapped
        BY <2>7, SMTT(30)
      <4>4. \A q \in Procs : offset + i \notin HeapPages(q)'
        BY <4>3, <2>10
      <4>5. kernel'[offset + i] \in Frames
        BY <4>3, <2>8, Zenon DEF KernelFrames
      <4>. QED BY <4>2, <4>3, <4>4, <4>5, Zenon DEF ObjectFrame
    <3>. QED BY <3>1, <3>2, Zenon
  <2>16. GoodSpace(p)'
    <3>1. ASSUME NEW x \in DOMAIN space'[p] PROVE GoodPage(p, x)'
      BY <2>14, <2>15 DEF GoodPage
    <3>2. GoodView(p)'
      <4>1. {x \in DOMAIN space'[p] : x[1] = "heap"} = {}
        BY <2>14, <2>15
      <4>2. 0 .. HeapSize(p)' - 1 = {}
        BY <2>10
      <4>. QED BY <4>1, <4>2, SMTT(30) DEF GoodView
    <3>. QED BY <3>1, <3>2 DEF GoodSpace
  <2>17. ASSUME NEW r \in running' PROVE GoodSpace(r)'
    <3>1. CASE r = p
      BY <3>1, <2>16, SMTT(30)
    <3>2. CASE r # p
      <4>1. r \in running /\ r \in Procs /\ r \in Owners
        BY <3>2, <1>4, SMTT(30) DEF MemoryInv, Heaps, Owners
      <4>. QED BY <3>2, <4>1, <2>6, <2>10, <2>11, <2>14, SpaceKept, Zenon
    <3>. QED BY <3>1, <3>2
  <2>18. Spaces'
    <3>1. t \in [DOMAIN t -> Frames]
      BY <2>13, <2>15 DEF MapsLocally
    <3>2. \A r \in Procs : space'[r] \in [DOMAIN space'[r] -> Frames]
      BY <3>1, <2>14 DEF MemoryInv, Spaces
    <3>. QED BY <3>2, <2>14, Zenon DEF Spaces
  <2>19. halted' \in BOOLEAN
    BY <1>4 DEF MemoryInv
  <2>. QED BY <2>6, <2>8, <2>9, <2>10, <2>17, <2>18, <2>19 DEF MemoryInv
<1>. QED BY <1>2, <1>3, <1>4, SMTT(30)

\* The invariant holds when no process has been started.
LEMMA InitMemoryInv == Init => MemoryInv
<1>. SUFFICES ASSUME Init PROVE MemoryInv
  OBVIOUS
<1>1. MappingInv
  BY MapInitInv DEF Init
<1>2. KernelFrames
  <2>1. mapped = {} /\ kernel = NoPages
    BY Zenon DEF Init, MapInit
  <2>2. NoPages \in [{} -> Frames] /\ Image(NoPages) = {}
    BY DEF NoPages, Image
  <2>. QED BY <2>1, <2>2, Zenon DEF KernelFrames
<1>3. Proxies
  BY DEF Init, Proxies
<1>4. OneOwner
  BY DEF Init, OneOwner
<1>5. Heaps /\ Spaces
  BY DEF Init, Heaps, Spaces, NoPages
<1>. QED BY <1>1, <1>2, <1>3, <1>4, <1>5, Zenon DEF Init, MemoryInv

\* Only a fault of its own opens physical memory to a process.
LEMMA GrantsKept == ASSUME Grants, [Next]_vars PROVE Grants'
<1>1. CASE UNCHANGED grantVars
  BY <1>1 DEF grantVars, Grants
<1>2. ASSUME NEW p \in Procs, Drop(p) PROVE Grants'
  BY <1>2 DEF Drop, Grants
<1>3. ASSUME NEW p \in Procs, NEW n \in OBJECT_SIZES, RunUserProcess(p, n) PROVE Grants'
  <2>1. CASE Panic
    BY <2>1, <1>1 DEF Panic
  <2>2. CASE CopyKernelEntries(p) /\ UNCHANGED <<exposed, asked>>
    BY <2>2 DEF CopyKernelEntries, Grants
  <2>3. Panic \/ (CopyKernelEntries(p) /\ UNCHANGED <<exposed, asked>>)
    BY <1>3, Zenon DEF RunUserProcess
  <2>. QED BY <2>1, <2>2, <2>3
<1>4. ASSUME NEW p \in Procs, NEW m \in live, MapModule(p, m) PROVE Grants'
  <2>1. Panic \/ Drop(p) \/ UNCHANGED grantVars
    BY <1>4, Zenon DEF MapModule, grantVars
  <2>. QED BY <2>1, <1>1, <1>2 DEF Panic
<1>5. ASSUME NEW p \in Procs, NEW page \in 0 .. HEAP_PAGES, HeapFault(p, page) PROVE Grants'
  <2>1. ASSUME NEW n, CreateHeap(p, n) PROVE UNCHANGED grantVars
    BY <2>1, Zenon DEF CreateHeap, Panic, grantVars
  <2>2. ASSUME NEW n, NEW t, ExtendHeap(p, n, t) PROVE UNCHANGED grantVars
    BY <2>2, Zenon DEF ExtendHeap, Panic, grantVars
  <2>3. UNCHANGED grantVars
    BY <1>5, <2>1, <2>2, Zenon DEF HeapFault, Panic, grantVars
  <2>. QED BY <2>3, <1>1
<1>6. ASSUME NEW p \in Procs, GrantDevice(p) PROVE Grants'
  BY <1>6 DEF GrantDevice, Grants
<1>7. ASSUME NEW p \in Procs, NEW leaf \in Leaves, GrantPhysical(p, leaf) PROVE Grants'
  <2>1. leaf \in SUBSET Frames
    BY DEF Leaves
  <2>. QED BY <2>1, <1>7 DEF GrantPhysical, Grants
<1>8. UNCHANGED vars \/ Next
  OBVIOUS
<1>. QED BY <1>1, <1>2, <1>3, <1>4, <1>5, <1>6, <1>7, <1>8, Zenon DEF Next, Exit, vars

\* Process start, page faults, modules and exit keep the invariant, or panic.
LEMMA StepMemoryInv ==
  ASSUME MemoryInv, Grants', Next PROVE MemoryInv' \/ (halted' /\ SafeInv')
<1>2. ASSUME NEW p \in Procs, NEW n \in OBJECT_SIZES, RunUserProcess(p, n) PROVE MemoryInv'
  BY <1>2, RunUserProcessInv
<1>3. ASSUME NEW p \in Procs, NEW m \in live, MapModule(p, m) PROVE MemoryInv'
  BY <1>3, MapModuleInv
<1>4. ASSUME NEW p \in Procs, NEW page \in 0 .. HEAP_PAGES, HeapFault(p, page)
      PROVE  MemoryInv' \/ (halted' /\ SafeInv')
  <2>1. page \in Nat /\ page + 1 \in Nat \ {0} /\ page >= HeapSize(p)
    BY <1>4 DEF HeapFault
  <2>2. CASE CreateHeap(p, page + 1)
    BY <2>1, <2>2, CreateHeapInv
  <2>3. ASSUME NEW t \in {0, 1}, ExtendHeap(p, page + 1 - HeapSize(p), t)
        PROVE  MemoryInv' \/ (halted' /\ SafeInv')
    <3>1. heap[p] # None
      BY <2>3, Zenon DEF ExtendHeap
    <3>2. HeapSize(p) \in Nat
      BY <3>1, HeapRange, Zenon DEF MemoryInv
    <3>3. page + 1 - HeapSize(p) \in Nat \ {0} /\ t \in Nat
      BY <2>1, <3>2
    <3>. QED BY <2>3, <3>3, ExtendHeapInv, SMTT(30)
  <2>4. CASE Panic
    BY <2>4, PanicInv DEF Panic
  <2>. QED BY <1>4, <2>2, <2>3, <2>4, Zenon DEF HeapFault
<1>5. ASSUME NEW p \in Procs, Exit(p) PROVE MemoryInv'
  BY <1>5, DropInv DEF Exit
<1>6. ASSUME NEW p \in Procs, GrantDevice(p) PROVE MemoryInv'
  <2>1. UNCHANGED <<mappingVars, kernel, running, heap, space, proxy, free, halted>>
    BY <1>6 DEF GrantDevice
  <2>. QED BY <2>1, PanicInv DEF MemoryInv
<1>7. ASSUME NEW p \in Procs, NEW leaf \in Leaves, GrantPhysical(p, leaf) PROVE MemoryInv'
  <2>1. UNCHANGED <<mappingVars, kernel, running, heap, space, proxy, free, halted>>
    BY <1>7 DEF GrantPhysical
  <2>. QED BY <2>1, PanicInv DEF MemoryInv
<1>. QED BY <1>2, <1>3, <1>4, <1>5, <1>6, <1>7, Zenon DEF Next

\* After a panic nothing runs.
LEMMA HaltedStays == ASSUME Next PROVE ~halted
<1>1. ASSUME NEW p \in Procs, NEW n, NEW t, CreateHeap(p, n) \/ ExtendHeap(p, n, t) PROVE ~halted
  BY <1>1, Zenon DEF CreateHeap, ExtendHeap
<1>2. ASSUME NEW p \in Procs, NEW page, HeapFault(p, page) PROVE ~halted
  BY <1>1, <1>2, Zenon DEF HeapFault
<1>. QED BY <1>2, Zenon DEF Next, RunUserProcess, MapModule, GrantDevice, GrantPhysical, Exit

\* The invariant holds when no process has been started.
LEMMA InitReachableInv == Init => ReachableInv
<1>1. Init => Grants
  BY DEF Init, Grants
<1>. QED BY <1>1, InitMemoryInv DEF ReachableInv

\* Every step keeps it, the last one before a panic included.
LEMMA StepReachableInv == ReachableInv /\ [Next]_vars => ReachableInv'
<1>. SUFFICES ASSUME ReachableInv, [Next]_vars PROVE ReachableInv'
  OBVIOUS
<1>1. Grants'
  BY GrantsKept DEF ReachableInv
<1>2. CASE UNCHANGED vars
  <2>1. SafeInv => SafeInv'
    <3>. /\ mapped' = mapped /\ live' = live /\ kernel' = kernel /\ running' = running
         /\ heap' = heap /\ space' = space /\ proxy' = proxy /\ free' = free
      BY <1>2 DEF vars, mappingVars
    <3>1. TypeOK => TypeOK'
      <4>1. halted' = halted /\ opened' = opened /\ exposed' = exposed /\ asked' = asked
        BY <1>2 DEF vars, grantVars
      <4>. QED BY <4>1, Zenon DEF TypeOK
    <3>2. OneOwner => OneOwner'
      BY Zenon DEF OneOwner
    <3>3. MappedNotFree => MappedNotFree'
      <4>1. UNION {Image(space[p]) : p \in running}' = UNION {Image(space[p]) : p \in running}
        OBVIOUS
      <4>. QED BY <4>1, Zenon DEF MappedNotFree
    <3>4. Provenance => Provenance'
      <4>1. SUFFICES ASSUME Provenance PROVE Provenance'
        OBVIOUS
      <4>2. ASSUME NEW p \in running', NEW x \in DOMAIN space'[p]
            PROVE  \/ x[1] = "heap"
                   \/ x[1] = "stack" /\ space'[p][x] \in proxy'[p]
                   \/ /\ x[1] \in {"code", "module"}
                      /\ \E k \in mapped' :
                           /\ space'[p][x] = kernel'[k]
                           /\ \A q \in Procs : heap'[q] # None => k \notin PagesOf(heap'[q])
        <5>1. p \in running /\ x \in DOMAIN space[p]
          BY <4>2, Zenon
        <5>2. \/ x[1] = "heap"
              \/ x[1] = "stack" /\ space[p][x] \in proxy[p]
              \/ /\ x[1] \in {"code", "module"}
                 /\ \E k \in mapped :
                      /\ space[p][x] = kernel[k]
                      /\ \A q \in Procs : heap[q] # None => k \notin PagesOf(heap[q])
          BY <4>1, <5>1, Zenon DEF Provenance
        <5>. QED BY <5>2, Zenon
      <4>3. /\ Image(kernel') \subseteq proxy'[Kernel]
            /\ \A x, y \in mapped' : kernel'[x] = kernel'[y] => x = y
            /\ \A p \in Procs : heap'[p] # None => p \in running'
            /\ \A p, q \in Procs : heap'[p] # None /\ heap'[p] = heap'[q] => p = q
        BY <4>1, Zenon DEF Provenance
      <4>. QED BY <4>2, <4>3, Zenon DEF Provenance
    <3>5. PrivateSpaces => PrivateSpaces'
      <4>1. \A p \in running : FramesOf(p, {"heap", "stack"})' = FramesOf(p, {"heap", "stack"})
        BY SMTT(30) DEF FramesOf
      <4>. QED BY <4>1, Zenon DEF PrivateSpaces
    <3>6. MappingInv => MappingInv'
      <4>1. offset' = offset
        BY <1>2 DEF vars, mappingVars
      <4>. QED BY <4>1, Zenon DEF MappingInv, RangesOK, BelowOffset, Separate
    <3>. QED BY <3>1, <3>2, <3>3, <3>4, <3>5, <3>6, Zenon DEF SafeInv, FramesInv
  <2>2. MemoryInv => MemoryInv'
    BY <1>2, PanicInv DEF vars, mappingVars, MemoryInv
  <2>. QED BY <1>1, <1>2, <2>1, <2>2 DEF ReachableInv, vars
<1>3. CASE Next
  <2>1. MemoryInv
    BY <1>3, HaltedStays DEF ReachableInv
  <2>. QED BY <1>1, <1>3, <2>1, StepMemoryInv DEF ReachableInv
<1>. QED BY <1>2, <1>3

-----------------------------------------------------------------------------
\* The inductive invariant holds throughout.
LEMMA ReachableHolds == Spec => []ReachableInv
BY InitReachableInv, StepReachableInv, PTL DEF Spec

\* Through the start and exit of processes, page faults and what fails: every frame
\* has one owner or is free, no page leads to a free one, and the pages of kernel,
\* objects, stacks and heaps have the frames of their owners.
THEOREM FramesCorrect == Spec => []FramesInv
<1>1. ReachableInv => FramesInv
  BY InvSafe DEF SafeInv
<1>. QED BY <1>1, ReachableHolds, PTL

\* No process has a page that leads to the heap or the stack of another one, and what
\* the fault handler exposes of physical memory a process reaches only after a fault
\* of its own was granted.
THEOREM MemoryIsPrivate == Spec => []PrivateMemory
BY ReachAsked, ReachableHolds, PTL

\* Until a panic the pages of a heap in its process are its pages in the kernel, in
\* their order.
THEOREM ViewsAgree == Spec => []HeapViewsAgree
BY InvViews, ReachableHolds, PTL

\* The kernel's mappings stay apart and below KERNEL_MAPPING_OFFSET under the calls
\* that processes bring about.
THEOREM MappingsUnderProcesses == Spec => []MappingInv
<1>1. ReachableInv => MappingInv
  BY InvSafe DEF SafeInv
<1>. QED BY <1>1, ReachableHolds, PTL
=============================================================================
