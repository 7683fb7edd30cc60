---------------------------- MODULE LayoutProofs ----------------------------
(***************************************************************************)
(* Where things go in memory: the two walks of the loader agree for every  *)
(* section table, and the frame allocator is correct for every size of the *)
(* bitmap and of its words and for every memory map whose regions do not   *)
(* overlap.                                                                *)
(***************************************************************************)
EXTENDS SectionLayout, FrameAllocator, FiniteSetTheorems, WellFoundedInduction, TLAPS

-----------------------------------------------------------------------------
(* The sections of an object.                                               *)

\* next_multiple_of returns the smallest multiple that is not below its argument.
LEMMA NextMultipleLeast ==
  ASSUME NEW x \in Nat, NEW al \in Nat \ {0}
  PROVE  /\ NextMultipleOf(x, al) \in Nat /\ x <= NextMultipleOf(x, al)
         /\ NextMultipleOf(x, al) % al = 0
         /\ \A m \in Nat : m % al = 0 /\ x <= m => NextMultipleOf(x, al) <= m
<1>. DEFINE q == (x + al - 1) \div al
<1>1. q \in Nat /\ q * al <= x + al - 1 /\ x + al - 1 < (q + 1) * al
  OBVIOUS
<1>. HIDE DEF q
<1>2. (q + 1) * al = q * al + al /\ q * al \in Nat
  BY <1>1
<1>3. x <= q * al
  BY <1>1, <1>2
<1>4. (q * al) % al = 0
  BY <1>1
<1>5. ASSUME NEW m \in Nat, m % al = 0, x <= m PROVE q * al <= m
  <2>1. PICK k \in Nat : m = k * al
    BY <1>5
  <2>2. CASE k < q
    <3>1. (k + 1) * al <= q * al
      BY <2>2, <1>1
    <3>2. (k + 1) * al = k * al + al
      OBVIOUS
    <3>. QED BY <3>1, <3>2, <2>1, <1>1, <1>2, <1>5
  <2>3. CASE q <= k
    BY <2>1, <2>3, <1>1
  <2>. QED BY <2>2, <2>3, <1>1
<1>. QED BY <1>2, <1>3, <1>4, <1>5 DEF NextMultipleOf, q

\* It is monotone: a walk that is behind another stays behind it after both have
\* been aligned for the same section.
LEMMA NextMultipleMonotone ==
  ASSUME NEW x \in Nat, NEW y \in Nat, NEW al \in Nat \ {0}, x <= y
  PROVE  NextMultipleOf(x, al) <= NextMultipleOf(y, al)
<1>1. NextMultipleOf(y, al) \in Nat /\ NextMultipleOf(y, al) % al = 0 /\ x <= NextMultipleOf(y, al)
  BY NextMultipleLeast
<1>. QED BY <1>1, NextMultipleLeast

Data == {"r", "w"}

LayoutType ==
  /\ sheet \in Seq(Section)
  /\ walk \in {"measure", "place", "done", "error", "panicked"}
  /\ at \in Nat \ {0} /\ at <= Len(sheet) + 1
  /\ len \in [Maps -> Nat] /\ off \in [Maps -> Nat]
  /\ ends \in Seq([Maps -> Nat])
  /\ \A p \in placed : p.index \in Nat /\ p.offset \in Nat /\ p.size \in Nat /\ p.map \in Maps

\* What the first walk leaves behind at section j: it has gone on by the room of
\* the section, and does not go back afterwards.
MeasuredAt(j) ==
  /\ \A m \in Maps : ends[j][m] <= ends[j + 1][m] /\ ends[j + 1][m] <= len[m]
  /\ Counted(j) /\ MeasuredIn(j) # "x" =>
       ends[j + 1][MeasuredIn(j)] = Packed(ends[j][MeasuredIn(j)], MeantToMeasure(j))
  /\ Counted(j) /\ MeasuredIn(j) = "x" =>
       MeantToMeasure(j).offset + MeantToMeasure(j).size <= len["x"]

\* No section up to the n-th is one that the walks take differently.
Agreed(n) == \A i \in 1 .. n : ~Mismeasured(i)

\* The inductive invariant.  While the walks agree, the second one is never ahead of
\* where the first one was at the same section; and what it has placed is behind its
\* offsets.
LayoutInv ==
  /\ LayoutType
  /\ Len(ends) \in Nat \ {0} /\ Len(ends) <= Len(sheet) + 1
  /\ \A j \in 1 .. (Len(ends) - 1) : MeasuredAt(j)
  /\ walk = "measure" => /\ Len(ends) = at /\ ends[at] = len /\ placed = {}
                         /\ \A m \in Maps : off[m] = 0
  /\ walk \in {"place", "done", "panicked"} =>
       /\ Len(ends) = Len(sheet) + 1
       /\ Agreed(at - 1) => \A m \in Data : off[m] <= ends[at][m]
  /\ \A p \in placed : /\ p.index < at /\ p.map = PlacedIn(p.index)
                       /\ p.map # "x" => p.offset + p.size <= off[p.map]
  /\ SectionsFit

-----------------------------------------------------------------------------
\* The section that a section stands for is one of the table.
LEMMA MeantSection ==
  ASSUME sheet \in Seq(Section), NEW j \in 1 .. Len(sheet)
  PROVE  /\ Meant(j) \in Section /\ MeantToMeasure(j) \in Section
         /\ Meant(j).size \in Nat /\ Meant(j).align \in Nat \ {0} /\ Meant(j).offset \in Nat
         /\ MeantToMeasure(j).size \in Nat /\ MeantToMeasure(j).align \in Nat \ {0}
         /\ MeantToMeasure(j).offset \in Nat
         /\ MeasuredIn(j) \in Maps /\ PlacedIn(j) \in Maps
<1>1. sheet[j] \in Section /\ (j < Len(sheet) => sheet[j + 1] \in Section)
  OBVIOUS
<1>2. Meant(j) \in Section /\ MeantToMeasure(j) \in Section
  BY <1>1 DEF Meant, MeantToMeasure, Follows
<1>3. ASSUME NEW s \in Section PROVE s.size \in Nat /\ s.align \in Nat \ {0} /\ s.offset \in Nat
  BY DEF Section
<1>4. MeasuredIn(j) \in Maps /\ PlacedIn(j) \in Maps
  BY DEF MeasuredIn, PlacedIn, Maps
<1>. QED BY <1>2, <1>3, <1>4

\* One step of the first walk: no mapping shrinks, and the one of the section grows
\* by the room of the section.
LEMMA MeasuredGrows ==
  ASSUME LayoutType, at <= Len(sheet)
  PROVE  /\ Measured(at) \in [Maps -> Nat]
         /\ \A m \in Maps : len[m] <= Measured(at)[m]
         /\ Counted(at) /\ MeasuredIn(at) # "x" =>
              Measured(at)[MeasuredIn(at)] = Packed(len[MeasuredIn(at)], MeantToMeasure(at))
         /\ Counted(at) /\ MeasuredIn(at) = "x" =>
              MeantToMeasure(at).offset + MeantToMeasure(at).size <= Measured(at)["x"]
<1>. DEFINE s == MeantToMeasure(at)
            m == MeasuredIn(at)
            end == s.offset + NextMultipleOf(s.size, s.align)
            new == IF m # "x" THEN Packed(len[m], s)
                   ELSE IF end > len[m] THEN end ELSE len[m]
<1>1. at \in 1 .. Len(sheet) /\ len \in [Maps -> Nat] /\ sheet \in Seq(Section)
  BY DEF LayoutType
<1>2. s.size \in Nat /\ s.align \in Nat \ {0} /\ s.offset \in Nat /\ m \in Maps
  BY <1>1, MeantSection
<1>3. len[m] \in Nat
  BY <1>1, <1>2
<1>. HIDE DEF s, m
<1>4. end \in Nat /\ s.offset + s.size <= end
  <2>. DEFINE up == NextMultipleOf(s.size, s.align)
  <2>1. up \in Nat /\ s.size <= up
    BY <1>2, NextMultipleLeast, Zenon
  <2>. HIDE DEF up
  <2>2. s.offset + up \in Nat /\ s.offset + s.size <= s.offset + up
    BY <1>2, <2>1
  <2>. QED BY <2>2 DEF up
<1>5. Packed(len[m], s) \in Nat /\ len[m] <= Packed(len[m], s)
  <2>. DEFINE up == NextMultipleOf(len[m], s.align)
  <2>1. up \in Nat /\ len[m] <= up
    BY <1>2, <1>3, NextMultipleLeast, Zenon
  <2>. HIDE DEF up
  <2>2. up + s.size \in Nat /\ len[m] <= up + s.size
    BY <1>2, <1>3, <2>1
  <2>. QED BY <2>2 DEF up, Packed
<1>6. new \in Nat /\ len[m] <= new
  BY <1>3, <1>4, <1>5
<1>7. m = "x" => s.offset + s.size <= new
  BY <1>2, <1>3, <1>4
<1>. HIDE DEF new
<1>8. Measured(at) = IF Counted(at) THEN [len EXCEPT ![m] = new] ELSE len
  BY DEF Measured, s, m, new
<1>9. m # "x" => new = Packed(len[m], s)
  BY DEF new
<1>10. \A k \in Maps : len[k] <= Measured(at)[k] /\ Measured(at) \in [Maps -> Nat]
  BY <1>1, <1>2, <1>6, <1>8
<1>11. Counted(at) => Measured(at)[m] = new
  BY <1>1, <1>2, <1>8
<1>12. Measured(at) \in [Maps -> Nat]
  BY <1>1, <1>2, <1>6, <1>8
<1>. QED BY <1>7, <1>9, <1>10, <1>11, <1>12 DEF s, m

\* Code that the second walk places was counted by the first one, as the same section.
LEMMA TextIsCounted ==
  ASSUME NEW j \in 1 .. Len(sheet), ~Ignored(j), ~NoSymbol(j), Kind(j) = "text"
  PROVE  /\ Counted(j) /\ MeantToMeasure(j) = Meant(j)
         /\ MeasuredIn(j) = "x" /\ PlacedIn(j) = "x"
<1>1. Has(j, "exec") /\ Has(j, "alloc")
  BY DEF Kind, Ignored
<1>2. sheet[j].name # ".text"
  <2>1. NameLength(".text") = 5 /\ PrefixLength(j) = 6
    BY DEF NameLength, PrefixLength
  <2>. QED BY <2>1 DEF NoSymbol
<1>. QED BY <1>1, <1>2 DEF Counted, MeantToMeasure, MeasuredIn, PlacedIn

\* So was data, unless the walks take it differently.
LEMMA DataIsCounted ==
  ASSUME NEW j \in 1 .. Len(sheet), ~Ignored(j), ~Mismeasured(j), Kind(j) \in {"data", "rodata"}
  PROVE  /\ Counted(j) /\ MeantToMeasure(j) = Meant(j)
         /\ MeasuredIn(j) = PlacedIn(j)
<1>1. Has(j, "alloc") /\ ~Has(j, "exec") /\ ~Has(j, "tls")
  BY DEF Kind, Ignored, Mismeasured
<1>2. MeasuredIn(j) = PlacedIn(j)
  BY <1>1 DEF MeasuredIn, PlacedIn, Kind
<1>3. MeantToMeasure(j) = Meant(j)
  <2>1. CASE Kind(j) = "data"
    BY <1>1, <2>1 DEF Mismeasured, MeantToMeasure, Meant
  <2>2. CASE Kind(j) = "rodata"
    BY <2>2 DEF Kind, MeantToMeasure
  <2>. QED BY <2>1, <2>2
<1>. QED BY <1>1, <1>2, <1>3 DEF Counted

\* And so was the thread-local data that is copied.
LEMMA TlsIsCounted ==
  ASSUME NEW j \in 1 .. Len(sheet), ~Ignored(j), ~NoSymbol(j), ~Mismeasured(j),
         sheet \in Seq(Section), Kind(j) = "tls", Meant(j).type # "nobits"
  PROVE  /\ Counted(j) /\ MeantToMeasure(j) = Meant(j)
         /\ MeasuredIn(j) = "r" /\ PlacedIn(j) = "r"
<1>1. Has(j, "alloc") /\ ~Has(j, "exec") /\ Has(j, "tls")
  BY DEF Kind, Ignored, Mismeasured
<1>2. sheet[j].name # ".text"
  <2>1. NameLength(".text") = 5 /\ PrefixLength(j) = 7
    BY DEF NameLength, PrefixLength
  <2>. QED BY <2>1 DEF NoSymbol
<1>3. Meant(j).type = "progbits"
  <2>1. Meant(j) \in Section
    BY MeantSection
  <2>2. Meant(j).type # "other"
    BY <1>1 DEF Mismeasured
  <2>. QED BY <2>1, <2>2 DEF Section
<1>. QED BY <1>1, <1>2, <1>3 DEF Counted, MeantToMeasure, MeasuredIn, PlacedIn

\* The table stays, and with it what it says of every section.
LEMMA TableStays ==
  ASSUME sheet' = sheet, NEW j
  PROVE  /\ Meant(j)' = Meant(j) /\ MeantToMeasure(j)' = MeantToMeasure(j)
         /\ Counted(j)' = Counted(j) /\ MeasuredIn(j)' = MeasuredIn(j)
         /\ PlacedIn(j)' = PlacedIn(j) /\ Mismeasured(j)' = Mismeasured(j)
<1>1. /\ Meant(j)' = Meant(j) /\ MeantToMeasure(j)' = MeantToMeasure(j)
      /\ Kind(j)' = Kind(j) /\ (\A f : Has(j, f)' = Has(j, f)) /\ sheet[j]' = sheet[j]
  BY DEF Meant, MeantToMeasure, Follows, Kind, Has
<1>2. Counted(j)' = Counted(j) /\ MeasuredIn(j)' = MeasuredIn(j) /\ PlacedIn(j)' = PlacedIn(j)
  BY <1>1 DEF Counted, MeasuredIn, PlacedIn
<1>3. Mismeasured(j)' = Mismeasured(j)
  BY <1>1 DEF Mismeasured
<1>. QED BY <1>1, <1>2, <1>3

-----------------------------------------------------------------------------
\* The invariant holds before anything is measured.
LEMMA LayoutInvInit == LayoutInit => LayoutInv
<1>. SUFFICES ASSUME LayoutInit PROVE LayoutInv
  OBVIOUS
<1>1. sheet \in Seq(Section) /\ walk = "measure" /\ at = 1 /\ placed = {}
  BY SheetsAssumption DEF LayoutInit
<1>2. len \in [Maps -> Nat] /\ off \in [Maps -> Nat] /\ (\A m \in Maps : off[m] = 0)
  BY DEF LayoutInit
<1>3. ends = <<len>> /\ ends \in Seq([Maps -> Nat]) /\ Len(ends) = 1 /\ ends[1] = len
  BY <1>2 DEF LayoutInit
<1>4. Len(sheet) \in Nat
  BY <1>1
<1>5. LayoutType
  BY <1>1, <1>2, <1>3, <1>4 DEF LayoutType
<1>. QED BY <1>1, <1>2, <1>3, <1>4, <1>5 DEF LayoutInv, SectionsFit

\* A step of allocate_section_mappings
LEMMA LayoutInvMeasure == LayoutInv /\ MeasureSection => LayoutInv'
<1>. SUFFICES ASSUME LayoutInv, MeasureSection PROVE LayoutInv'
  OBVIOUS
<1>0. LayoutType /\ walk = "measure" /\ at <= Len(sheet) /\ Len(ends) = at /\ ends[at] = len
      /\ placed = {} /\ sheet' = sheet /\ off' = off /\ placed' = placed
  BY DEF LayoutInv, MeasureSection
<1>1. at \in Nat \ {0} /\ Len(sheet) \in Nat /\ len \in [Maps -> Nat]
      /\ ends \in Seq([Maps -> Nat]) /\ sheet \in Seq(Section) /\ off \in [Maps -> Nat]
  BY <1>0 DEF LayoutType
<1>2. CASE walk' = "error" /\ UNCHANGED <<at, len, ends>>
  <2>1. LayoutType'
    BY <1>0, <1>1, <1>2 DEF LayoutType
  <2>2. \A j \in 1 .. (Len(ends) - 1) : MeasuredAt(j)'
    <3>. TAKE j \in 1 .. (Len(ends) - 1)
    <3>1. MeasuredAt(j)
      BY DEF LayoutInv
    <3>. QED BY <3>1, <1>0, <1>2, TableStays DEF MeasuredAt
  <2>3. SectionsFit'
    BY <1>0, <1>2 DEF SectionsFit
  <2>. QED BY <2>1, <2>2, <2>3, <1>0, <1>1, <1>2 DEF LayoutInv
<1>3. CASE at' = at + 1 /\ len' = Measured(at) /\ ends' = Append(ends, len') /\ walk' = walk
  <2>1. /\ len' \in [Maps -> Nat] /\ \A m \in Maps : len[m] <= len'[m]
        /\ Counted(at) /\ MeasuredIn(at) # "x" =>
             len'[MeasuredIn(at)] = Packed(len[MeasuredIn(at)], MeantToMeasure(at))
        /\ Counted(at) /\ MeasuredIn(at) = "x" =>
             MeantToMeasure(at).offset + MeantToMeasure(at).size <= len'["x"]
    BY <1>0, <1>3, MeasuredGrows
  <2>2. /\ ends' \in Seq([Maps -> Nat]) /\ Len(ends') = at + 1 /\ ends'[at + 1] = len'
        /\ \A j \in 1 .. at : ends'[j] = ends[j]
    BY <1>0, <1>1, <1>3, <2>1
  <2>3. LayoutType'
    BY <1>0, <1>1, <1>3, <2>1, <2>2 DEF LayoutType
  <2>4. ASSUME NEW j \in 1 .. at PROVE MeasuredAt(j)'
    <3>0. /\ Counted(j)' = Counted(j) /\ MeasuredIn(j)' = MeasuredIn(j)
          /\ MeantToMeasure(j)' = MeantToMeasure(j)
      BY <1>0, TableStays
    <3>1. CASE j = at
      <4>1. ends'[j] = len /\ ends'[j + 1] = len'
        BY <3>1, <2>2, <1>0
      <4>2. \A m \in Maps : len[m] <= len'[m] /\ len'[m] <= len'[m]
        BY <2>1
      <4>. QED BY <4>1, <4>2, <3>0, <3>1, <2>1 DEF MeasuredAt
    <3>2. CASE j # at
      <4>1. j \in 1 .. (Len(ends) - 1) /\ j + 1 \in 1 .. at
        BY <3>2, <1>0, <1>1
      <4>2. MeasuredAt(j)
        BY <4>1 DEF LayoutInv
      <4>3. ends'[j] = ends[j] /\ ends'[j + 1] = ends[j + 1]
        BY <4>1, <2>2
      <4>4. ends[j + 1] \in [Maps -> Nat]
        BY <4>1, <1>0, <1>1
      <4>5. \A m \in Maps : ends[j][m] <= ends[j + 1][m] /\ ends[j + 1][m] <= len'[m]
        BY <4>2, <4>4, <2>1, <1>1 DEF MeasuredAt
      <4>6. Counted(j) /\ MeasuredIn(j) = "x" =>
              MeantToMeasure(j).offset + MeantToMeasure(j).size <= len'["x"]
        <5>1. j \in 1 .. Len(sheet)
          BY <4>1, <1>0, <1>1
        <5>2. MeantToMeasure(j).offset + MeantToMeasure(j).size \in Nat
          BY <5>1, <1>1, MeantSection
        <5>3. len["x"] \in Nat /\ len'["x"] \in Nat /\ len["x"] <= len'["x"]
          BY <1>1, <2>1 DEF Maps
        <5>. QED BY <5>2, <5>3, <4>2 DEF MeasuredAt
      <4>. QED BY <4>2, <4>3, <4>5, <4>6, <3>0 DEF MeasuredAt
    <3>. QED BY <3>1, <3>2
  <2>5. SectionsFit'
    BY <1>0, <1>3 DEF SectionsFit
  <2>6. \A m \in Maps : off[m] = 0
    BY <1>0 DEF LayoutInv
  <2>. QED BY <2>2, <2>3, <2>4, <2>5, <2>6, <1>0, <1>1, <1>3 DEF LayoutInv
<1>. QED BY <1>2, <1>3 DEF MeasureSection

\* The end of the first walk
LEMMA LayoutInvAllocate == LayoutInv /\ AllocateMappings => LayoutInv'
<1>. SUFFICES ASSUME LayoutInv, AllocateMappings PROVE LayoutInv'
  OBVIOUS
<1>1. /\ LayoutType /\ walk = "measure" /\ at = Len(sheet) + 1 /\ Len(ends) = at /\ placed = {}
      /\ at' = 1 /\ walk' \in {"place", "error"} /\ Len(sheet) \in Nat
      /\ UNCHANGED <<sheet, len, ends, off, placed>>
  BY DEF LayoutInv, AllocateMappings, LayoutType
<1>2. LayoutType'
  BY <1>1 DEF LayoutType
<1>3. \A j \in 1 .. (Len(ends) - 1) : MeasuredAt(j)'
  <2>. TAKE j \in 1 .. (Len(ends) - 1)
  <2>1. MeasuredAt(j)
    BY DEF LayoutInv
  <2>. QED BY <2>1, <1>1, TableStays DEF MeasuredAt
<1>4. \A m \in Data : off[m] <= ends[1][m]
  <2>. TAKE m \in Data
  <2>1. 1 \in 1 .. Len(ends) /\ ends \in Seq([Maps -> Nat])
    BY <1>1 DEF LayoutType
  <2>2. ends[1] \in [Maps -> Nat] /\ m \in Maps
    BY <2>1 DEF Data, Maps
  <2>3. ends[1][m] \in Nat /\ off[m] = 0
    BY <2>2, <1>1 DEF LayoutInv
  <2>. QED BY <2>3
<1>5. SectionsFit'
  BY <1>1 DEF SectionsFit
<1>. QED BY <1>1, <1>2, <1>3, <1>4, <1>5 DEF LayoutInv

\* What was measured stays while sections are placed.
LEMMA MeasuredStays ==
  ASSUME LayoutInv, UNCHANGED <<sheet, len, ends>>
  PROVE  \A j \in 1 .. (Len(ends) - 1) : MeasuredAt(j)'
<1>. TAKE j \in 1 .. (Len(ends) - 1)
<1>1. MeasuredAt(j)
  BY DEF LayoutInv
<1>. QED BY <1>1, TableStays DEF MeasuredAt

\* That the walks agree so far, from one section to the next
LEMMA AgreedBefore == ASSUME NEW n \in Nat, Agreed(n) PROVE Agreed(n - 1)
BY DEF Agreed

LEMMA AgreedNext ==
  ASSUME sheet' = sheet, at \in Nat, at' = at + 1, Agreed(at - 1)'
  PROVE  Agreed(at)
<1>1. \A j : Mismeasured(j)' = Mismeasured(j)
  BY TableStays
<1>2. at' - 1 = at
  OBVIOUS
<1>. QED BY <1>1, <1>2 DEF Agreed

\* The second walk stops: nothing that was placed changes.
LEMMA LayoutInvStop ==
  ASSUME LayoutInv, walk = "place", UNCHANGED <<sheet, len, ends, placed, off, at>>,
         walk' \in {"error", "done", "panicked"},
         walk' = "panicked" => Meant(at).size = 0 \/ ~Agreed(at)
  PROVE  LayoutInv'
<1>1. LayoutType'
  BY DEF LayoutInv, LayoutType
<1>2. \A j \in 1 .. (Len(ends) - 1) : MeasuredAt(j)'
  BY MeasuredStays
<1>3. \A j : /\ PlacedIn(j)' = PlacedIn(j) /\ Meant(j)' = Meant(j)
            /\ Mismeasured(j)' = Mismeasured(j)
  BY TableStays
<1>4. SectionsFit'
  <2>1. Meant(at)' = Meant(at)
    BY TableStays
  <2>2. walk' = "panicked" => Meant(at)'.size = 0 \/ \E i \in 1 .. at : Mismeasured(i)'
    BY <1>3, <2>1 DEF Agreed
  <2>. QED BY <1>3, <2>1, <2>2 DEF LayoutInv, SectionsFit
<1>5. Agreed(at - 1)' = Agreed(at - 1)
  BY <1>3 DEF Agreed
<1>. QED BY <1>1, <1>2, <1>3, <1>4, <1>5 DEF LayoutInv

\* One section is placed: if it is in its mapping and behind the sections before it,
\* and the walk stays behind the first one, the invariant holds again.
LEMMA LayoutInvRecord ==
  ASSUME LayoutInv, walk = "place", at <= Len(sheet), UNCHANGED <<sheet, len, ends>>,
         NEW offset \in Nat, NEW next \in Nat, Record(at, offset, next),
         PlacedIn(at) # "x" =>
           /\ off[PlacedIn(at)] <= offset /\ next = offset + Meant(at).size
           /\ Agreed(at) => next <= ends[at + 1][PlacedIn(at)]
           /\ offset % Meant(at).align = 0,
         offset + Meant(at).size <= len[PlacedIn(at)]
  PROVE  LayoutInv'
<1>. DEFINE new == [index |-> at, map |-> PlacedIn(at), offset |-> offset, size |-> Meant(at).size]
<1>1. /\ LayoutType /\ at \in 1 .. Len(sheet) /\ sheet \in Seq(Section) /\ Len(sheet) \in Nat
      /\ off \in [Maps -> Nat] /\ Len(ends) = Len(sheet) + 1 /\ ends \in Seq([Maps -> Nat])
  <2>1. LayoutType /\ Len(ends) = Len(sheet) + 1
    BY DEF LayoutInv
  <2>2. /\ sheet \in Seq(Section) /\ off \in [Maps -> Nat] /\ ends \in Seq([Maps -> Nat])
        /\ at \in Nat \ {0}
    BY <2>1, Zenon DEF LayoutType
  <2>3. Len(sheet) \in Nat
    BY <2>2
  <2>4. at \in 1 .. Len(sheet)
    BY <2>2, <2>3
  <2>. QED BY <2>1, <2>2, <2>3, <2>4, Zenon
<1>2. PlacedIn(at) \in Maps /\ Meant(at).size \in Nat
  BY <1>1, MeantSection
<1>3. /\ placed' = placed \union {new} /\ off' = [off EXCEPT ![PlacedIn(at)] = next]
      /\ at' = at + 1 /\ walk' = "place"
  BY DEF Record
<1>4. off' \in [Maps -> Nat]
  BY <1>1, <1>2, <1>3
<1>5. LayoutType'
  <2>1. \A p \in placed' : p.index \in Nat /\ p.offset \in Nat /\ p.size \in Nat /\ p.map \in Maps
    <3>. TAKE p \in placed'
    <3>1. CASE p \in placed
      BY <3>1, <1>1, Zenon DEF LayoutType
    <3>2. CASE p = new
      <4>1. p.index = at /\ p.offset = offset /\ p.size = Meant(at).size /\ p.map = PlacedIn(at)
        BY <3>2
      <4>2. at \in Nat
        BY <1>1
      <4>. QED BY <4>1, <4>2, <1>2, Zenon
    <3>. QED BY <3>1, <3>2, <1>3, Zenon
  <2>2. at' \in Nat \ {0} /\ at' <= Len(sheet) + 1
    BY <1>1, <1>3
  <2>3. sheet' = sheet /\ len' = len /\ ends' = ends
    OBVIOUS
  <2>. QED BY <1>1, <1>3, <1>4, <2>1, <2>2, <2>3, Zenon DEF LayoutType
<1>6. \A j \in 1 .. (Len(ends) - 1) : MeasuredAt(j)'
  BY MeasuredStays
<1>7. ASSUME Agreed(at), NEW m \in Data PROVE off'[m] <= ends[at + 1][m]
  <2>1. m \in Maps /\ m # "x"
    BY DEF Data, Maps
  <2>2. CASE m = PlacedIn(at)
    BY <2>1, <2>2, <1>1, <1>2, <1>3, <1>7
  <2>3. CASE m # PlacedIn(at)
    <3>1. off'[m] = off[m] /\ off[m] <= ends[at][m]
      <4>1. off'[m] = off[m]
        BY <2>1, <2>3, <1>1, <1>3
      <4>2. Agreed(at - 1)
        BY <1>1, <1>7, AgreedBefore
      <4>. QED BY <4>1, <4>2 DEF LayoutInv
    <3>2. ends[at][m] <= ends[at + 1][m]
      <4>1. at \in 1 .. (Len(ends) - 1)
        BY <1>1
      <4>2. MeasuredAt(at)
        BY <4>1, Zenon DEF LayoutInv
      <4>. QED BY <4>2, <2>1, Zenon DEF MeasuredAt
    <3>3. ends[at][m] \in Nat /\ ends[at + 1][m] \in Nat /\ off[m] \in Nat
      <4>1. at \in 1 .. Len(ends) /\ at + 1 \in 1 .. Len(ends)
        BY <1>1
      <4>2. \A k \in 1 .. Len(ends) : ends[k] \in [Maps -> Nat]
        <5>1. ends \in Seq([Maps -> Nat])
          BY <1>1, Zenon
        <5>. QED BY <5>1
      <4>3. ends[at] \in [Maps -> Nat] /\ ends[at + 1] \in [Maps -> Nat] /\ off \in [Maps -> Nat]
        BY <4>1, <4>2, <1>1, Zenon
      <4>. QED BY <4>3, <2>1, Zenon
    <3>. QED BY <3>1, <3>2, <3>3
  <2>. QED BY <2>2, <2>3
<1>8. \A p \in placed' : /\ p.index < at + 1 /\ p.map = PlacedIn(p.index)
                         /\ p.map # "x" => p.offset + p.size <= off'[p.map]
  <2>. TAKE p \in placed'
  <2>1. CASE p = new
    <3>1. p.index = at /\ p.map = PlacedIn(at) /\ p.offset = offset /\ p.size = Meant(at).size
      BY <2>1
    <3>2. off'[PlacedIn(at)] = next
      BY <1>1, <1>2, <1>3, Zenon
    <3>3. PlacedIn(at) # "x" => offset + Meant(at).size <= next
      BY <1>2
    <3>4. at < at + 1
      BY <1>1
    <3>. QED BY <3>1, <3>2, <3>3, <3>4, Zenon
  <2>2. CASE p \in placed
    <3>1. /\ p.index < at /\ p.map = PlacedIn(p.index)
          /\ p.map # "x" => p.offset + p.size <= off[p.map]
      BY <2>2 DEF LayoutInv
    <3>2. p.index \in Nat /\ p.offset \in Nat /\ p.size \in Nat /\ p.map \in Maps
      BY <2>2, <1>1 DEF LayoutType
    <3>3. off[p.map] \in Nat /\ off'[p.map] \in Nat
      BY <3>2, <1>1, <1>4
    <3>4. p.map # "x" => off[p.map] <= off'[p.map]
      <4>1. CASE p.map = PlacedIn(at)
        <5>1. off'[p.map] = next
          BY <4>1, <1>1, <1>2, <1>3
        <5>2. p.map # "x" => off[p.map] <= next
          <6>1. p.map # "x" => off[p.map] <= offset /\ next = offset + Meant(at).size
            BY <4>1
          <6>. QED BY <6>1, <3>3, <1>2
        <5>. QED BY <5>1, <5>2
      <4>2. CASE p.map # PlacedIn(at)
        <5>1. off'[p.map] = off[p.map]
          BY <4>2, <3>2, <1>1, <1>3
        <5>. QED BY <5>1, <3>3
      <4>. QED BY <4>1, <4>2
    <3>5. p.offset + p.size \in Nat
      BY <3>2
    <3>6. p.map # "x" => p.offset + p.size <= off'[p.map]
      BY <3>1, <3>3, <3>4, <3>5
    <3>7. p.index < at + 1
      <4>1. \A x, y \in Nat : x < y => x < y + 1
        OBVIOUS
      <4>2. at \in Nat
        BY <1>1
      <4>. QED BY <4>1, <4>2, <3>1, <3>2, Zenon
    <3>. QED BY <3>1, <3>6, <3>7, Zenon
  <2>. QED BY <2>1, <2>2, <1>3, Zenon
<1>9. SectionsFit'
  <2>1. \A p \in placed' : /\ p.offset + p.size <= len[p.map]
                           /\ p.map # "x" => p.offset % Meant(p.index).align = 0
    BY <1>3 DEF LayoutInv, SectionsFit
  <2>2. ASSUME NEW p \in placed', NEW q \in placed', p.map = q.map, p.map # "x",
               p.index < q.index
        PROVE  p.offset + p.size <= q.offset
    <3>1. CASE p \in placed /\ q \in placed
      BY <3>1, <2>2 DEF LayoutInv, SectionsFit
    <3>2. CASE p \in placed /\ q = new
      <4>1. p.offset + p.size <= off[p.map]
        BY <3>2, <2>2 DEF LayoutInv
      <4>2. off[p.map] <= offset /\ q.offset = offset
        BY <3>2, <2>2, Zenon
      <4>3. p.offset \in Nat /\ p.size \in Nat /\ p.map \in Maps
        BY <3>2, <1>1 DEF LayoutType
      <4>4. p.offset + p.size \in Nat /\ off[p.map] \in Nat
        <5>1. off[p.map] \in Nat
          BY <4>3, <1>1, Zenon
        <5>. QED BY <5>1, <4>3
      <4>5. \A x, y, z \in Nat : x <= y /\ y <= z => x <= z
        OBVIOUS
      <4>6. offset \in Nat
        BY <1>2, Zenon
      <4>. QED BY <4>1, <4>2, <4>4, <4>5, <4>6, Zenon
    <3>3. CASE p = new
      <4>1. q \in placed => q.index < at
        BY DEF LayoutInv
      <4>2. q \in placed => q.index \in Nat
        BY <1>1 DEF LayoutType
      <4>. QED BY <4>1, <4>2, <3>3, <2>2, <1>1, <1>3
    <3>. QED BY <3>1, <3>2, <3>3, <1>3
  <2>3. \A p \in placed' : Meant(p.index)' = Meant(p.index)
    BY TableStays
  <2>. QED BY <2>1, <2>2, <2>3, <1>3, Zenon DEF SectionsFit
<1>10. \A p \in placed' : PlacedIn(p.index)' = PlacedIn(p.index)
  BY TableStays
<1>11. Agreed(at - 1)' => \A m \in Data : off'[m] <= ends[at + 1][m]
  <2>1. sheet' = sheet /\ at \in Nat /\ at' = at + 1
    <3>1. at \in 1 .. Len(sheet) /\ Len(sheet) \in Nat
      BY <1>1, Zenon
    <3>2. at \in Nat
      BY <3>1
    <3>. QED BY <1>1, <1>3, <3>2, Zenon
  <2>2. Agreed(at - 1)' => Agreed(at)
    BY <2>1, AgreedNext, Zenon
  <2>. QED BY <1>7, <2>2, Zenon
<1>. QED BY <1>1, <1>3, <1>5, <1>6, <1>8, <1>9, <1>10, <1>11 DEF LayoutInv

\* A step of load_object_sections.  The heart of it: the offset of the second walk
\* is aligned from no further than the length of the first one was, so it ends no
\* further than that length did after the section.
LEMMA LayoutInvPlace == LayoutInv /\ PlaceSection => LayoutInv'
<1>. SUFFICES ASSUME LayoutInv, PlaceSection PROVE LayoutInv'
  OBVIOUS
<1>1. /\ LayoutType /\ walk = "place" /\ at <= Len(sheet) /\ UNCHANGED <<sheet, len, ends>>
      /\ Len(ends) = Len(sheet) + 1
  BY DEF LayoutInv, PlaceSection
<1>2. /\ at \in 1 .. Len(sheet) /\ Len(sheet) \in Nat /\ sheet \in Seq(Section)
      /\ len \in [Maps -> Nat] /\ off \in [Maps -> Nat] /\ ends \in Seq([Maps -> Nat])
  BY <1>1 DEF LayoutType
<1>3. /\ Meant(at).size \in Nat /\ Meant(at).align \in Nat \ {0} /\ Meant(at).offset \in Nat
      /\ PlacedIn(at) \in Maps
  BY <1>2, MeantSection
<1>4. ends[at] \in [Maps -> Nat] /\ ends[at + 1] \in [Maps -> Nat]
  <2>1. at \in 1 .. Len(ends) /\ at + 1 \in 1 .. Len(ends)
    BY <1>1, <1>2
  <2>. QED BY <2>1, <1>2
<1>5. MeasuredAt(at)
  BY <1>1, <1>2 DEF LayoutInv
<1>6. CASE Stop("error")
  BY <1>1, <1>6, LayoutInvStop DEF Stop
<1>7. CASE at' = at + 1 /\ UNCHANGED <<walk, off, placed>>
  <2>1. LayoutType'
    BY <1>1, <1>2, <1>7 DEF LayoutType
  <2>2. \A j \in 1 .. (Len(ends) - 1) : MeasuredAt(j)'
    BY <1>1, MeasuredStays
  <2>3. ASSUME Agreed(at), NEW m \in Data PROVE off[m] <= ends[at + 1][m]
    <3>1. m \in Maps
      BY DEF Data, Maps
    <3>2. off[m] \in Nat /\ ends[at][m] \in Nat /\ ends[at + 1][m] \in Nat
      BY <3>1, <1>2, <1>4
    <3>3. off[m] <= ends[at][m]
      <4>1. Agreed(at - 1)
        BY <1>2, <2>3, AgreedBefore
      <4>. QED BY <1>1, <4>1 DEF LayoutInv
    <3>4. ends[at][m] <= ends[at + 1][m]
      BY <3>1, <1>5 DEF MeasuredAt
    <3>. QED BY <3>2, <3>3, <3>4
  <2>4. \A p \in placed : PlacedIn(p.index)' = PlacedIn(p.index) /\ Meant(p.index)' = Meant(p.index)
    BY <1>1, TableStays
  <2>5. \A p \in placed : p.index < at + 1
    <3>. TAKE p \in placed
    <3>1. p.index < at /\ p.index \in Nat
      BY DEF LayoutInv, LayoutType
    <3>. QED BY <3>1, <1>2
  <2>6. SectionsFit'
    BY <1>1, <1>7, <2>4 DEF LayoutInv, SectionsFit
  <2>7. Agreed(at - 1)' => \A m \in Data : off[m] <= ends[at + 1][m]
    BY <1>1, <1>2, <1>7, <2>3, AgreedNext
  <2>. QED BY <1>1, <1>2, <1>7, <2>1, <2>2, <2>4, <2>5, <2>6, <2>7 DEF LayoutInv
<1>8. CASE Kind(at) = "text" /\ ~Ignored(at) /\ ~NoSymbol(at) /\ PlaceText(at)
  <2>1. Counted(at) /\ MeantToMeasure(at) = Meant(at) /\ MeasuredIn(at) = "x" /\ PlacedIn(at) = "x"
    BY <1>2, <1>8, TextIsCounted
  <2>2. Meant(at).offset + Meant(at).size <= len["x"]
    BY <2>1, <1>5 DEF MeasuredAt
  <2>3. off["x"] \in Nat
    BY <1>2 DEF Maps
  <2>. QED BY <1>1, <1>3, <1>8, <2>1, <2>2, <2>3, LayoutInvRecord DEF PlaceText
<1>. DEFINE m == PlacedIn(at)
            s == Meant(at)
            offset == Aligned(at)
            reached == NextMultipleOf(ends[at][m], s.align)
<1>9. off[m] \in Nat /\ ends[at][m] \in Nat /\ ends[at + 1][m] \in Nat /\ len[m] \in Nat
  BY <1>2, <1>3, <1>4
<1>10. offset \in Nat /\ off[m] <= offset /\ offset % s.align = 0 /\ reached \in Nat
  BY <1>9, <1>3, NextMultipleLeast, Zenon DEF Aligned
<1>11. ASSUME Agreed(at), Counted(at), MeantToMeasure(at) = s, MeasuredIn(at) = m, m # "x"
       PROVE  offset + s.size <= ends[at + 1][m] /\ offset + s.size <= len[m]
  <2>1. m \in Data
    BY <1>11, <1>3 DEF Data, Maps
  <2>2. off[m] <= ends[at][m]
    <3>1. Agreed(at - 1)
      BY <1>2, <1>11, AgreedBefore
    <3>. QED BY <3>1, <2>1, <1>1 DEF LayoutInv
  <2>3. offset <= reached
    BY <2>2, <1>9, <1>3, NextMultipleMonotone DEF Aligned
  <2>4. ends[at + 1][m] = reached + s.size
    BY <1>11, <1>5 DEF MeasuredAt, Packed
  <2>5. ends[at + 1][m] <= len[m]
    BY <1>3, <1>5 DEF MeasuredAt
  <2>. HIDE DEF offset, reached
  <2>. QED BY <2>3, <2>4, <2>5, <1>3, <1>9, <1>10
<1>12. Agreed(at) => ~Mismeasured(at)
  BY <1>2 DEF Agreed
<1>13. CASE Kind(at) \in {"data", "rodata"} /\ ~Ignored(at) /\ PlaceData(at)
  <2>1. m # "x"
    BY <1>13 DEF PlacedIn
  <2>2. Agreed(at) => offset + s.size <= ends[at + 1][m] /\ offset + s.size <= len[m]
    <3>. SUFFICES ASSUME Agreed(at)
                  PROVE  offset + s.size <= ends[at + 1][m] /\ offset + s.size <= len[m]
      OBVIOUS
    <3>1. Counted(at) /\ MeantToMeasure(at) = s /\ MeasuredIn(at) = m
      BY <1>2, <1>12, <1>13, DataIsCounted
    <3>. QED BY <3>1, <2>1, <1>11
  <2>. HIDE DEF offset
  <2>3. CASE Stop("panicked") /\ ~Asserts(at, offset)
    <3>1. Agreed(at) => ~(offset < len[m])
      BY <2>2, <2>3 DEF Asserts, Slices
    <3>2. Agreed(at) => s.size = 0
      BY <3>1, <2>2, <1>3, <1>9, <1>10
    <3>. QED BY <3>2, <2>3, <1>1, LayoutInvStop DEF Stop
  <2>4. CASE Record(at, offset, offset + s.size) /\ Asserts(at, offset)
    <3>1. offset + s.size <= len[m] /\ offset + s.size \in Nat
      BY <2>4, <1>3, <1>10 DEF Asserts, Slices
    <3>. QED BY <3>1, <2>1, <2>2, <2>4, <1>1, <1>10, LayoutInvRecord
  <2>. QED BY <2>3, <2>4, <1>6, <1>13 DEF PlaceData, offset
<1>14. CASE Kind(at) = "tls" /\ ~Ignored(at) /\ ~NoSymbol(at) /\ PlaceTls(at)
  <2>1. CASE Stop("panicked") /\ s.type # "nobits" /\ ~Slices(at, offset)
    <3>1. ~Agreed(at)
      <4>. SUFFICES ASSUME Agreed(at) PROVE FALSE
        OBVIOUS
      <4>1. Counted(at) /\ MeantToMeasure(at) = s /\ MeasuredIn(at) = m /\ m # "x"
        BY <1>2, <1>12, <1>14, <2>1, TlsIsCounted
      <4>2. offset + s.size <= len[m]
        BY <4>1, <1>11
      <4>. QED BY <4>2, <2>1 DEF Slices
    <3>. QED BY <3>1, <2>1, <1>1, LayoutInvStop DEF Stop
  <2>. QED BY <2>1, <1>6, <1>14 DEF PlaceTls
<1>. QED BY <1>6, <1>7, <1>8, <1>13, <1>14 DEF PlaceSection

\* For every section table, whatever the flags, names, types, sizes, alignments and
\* order: what load_object_sections places is inside what allocate_section_mappings
\* measured, and its assertions fail only for an empty section or behind one that the
\* two walks take differently.
THEOREM LayoutFits == LayoutSpec => []SectionsFit
<1>1. LayoutInv /\ [LayoutNext]_layoutVars => LayoutInv'
  <2>. SUFFICES ASSUME LayoutInv, [LayoutNext]_layoutVars PROVE LayoutInv'
    OBVIOUS
  <2>1. CASE MeasureSection
    BY <2>1, LayoutInvMeasure
  <2>2. CASE AllocateMappings
    BY <2>2, LayoutInvAllocate
  <2>3. CASE PlaceSection
    BY <2>3, LayoutInvPlace
  <2>4. CASE LayoutDone
    BY <2>4, LayoutInvStop DEF LayoutDone
  <2>5. CASE UNCHANGED layoutVars
    <3>1. UNCHANGED <<sheet, len, ends, walk, at, off, placed>>
      BY <2>5 DEF layoutVars
    <3>2. \A j \in 1 .. (Len(ends) - 1) : MeasuredAt(j)'
      BY <3>1, MeasuredStays
    <3>3. \A j : /\ PlacedIn(j)' = PlacedIn(j) /\ Meant(j)' = Meant(j)
                /\ Mismeasured(j)' = Mismeasured(j)
      BY <3>1, TableStays
    <3>4. Meant(at)' = Meant(at)
      BY <3>1, TableStays
    <3>5. SectionsFit'
      BY <3>1, <3>3, <3>4, Zenon DEF LayoutInv, SectionsFit
    <3>6. LayoutType'
      BY <3>1, Zenon DEF LayoutInv, LayoutType
    <3>7. Agreed(at - 1)' = Agreed(at - 1)
      BY <3>1, <3>3 DEF Agreed
    <3>. QED BY <3>1, <3>2, <3>3, <3>5, <3>6, <3>7 DEF LayoutInv
  <2>. QED BY <2>1, <2>2, <2>3, <2>4, <2>5 DEF LayoutNext
<1>2. LayoutInv => SectionsFit
  BY DEF LayoutInv
<1>. QED BY <1>1, <1>2, LayoutInvInit, PTL DEF LayoutSpec
-----------------------------------------------------------------------------
(* The frame allocator.                                                     *)

\* The cardinality of a set with an element more or less.
LEMMA OneLess ==
  ASSUME NEW S, IsFiniteSet(S), NEW x \in S
  PROVE  Cardinality(S \ {x}) = Cardinality(S) - 1
BY FS_RemoveElement, Zenon

\* The other way round.
LEMMA OneMore ==
  ASSUME NEW S, IsFiniteSet(S), NEW x, x \notin S
  PROVE  Cardinality(S \cup {x}) = Cardinality(S) + 1
BY FS_AddElement, Zenon

\* The cardinality of the union of disjoint sets, and of a set without a part of it.
LEMMA PartsAddUp ==
  ASSUME NEW S, IsFiniteSet(S), NEW T, IsFiniteSet(T), Cardinality(S) \in Nat,
         Cardinality(T) \in Nat
  PROVE  /\ S \cap T = {} => Cardinality(S \cup T) = Cardinality(S) + Cardinality(T)
         /\ S \cap T = T => Cardinality(S \ T) = Cardinality(S) - Cardinality(T)
<1>1. Cardinality({}) = 0
  BY FS_EmptySet
<1>2. /\ Cardinality(S \cup T) = Cardinality(S) + Cardinality(T) - Cardinality(S \cap T)
      /\ Cardinality(S \ T) = Cardinality(S) - Cardinality(S \cap T)
  BY FS_Union, FS_Difference, Zenon
<1>3. ASSUME S \cap T = {} PROVE Cardinality(S \cup T) = Cardinality(S) + Cardinality(T)
  <2>1. Cardinality(S \cup T) = Cardinality(S) + Cardinality(T) - 0
    BY <1>1, <1>2, <1>3, Zenon
  <2>. QED BY <2>1
<1>4. S \cap T = T => Cardinality(S \ T) = Cardinality(S) - Cardinality(T)
  BY <1>2, Zenon
<1>. QED BY <1>3, <1>4, Zenon

USE ConstantsAssumption

\* The frames of the bitmap are finitely many, and so are any of them.
LEMMA FramesFinite ==
  /\ MAX_FRAMES \in Nat
  /\ \A S \in SUBSET Frames : IsFiniteSet(S) /\ Cardinality(S) \in Nat
<1>1. MAX_FRAMES \in Nat
  BY DEF MAX_FRAMES
<1>2. IsFiniteSet(Frames)
  BY <1>1, FS_Interval DEF Frames
<1>. QED BY <1>1, <1>2, FS_Subset, FS_CardinalityType

\* The word of a frame, as FrameAllocator::allocate computes it from the hint:
\* higher frames are in the same or in higher words.
LEMMA WordMonotone ==
  ASSUME NEW f \in Nat, NEW g \in Nat, f <= g
  PROVE  f \div WORD \in Nat /\ f \div WORD <= g \div WORD
OBVIOUS

\* The word that FrameAllocator::is_allocated indexes for a frame exists.
LEMMA WordInBitmap ==
  ASSUME NEW f \in Frames
  PROVE  f \div WORD \in Nat /\ f \div WORD < BITMAP_LEN
BY DEF Frames, MAX_FRAMES

\* The scan of a set of frames that is not empty meets a first one.
LEMMA LowestExists ==
  ASSUME NEW S, S \subseteq Nat, S # {}
  PROVE  Lowest(S) \in S /\ \A g \in S : Lowest(S) <= g
<1>. DEFINE R == {ss \in Nat \X Nat : ss[1] < ss[2]}
<1>1. IsWellFoundedOn(R, Nat)
  BY NatLessThanWellFounded DEF OpToRel
<1>. HIDE DEF R
<1>2. PICK f \in S : \A g \in S : ~(<<g, f>> \in R)
  BY <1>1, WFMin, Zenon
<1>3. \A g \in S : ~(g < f)
  BY <1>2, Zenon DEF R
<1>4. \A g \in S : f <= g
  BY <1>3
<1>. QED BY <1>4, Zenon DEF Lowest

\* The state before the loop of FrameAllocator::init.
LEMMA InitBitmapInv == Init => BitmapInv
<1>. SUFFICES ASSUME Init PROVE BitmapInv
  OBVIOUS
<1>1. Regions \in Nat
  BY BootInfoAssumption DEF Init, Regions
<1>2. Frames \ bitmap = {}
  BY DEF Init
<1>3. TypeOK
  BY <1>1, FramesFinite DEF Init, TypeOK
<1>4. FreeCount
  BY <1>2, FS_EmptySet DEF Init, FreeCount
<1>5. \A i \in step .. Regions : RegionFrames(info.memory_map[i]) \subseteq bitmap
  BY DEF Init, RegionFrames
<1>6. BelowHintTaken /\ HeldMarked /\ Booting
  BY <1>5 DEF Init, BelowHintTaken, HeldMarked, Booting
<1>. QED BY <1>3, <1>4, <1>6 DEF BitmapInv

\* A region of the memory map adds its frames to the free ones.
LEMMA InitRegionInv == ASSUME BitmapInv, InitRegion PROVE BitmapInv'
<1>. USE DEF BitmapInv
<1>. DEFINE frames == RegionFrames(info.memory_map[step])
<1>1. Regions \in Nat /\ step \in 1 .. Regions /\ info \in BootInfos
  BY BootInfoAssumption DEF TypeOK, Regions, InitRegion
<1>2. frames \subseteq Frames /\ frames \subseteq bitmap
  BY <1>1 DEF RegionFrames, Booting
<1>3. /\ bitmap' = bitmap \ frames /\ info' = info /\ step' = step + 1 /\ Regions' = Regions
      /\ free_frames' = free_frames + Cardinality(frames)
      /\ total_frames' = total_frames + Cardinality(frames)
      /\ next_free_hint' = next_free_hint /\ held' = held /\ result' = result
  BY DEF InitRegion, Regions
<1>4. ~Ready /\ held = {} /\ next_free_hint = 0
  BY <1>1 DEF Ready, Booting
<1>. HIDE DEF frames
<1>5. Cardinality(frames) \in Nat /\ IsFiniteSet(frames) /\ IsFiniteSet(Frames \ bitmap)
  BY <1>2, FramesFinite DEF TypeOK
<1>6. TypeOK'
  BY <1>1, <1>2, <1>3, <1>5 DEF TypeOK
<1>7. FreeCount'
  <2>1. /\ Frames \ bitmap' = (Frames \ bitmap) \cup frames
        /\ (Frames \ bitmap) \cap frames = {}
    BY <1>2, <1>3
  <2>2. Cardinality(Frames \ bitmap) \in Nat
    BY FramesFinite
  <2>3. Cardinality(Frames \ bitmap') = Cardinality(Frames \ bitmap) + Cardinality(frames)
    BY <2>1, <2>2, <1>5, PartsAddUp, Zenon
  <2>. QED BY <2>3, <1>3, <1>5 DEF FreeCount, TypeOK
<1>8. BelowHintTaken' /\ HeldMarked'
  BY <1>3, <1>4 DEF BelowHintTaken, HeldMarked, Frames
<1>9. ASSUME NEW i \in step' .. Regions
      PROVE  RegionFrames(info.memory_map[i]) \subseteq bitmap'
  <2>1. i \in step .. Regions /\ i # step /\ i \in 1 .. Len(info.memory_map)
    BY <1>1, <1>3 DEF Regions
  <2>2. RegionFrames(info.memory_map[i]) \cap frames = {}
    BY <2>1, <1>1, BootInfoAssumption, Zenon DEF frames, Regions
  <2>. QED BY <2>1, <2>2, <1>3 DEF Booting
<1>10. Booting'
  BY <1>3, <1>4, <1>9 DEF Booting
<1>. QED BY <1>6, <1>7, <1>8, <1>10

\* reserve_range takes the free frames of its range; the count never saturates.
LEMMA ReserveRangeInv == ASSUME BitmapInv, ReserveRange PROVE BitmapInv'
<1>. USE DEF BitmapInv
<1>1. PICK base, size :
        LET frames == RangeFrames(base, size) \ bitmap
        IN  /\ bitmap' = bitmap \cup frames
            /\ free_frames' = IF Cardinality(frames) <= free_frames
                              THEN free_frames - Cardinality(frames) ELSE 0
  BY Zenon DEF ReserveRange
<1>. DEFINE frames == RangeFrames(base, size) \ bitmap
<1>2. /\ info' = info /\ step' = step + 1 /\ Regions' = Regions /\ Regions \in Nat
      /\ step \in Regions + 1 .. Regions + 3 /\ total_frames' = total_frames
      /\ next_free_hint' = next_free_hint /\ held' = held /\ result' = result
  <2>1. Regions \in Nat
    <3>1. info \in BootInfos
      BY Zenon DEF TypeOK
    <3>. QED BY <3>1, BootInfoAssumption DEF Regions
  <2>2. Regions' = Regions
    BY Zenon DEF ReserveRange, Regions
  <2>. QED BY <2>1, <2>2, Zenon DEF ReserveRange
<1>3. frames \subseteq Frames /\ frames \cap bitmap = {}
  BY DEF RangeFrames
<1>4. ~Ready /\ held = {} /\ next_free_hint = 0
  <2>1. \A n \in Nat : n + 4 \notin n + 1 .. n + 3
    OBVIOUS
  <2>2. ~Ready
    BY <1>2, <2>1, Zenon DEF Ready
  <2>. QED BY <2>2, Zenon DEF Booting
<1>5. /\ bitmap' = bitmap \cup frames
      /\ free_frames' = IF Cardinality(frames) <= free_frames
                        THEN free_frames - Cardinality(frames) ELSE 0
  BY <1>1
<1>. HIDE DEF frames
<1>6. /\ IsFiniteSet(Frames \ bitmap) /\ IsFiniteSet(frames) /\ Cardinality(frames) \in Nat
      /\ Cardinality(Frames \ bitmap) \in Nat /\ Cardinality(Frames \ bitmap') \in Nat
  BY <1>3, FramesFinite
<1>7. Cardinality(Frames \ bitmap') = Cardinality(Frames \ bitmap) - Cardinality(frames)
  <2>1. /\ Frames \ bitmap' = (Frames \ bitmap) \ frames
        /\ (Frames \ bitmap) \cap frames = frames
    BY <1>3, <1>5
  <2>. QED BY <2>1, <1>6, PartsAddUp, Zenon
<1>8. FreeCount'
  BY <1>5, <1>6, <1>7 DEF FreeCount
<1>9. TypeOK'
  BY <1>2, <1>3, <1>5, <1>6 DEF TypeOK
<1>10. BelowHintTaken' /\ HeldMarked'
  BY <1>2, <1>4 DEF BelowHintTaken, HeldMarked, Frames
<1>11. Booting'
  BY <1>2, <1>4 DEF Booting
<1>. QED BY <1>8, <1>9, <1>10, <1>11

\* When a frame is free, the first scan of FrameAllocator::allocate finds the
\* lowest one, and the second scan has nothing to find.
LEMMA ScanFindsLowest ==
  ASSUME BitmapInv, NEW upper, NEW lower,
         upper = FreeIn(next_free_hint \div WORD, BITMAP_LEN),
         lower = FreeIn(0, next_free_hint \div WORD)
  PROVE  /\ free_frames = 0 <=> Frames \ bitmap = {}
         /\ upper = Frames \ bitmap
         /\ upper # {} => /\ Lowest(upper) \in Frames \ bitmap
                         /\ \A g \in Frames \ bitmap : Lowest(upper) <= g
<1>. USE DEF BitmapInv
<1>1. free_frames = 0 <=> Frames \ bitmap = {}
  BY FramesFinite, FS_EmptySet DEF FreeCount
<1>2. ASSUME NEW f \in Frames \ bitmap PROVE f \in upper
  <2>1. f \in Nat /\ next_free_hint \in Nat /\ next_free_hint <= f
    BY FramesFinite DEF BelowHintTaken, TypeOK, Frames
  <2>2. next_free_hint \div WORD <= f \div WORD /\ next_free_hint \div WORD \in Nat
    BY <2>1, WordMonotone
  <2>3. f \div WORD \in Nat /\ f \div WORD < BITMAP_LEN
    BY WordInBitmap
  <2>. QED BY <2>2, <2>3 DEF FreeIn
<1>3. upper = Frames \ bitmap
  BY <1>2 DEF FreeIn
<1>4. upper \subseteq Nat
  BY <1>3 DEF Frames
<1>. QED BY <1>1, <1>3, <1>4, LowestExists

\* FrameAllocator::allocate
LEMMA AllocateInv == ASSUME BitmapInv, Allocate PROVE BitmapInv'
<1>. USE DEF BitmapInv
<1>. DEFINE upper == FreeIn(next_free_hint \div WORD, BITMAP_LEN)
<1>1. /\ free_frames = 0 <=> Frames \ bitmap = {}
      /\ upper = Frames \ bitmap
      /\ upper # {} => /\ Lowest(upper) \in Frames \ bitmap
                      /\ \A g \in Frames \ bitmap : Lowest(upper) <= g
  BY ScanFindsLowest
<1>2. info' = info /\ step' = step /\ total_frames' = total_frames /\ Regions' = Regions
  BY DEF Allocate, Regions
<1>3. CASE upper = {}
  <2>1. /\ Ready /\ result' = "OutOfMemory"
        /\ UNCHANGED <<bitmap, free_frames, next_free_hint, held>>
    BY <1>1, <1>3 DEF Allocate
  <2>. QED BY <2>1, <1>2 DEF TypeOK, FreeCount, BelowHintTaken, HeldMarked, Booting, Ready, Regions
<1>4. CASE upper # {}
  <2>1. PICK f : f = Lowest(upper)
    OBVIOUS
  <2>2. TakeFrame(f) /\ Ready
    BY <2>1, <1>1, <1>4 DEF Allocate
  <2>3. f \in Frames /\ f \notin bitmap /\ \A g \in Frames \ bitmap : f <= g
    BY <2>1, <1>1, <1>4
  <2>. HIDE DEF upper
  <2>4. f \in Nat /\ f + 1 \in 0 .. MAX_FRAMES /\ \A g \in Frames : g \in Nat
    BY <2>3, FramesFinite DEF Frames
  <2>5. IsFiniteSet(Frames \ bitmap) /\ Cardinality(Frames \ bitmap) \in Nat
    BY FramesFinite
  <2>6. Cardinality(Frames \ bitmap') = Cardinality(Frames \ bitmap) - 1
    <3>1. Frames \ bitmap' = (Frames \ bitmap) \ {f}
      BY <2>2 DEF TakeFrame
    <3>2. f \in Frames \ bitmap
      BY <2>3
    <3>. QED BY <3>1, <3>2, <2>5, OneLess, Zenon
  <2>7. FreeCount'
    BY <2>2, <2>6 DEF FreeCount, TakeFrame
  <2>8. free_frames' \in Nat
    BY <2>7, FramesFinite DEF FreeCount
  <2>9. TypeOK'
    BY <2>2, <2>3, <2>4, <2>8, <1>2 DEF TypeOK, TakeFrame
  <2>10. ASSUME NEW g \in Frames, g < f + 1 PROVE g \in bitmap'
    <3>1. g = f \/ ~(f <= g)
      BY <2>4, <2>10
    <3>. QED BY <3>1, <2>2, <2>3 DEF TakeFrame
  <2>11. BelowHintTaken'
    BY <2>2, <2>10 DEF BelowHintTaken, TakeFrame
  <2>12. HeldMarked' /\ Booting'
    BY <2>2, <1>2 DEF HeldMarked, Booting, Ready, TakeFrame, Regions
  <2>. QED BY <2>7, <2>9, <2>11, <2>12
<1>. QED BY <1>3, <1>4

\* FrameAllocator::deallocate
LEMMA DeallocateInv ==
  ASSUME BitmapInv, NEW f, Deallocate(f) PROVE BitmapInv'
<1>. USE DEF BitmapInv
<1>1. /\ f \in Frames /\ f \in bitmap /\ f \in Nat /\ f \in 0 .. MAX_FRAMES
      /\ \A g \in Frames : g \in Nat
  BY FramesFinite DEF Deallocate, TypeOK, Frames
<1>2. /\ bitmap' = bitmap \ {f} /\ free_frames' = free_frames + 1 /\ held' = held \ {f}
      /\ next_free_hint' = IF f < next_free_hint THEN f ELSE next_free_hint
      /\ result' = "Ok" /\ info' = info /\ step' = step /\ total_frames' = total_frames
      /\ Regions' = Regions /\ Ready
  BY DEF Deallocate, Regions
<1>3. Cardinality(Frames \ bitmap') = Cardinality(Frames \ bitmap) + 1
  <2>1. Frames \ bitmap' = (Frames \ bitmap) \cup {f}
    BY <1>1, <1>2
  <2>2. IsFiniteSet(Frames \ bitmap) /\ f \notin Frames \ bitmap
    BY <1>1, FramesFinite
  <2>. QED BY <2>1, <2>2, OneMore, Zenon
<1>4. FreeCount'
  BY <1>2, <1>3 DEF FreeCount
<1>5. TypeOK'
  BY <1>1, <1>2 DEF TypeOK
<1>6. BelowHintTaken'
  BY <1>1, <1>2 DEF BelowHintTaken, TypeOK
<1>7. HeldMarked'
  BY <1>2 DEF HeldMarked
<1>8. Booting'
  <2>1. step = Regions + 4 /\ Regions \in Nat
    BY <1>2, BootInfoAssumption DEF Ready, TypeOK, Regions
  <2>. QED BY <2>1, <1>2 DEF Booting, Ready
<1>. QED BY <1>4, <1>5, <1>6, <1>7, <1>8

\* The frame allocator keeps its invariant in every step.
LEMMA StepBitmapInv == BitmapInv /\ [Next]_vars => BitmapInv'
<1>. SUFFICES ASSUME BitmapInv, [Next]_vars PROVE BitmapInv'
  OBVIOUS
<1>1. CASE UNCHANGED vars
  BY <1>1 DEF vars, allocator, BitmapInv, TypeOK, FreeCount, BelowHintTaken, HeldMarked,
              Booting, Ready, Regions
<1>2. ASSUME NEW f, DeallocateRefused(f) PROVE BitmapInv'
  BY <1>2 DEF DeallocateRefused, allocator, BitmapInv, TypeOK, FreeCount, BelowHintTaken,
              HeldMarked, Booting, Ready, Regions
<1>. QED BY <1>1, <1>2, InitRegionInv, ReserveRangeInv, AllocateInv, DeallocateInv DEF Next

\* What usize division by the page size means for the bytes of a frame.
LEMMA RoundedUp ==
  ASSUME NEW x \in Nat, NEW f \in Nat,
         IF x % PAGE_SIZE = 0 THEN x \div PAGE_SIZE <= f ELSE x \div PAGE_SIZE + 1 <= f
  PROVE  x <= f * PAGE_SIZE
<1>1. PICK q \in Nat, m \in Nat : q = x \div PAGE_SIZE /\ m = x % PAGE_SIZE
  OBVIOUS
<1>2. x = q * PAGE_SIZE + m /\ m < PAGE_SIZE
  BY <1>1
<1>3. CASE m = 0
  BY <1>1, <1>2, <1>3
<1>4. CASE m # 0
  BY <1>1, <1>2, <1>4
<1>. QED BY <1>3, <1>4

\* A frame below an end that is rounded down lies wholly below it.
LEMMA RoundedDown ==
  ASSUME NEW x \in Nat, NEW f \in Nat, f < x \div PAGE_SIZE
  PROVE  (f + 1) * PAGE_SIZE <= x
<1>1. PICK q \in Nat, m \in Nat : q = x \div PAGE_SIZE /\ m = x % PAGE_SIZE
  OBVIOUS
<1>2. x = q * PAGE_SIZE + m /\ f + 1 <= q
  BY <1>1
<1>. QED BY <1>2

\* A frame at or past an end that is rounded up begins at or past it.
LEMMA DivCeil ==
  ASSUME NEW x \in Nat, NEW f \in Nat, (x + PAGE_SIZE - 1) \div PAGE_SIZE <= f
  PROVE  x <= f * PAGE_SIZE
<1>1. PICK q \in Nat, m \in Nat :
        q = (x + PAGE_SIZE - 1) \div PAGE_SIZE /\ m = (x + PAGE_SIZE - 1) % PAGE_SIZE
  OBVIOUS
<1>2. x + PAGE_SIZE - 1 = q * PAGE_SIZE + m /\ m <= PAGE_SIZE - 1 /\ q <= f
  BY <1>1
<1>3. x <= q * PAGE_SIZE /\ q * PAGE_SIZE <= f * PAGE_SIZE
  BY <1>2
<1>. QED BY <1>3

\* A region of the map gives whole frames only: RegionFrames rounds its first byte
\* up and its end down.
LEMMA RegionBytes ==
  ASSUME NEW r \in [base : Nat, size : Nat, kind : {"Free", "Reserved"}],
         NEW f \in RegionFrames(r), NEW b \in Bytes(f)
  PROVE  r.kind = "Free" /\ b \in r.base .. r.base + r.size - 1
<1>1. r.base \in Nat /\ r.size \in Nat /\ f \in Nat /\ b \in Nat
  BY FramesFinite DEF RegionFrames, Frames, Bytes
<1>2. /\ r.kind = "Free" /\ f < (r.base + r.size) \div PAGE_SIZE
      /\ IF r.base % PAGE_SIZE = 0 THEN r.base \div PAGE_SIZE <= f
                                  ELSE r.base \div PAGE_SIZE + 1 <= f
  BY DEF RegionFrames, FrameOf
<1>3. f * PAGE_SIZE <= b /\ b < (f + 1) * PAGE_SIZE
  BY <1>1 DEF Bytes
<1>4. r.base <= f * PAGE_SIZE
  BY <1>1, <1>2, RoundedUp
<1>5. (f + 1) * PAGE_SIZE <= r.base + r.size
  BY <1>1, <1>2, RoundedDown
<1>. QED BY <1>1, <1>2, <1>3, <1>4, <1>5

\* reserve_range covers the low memory, the kernel and the framebuffer: a frame that
\* none of the three calls visits has no byte of them.
LEMMA ReservedBytes ==
  ASSUME NEW i \in BootInfos, NEW f \in Frames, NEW b \in Bytes(f),
         \A k \in 1 .. 3 : f \notin RangeFrames(Reservations(i)[k].base, Reservations(i)[k].size)
  PROVE  /\ b >= MEBIBYTE
         /\ ~(i.kernel_start <= b /\ b < i.kernel_end)
         /\ ~(i.framebuffer_addr <= b /\ b < i.framebuffer_addr + i.framebuffer_size)
<1>1. /\ f \in Nat /\ b \in Nat /\ f * PAGE_SIZE <= b /\ b < (f + 1) * PAGE_SIZE
  BY FramesFinite DEF Frames, Bytes
<1>2. PICK s \in Nat, e \in Nat, a \in Nat, z \in Nat :
        /\ s = i.kernel_start /\ e = i.kernel_end /\ s <= e /\ s % PAGE_SIZE = 0
        /\ a = i.framebuffer_addr /\ z = i.framebuffer_size
  BY BootInfoAssumption, Zenon
<1>3. /\ f \notin RangeFrames(0, MEBIBYTE) /\ f \notin RangeFrames(s, e - s)
      /\ f \notin RangeFrames(a, a + z)
  <2>1. PICK x, y, w : /\ x = [base |-> 0, size |-> MEBIBYTE]
                        /\ y = [base |-> s, size |-> e - s] /\ w = [base |-> a, size |-> a + z]
    BY Zenon
  <2>2. Reservations(i) = <<x, y, w>>
    BY <2>1, <1>2, Zenon DEF Reservations
  <2>3. <<x, y, w>>[1] = x /\ <<x, y, w>>[2] = y /\ <<x, y, w>>[3] = w
    OBVIOUS
  <2>4. /\ x.base = 0 /\ x.size = MEBIBYTE /\ y.base = s /\ y.size = e - s
        /\ w.base = a /\ w.size = a + z
    BY <2>1
  <2>5. 1 \in 1 .. 3 /\ 2 \in 1 .. 3 /\ 3 \in 1 .. 3
    OBVIOUS
  <2>. QED BY <2>2, <2>3, <2>4, <2>5, Zenon
<1>4. ASSUME NEW base \in Nat, NEW size \in Nat, f \notin RangeFrames(base, size)
      PROVE  \/ b < base
             \/ (base \div PAGE_SIZE) * PAGE_SIZE + size <= b
  <2>1. PICK q \in Nat, m \in Nat, n \in Nat :
          /\ q = base \div PAGE_SIZE /\ m = base % PAGE_SIZE
          /\ n = (size + PAGE_SIZE - 1) \div PAGE_SIZE
    OBVIOUS
  <2>2. base = q * PAGE_SIZE + m
    BY <2>1
  <2>3. f < q \/ q + n <= f
    BY <1>1, <1>4, <2>1 DEF RangeFrames, FrameOf, PagesOf
  <2>4. CASE f < q
    <3>1. (f + 1) * PAGE_SIZE <= q * PAGE_SIZE
      BY <1>1, <2>4
    <3>. QED BY <3>1, <2>2, <1>1
  <2>5. CASE q + n <= f
    <3>1. f - q \in Nat /\ n <= f - q
      BY <1>1, <2>5
    <3>2. size <= (f - q) * PAGE_SIZE
      BY <3>1, <2>1, DivCeil
    <3>3. (f - q) * PAGE_SIZE = f * PAGE_SIZE - q * PAGE_SIZE
      BY <1>1
    <3>. QED BY <3>2, <3>3, <2>1, <1>1
  <2>. QED BY <2>3, <2>4, <2>5
<1>5. b >= MEBIBYTE
  <2>1. (0 \div PAGE_SIZE) * PAGE_SIZE + MEBIBYTE <= b
    <3>1. 0 \in Nat /\ MEBIBYTE \in Nat /\ ~(b < 0)
      BY <1>1, ConstantsAssumption
    <3>. QED BY <3>1, <1>3, <1>4, Zenon
  <2>2. 0 \div PAGE_SIZE = 0
    OBVIOUS
  <2>. QED BY <2>1, <2>2, <1>1
<1>6. ~(s <= b /\ b < e)
  <2>1. (s \div PAGE_SIZE) * PAGE_SIZE = s
    BY <1>2
  <2>2. e - s \in Nat
    BY <1>2
  <2>. QED BY <2>1, <2>2, <1>1, <1>2, <1>3, <1>4
<1>7. ~(a <= b /\ b < a + z)
  <2>1. (a \div PAGE_SIZE) * PAGE_SIZE \in Nat /\ a + z \in Nat
    BY <1>2
  <2>. QED BY <2>1, <1>1, <1>3, <1>4
<1>. QED BY <1>2, <1>5, <1>6, <1>7

\* What each step of memory::init, and each allocation and release, does to the
\* frames that are free or handed out: a region adds its own, reserve_range takes
\* the ones of its range, and allocate and deallocate only pass them on.
LEMMA StepUsable == ASSUME AllocatorInv, Next PROVE FreeIsUsable'
<1>. DEFINE Usable == (Frames \ bitmap) \cup held
            Reserved(k) == RangeFrames(Reservations(info)[k].base, Reservations(info)[k].size)
            Region(i) == RegionFrames(info.memory_map[i])
<1>1. Regions \in Nat /\ step \in Nat /\ held \subseteq bitmap /\ bitmap \subseteq Frames
  BY BootInfoAssumption DEF AllocatorInv, BitmapInv, TypeOK, HeldMarked, Regions
<1>2. \A f \in Usable : /\ \E i \in 1 .. Regions : f \in Region(i)
                       /\ \A k \in 1 .. 3 : Regions + k < step => f \notin Reserved(k)
  BY DEF AllocatorInv, FreeIsUsable
<1>3. CASE InitRegion
  <2>1. /\ step <= Regions /\ step \in 1 .. Regions /\ step' = step + 1 /\ Regions' = Regions
        /\ info' = info /\ held' = held /\ bitmap' = bitmap \ Region(step)
    BY <1>1, <1>3 DEF InitRegion, Regions, AllocatorInv, BitmapInv, TypeOK
  <2>2. ASSUME NEW f \in (Frames \ bitmap') \cup held' PROVE \E i \in 1 .. Regions : f \in Region(i)
    BY <2>1, <2>2, <1>2
  <2>3. \A k \in 1 .. 3 : ~(Regions + k < step')
    BY <1>1, <2>1
  <2>. QED BY <2>1, <2>2, <2>3 DEF FreeIsUsable
<1>4. CASE ReserveRange
  <2>1. PICK n \in 1 .. 3 : n = step - Regions
    BY <1>1, <1>4 DEF ReserveRange
  <2>2. /\ step = Regions + n /\ step' = step + 1 /\ Regions' = Regions /\ info' = info
        /\ held' = held /\ bitmap' = bitmap \cup (Reserved(n) \ bitmap)
    BY <1>1, <1>4, <2>1 DEF ReserveRange, Regions
  <2>3. held = {}
    BY <1>1, <2>1, <2>2 DEF AllocatorInv, BitmapInv, Booting, Ready
  <2>4. ASSUME NEW f \in (Frames \ bitmap') \cup held'
        PROVE  f \in Usable /\ f \notin Reserved(n)
    BY <2>2, <2>3, <2>4
  <2>5. \A k \in 1 .. 3 : Regions + k < step' => k = n \/ Regions + k < step
    BY <1>1, <2>1, <2>2
  <2>. QED BY <1>2, <2>2, <2>4, <2>5 DEF FreeIsUsable
<1>5. ASSUME (Frames \ bitmap') \cup held' \subseteq Usable, UNCHANGED <<info, step>>
      PROVE  FreeIsUsable'
  BY <1>2, <1>5 DEF FreeIsUsable, Regions
<1>6. CASE Allocate
  <2>. DEFINE upper == FreeIn(next_free_hint \div WORD, BITMAP_LEN)
  <2>1. /\ free_frames = 0 <=> Frames \ bitmap = {}
        /\ upper = Frames \ bitmap
        /\ upper # {} => Lowest(upper) \in Frames \ bitmap
    BY ScanFindsLowest DEF AllocatorInv
  <2>2. UNCHANGED <<info, step>>
    BY <1>6 DEF Allocate
  <2>3. CASE upper = {}
    BY <1>5, <1>6, <2>1, <2>2, <2>3 DEF Allocate
  <2>4. CASE upper # {}
    <3>1. PICK f \in Frames \ bitmap : TakeFrame(f)
      BY <1>6, <2>1, <2>4 DEF Allocate
    <3>. QED BY <3>1, <2>2, <1>5 DEF TakeFrame
  <2>. QED BY <2>3, <2>4
<1>7. ASSUME NEW f \in 0 .. MAX_FRAMES, Deallocate(f) \/ DeallocateRefused(f)
      PROVE  FreeIsUsable'
  BY <1>1, <1>5, <1>7 DEF Deallocate, DeallocateRefused, allocator
<1>. QED BY <1>3, <1>4, <1>6, <1>7 DEF Next

\* The free count and the hint of the frame allocator agree with its bitmap, and
\* the bitmap with the memory map, for every bitmap, memory map and history of
\* allocations and releases.
THEOREM AllocatorCorrect == Spec => []AllocatorInv
<1>1. Init => AllocatorInv
  <2>1. Init => FreeIsUsable
    BY DEF Init, FreeIsUsable
  <2>. QED BY <2>1, InitBitmapInv DEF AllocatorInv
<1>2. AllocatorInv /\ [Next]_vars => AllocatorInv'
  <2>1. AllocatorInv /\ UNCHANGED vars => FreeIsUsable'
    <3>. SUFFICES ASSUME FreeIsUsable, UNCHANGED vars PROVE FreeIsUsable'
      BY Zenon DEF AllocatorInv
    <3>1. /\ info' = info /\ step' = step /\ bitmap' = bitmap /\ held' = held
      BY Zenon DEF vars, allocator
    <3>. QED BY <3>1 DEF FreeIsUsable, Regions
  <2>. QED BY <2>1, StepUsable, StepBitmapInv DEF AllocatorInv
<1>. QED BY <1>1, <1>2, PTL DEF Spec

\* memory::init lets allocate hand out whole frames of free memory only, and none
\* that has a byte of the low memory, the kernel or the framebuffer.
THEOREM OnlyFreeMemory == Spec => []HandsOutOnlyFreeMemory
<1>1. AllocatorInv => HandsOutOnlyFreeMemory
  <2>. SUFFICES ASSUME AllocatorInv, NEW f \in held
                PROVE  /\ \E i \in 1 .. Regions :
                            LET r == info.memory_map[i]
                            IN  /\ r.kind = "Free"
                                /\ Bytes(f) \subseteq r.base .. r.base + r.size - 1
                       /\ \A b \in Bytes(f) :
                            /\ b >= MEBIBYTE
                            /\ ~(info.kernel_start <= b /\ b < info.kernel_end)
                            /\ ~(/\ info.framebuffer_addr <= b
                                 /\ b < info.framebuffer_addr + info.framebuffer_size)
    BY DEF HandsOutOnlyFreeMemory
  <2>1. info \in BootInfos /\ Regions \in Nat /\ step = Regions + 4 /\ f \in Frames
    BY BootInfoAssumption DEF AllocatorInv, BitmapInv, TypeOK, Booting, Ready, Regions
  <2>2. PICK i \in 1 .. Regions : f \in RegionFrames(info.memory_map[i])
    BY DEF AllocatorInv, FreeIsUsable
  <2>3. info.memory_map[i] \in [base : Nat, size : Nat, kind : {"Free", "Reserved"}]
    <3>. DEFINE Region == [base : Nat, size : Nat, kind : {"Free", "Reserved"}]
    <3>1. info.memory_map \in Seq(Region) /\ i \in 1 .. Len(info.memory_map)
      BY <2>1, BootInfoAssumption DEF Regions
    <3>. HIDE DEF Region
    <3>2. info.memory_map[i] \in Region
      BY <3>1
    <3>. QED BY <3>2 DEF Region
  <2>4. f * PAGE_SIZE \in Bytes(f)
    BY <2>1, FramesFinite DEF Bytes, Frames
  <2>5. /\ info.memory_map[i].kind = "Free"
        /\ Bytes(f) \subseteq info.memory_map[i].base
                              .. info.memory_map[i].base + info.memory_map[i].size - 1
    BY <2>2, <2>3, <2>4, RegionBytes
  <2>6. \A k \in 1 .. 3 :
          f \notin RangeFrames(Reservations(info)[k].base, Reservations(info)[k].size)
    BY <2>1 DEF AllocatorInv, FreeIsUsable
  <2>. QED BY <2>1, <2>5, <2>6, ReservedBytes, Zenon
<1>. QED BY <1>1, AllocatorCorrect, PTL

\* free_frames is the number of clear bits, so `free_frames -= 1` never underflows.
THEOREM CountsFreeFrames == Spec => []FreeCount
BY AllocatorCorrect, PTL DEF AllocatorInv, BitmapInv

\* FrameAllocator::allocate returns the lowest free frame.
THEOREM LowestFirst == Spec => AllocatesLowest
<1>1. ASSUME BitmapInv, [Next]_vars, NEW f \in held' \ held
      PROVE  f \notin bitmap /\ \A g \in Frames \ bitmap : f <= g
  <2>1. CASE Allocate
    <3>. DEFINE upper == FreeIn(next_free_hint \div WORD, BITMAP_LEN)
    <3>1. /\ free_frames = 0 <=> Frames \ bitmap = {}
          /\ upper = Frames \ bitmap
          /\ upper # {} => /\ Lowest(upper) \in Frames \ bitmap
                          /\ \A g \in Frames \ bitmap : Lowest(upper) <= g
      BY <1>1, ScanFindsLowest
    <3>2. upper # {} /\ f = Lowest(upper)
      BY <2>1, <3>1 DEF Allocate, TakeFrame
    <3>. QED BY <3>1, <3>2
  <2>2. CASE held' \subseteq held
    BY <2>2
  <2>. QED BY <1>1, <2>1, <2>2, Zenon DEF Next, vars, InitRegion, ReserveRange, Deallocate,
              DeallocateRefused
<1>2. BitmapInv /\ [Next]_vars
        => [\A f \in held' \ held : f \notin bitmap /\ \A g \in Frames \ bitmap : f <= g]_vars
  BY <1>1
<1>. QED BY <1>2, AllocatorCorrect, PTL DEF AllocatorInv, Spec, AllocatesLowest

\* FrameAllocator::allocate fails only when no frame is free.
THEOREM FailsOnlyWhenFull == Spec => OutOfMemoryMeansFull
<1>1. ASSUME BitmapInv, Next, result' = "OutOfMemory" PROVE bitmap = Frames
  <2>1. ASSUME InitRegion \/ ReserveRange PROVE FALSE
    <3>1. ~Ready
      <4>1. Regions \in Nat
        BY BootInfoAssumption DEF Regions
      <4>2. step \in 1 .. Regions + 4
        BY <1>1, Zenon DEF BitmapInv, TypeOK
      <4>3. step <= Regions \/ step \in Regions + 1 .. Regions + 3
        BY <2>1, Zenon DEF InitRegion, ReserveRange
      <4>. QED BY <4>1, <4>2, <4>3 DEF Ready
    <3>. QED BY <1>1, <2>1, <3>1, Zenon DEF BitmapInv, Booting, InitRegion, ReserveRange
  <2>2. ASSUME NEW f \in 0 .. MAX_FRAMES, Deallocate(f) \/ DeallocateRefused(f) PROVE FALSE
    BY <1>1, <2>2 DEF Deallocate, DeallocateRefused
  <2>3. Allocate
    BY <1>1, <2>1, <2>2 DEF Next
  <2>4. /\ free_frames = 0 <=> Frames \ bitmap = {}
        /\ FreeIn(next_free_hint \div WORD, BITMAP_LEN) = Frames \ bitmap
    BY <1>1, ScanFindsLowest
  <2>5. Frames \ bitmap = {}
    BY <1>1, <2>3, <2>4 DEF Allocate, TakeFrame
  <2>. QED BY <1>1, <2>5, Zenon DEF BitmapInv, TypeOK
<1>2. BitmapInv /\ [Next]_vars => [result' = "OutOfMemory" => bitmap = Frames]_vars
  BY <1>1
<1>. QED BY <1>2, AllocatorCorrect, PTL DEF AllocatorInv, Spec, OutOfMemoryMeansFull
=============================================================================
