-------------------------------- MODULE Heap --------------------------------
(***************************************************************************)
(* The linked-list first-fit heap (crates/heap/src/llff.rs) behind the     *)
(* lock of heap::Allocator.  `holes` is the list in the order of its links,*)
(* without the dummy at its head.                                          *)
(***************************************************************************)
EXTENDS HoleSplit, Sequences, FiniteSets

CONSTANTS Bottom, Size,  \* the arguments of Heap::init
          Layouts        \* the layouts that programs ask for

VARIABLES
  used,     \* Heap::used
  holes,    \* HoleList
  blocks,   \* the allocations that were not released: address and layout
  freeing,  \* None, or what `deallocate` has in hand: the hole it is at (0 for the
            \* dummy), `addr`, `size`, and the size of the layout that is released
  outcome   \* what the last call did

heapVars == <<used, holes, blocks, freeing, outcome>>

FirstByte == AlignUp(Bottom, ALIGN)
EndByte == Bottom + Size

\* A heap has room for a hole and is not at the null address.  Alignments are powers
\* of two, align_of::<Hole>() is one and divides size_of::<Hole>(): of two of them
\* one divides the other.
ASSUME HeapAssumption ==
  /\ Bottom \in Nat \ {0} /\ Size \in Nat /\ FirstByte + MIN_ALLOC_SIZE <= EndByte
  /\ \A l \in Layouts :
       /\ l.size \in Nat /\ l.align \in Nat \ {0}
       /\ ALIGN % l.align = 0 \/ l.align % ALIGN = 0
       /\ ALIGN % l.align = 0 \/ l.align >= MIN_ALLOC_SIZE
  /\ None \notin [addr : Nat, size : Nat]
  /\ None \notin [at : Nat, addr : Nat, size : Nat, freed : Nat]

\* Heap::init
HeapInit ==
  /\ used = 0
  /\ holes = <<[addr |-> FirstByte, size |-> EndByte - FirstByte]>>
  /\ blocks = {}
  /\ freeing = None
  /\ outcome = "init"
-----------------------------------------------------------------------------
Listed(hole) == IF hole = None THEN <<>> ELSE <<hole>>

\* A hole unlinked from the list, and one linked in.
RemoveAt(list, i) == SubSeq(list, 1, i - 1) \o SubSeq(list, i + 1, Len(list))
InsertAt(list, i, hole) == SubSeq(list, 1, i - 1) \o <<hole>> \o SubSeq(list, i, Len(list))

\* The list once hole i was taken and its paddings linked.
Split(i, front, back) ==
  SubSeq(holes, 1, i - 1) \o Listed(front) \o Listed(back) \o SubSeq(holes, i + 1, Len(holes))

\* Heap::allocate_first_fit, when the walk along the list finds a hole.
AllocateFirstFit(layout) ==
  LET size == AlignedSize(layout)
      Fit(i) == Fits(holes[i], size, layout.align)
  IN  \E i \in 1 .. Len(holes) :
        /\ freeing = None
        /\ Fit(i) /\ \A j \in 1 .. i - 1 : ~Fit(j)
        /\ holes' = Split(i, FrontPadding(holes[i], layout.align),
                             BackPadding(holes[i], size, layout.align))
        /\ blocks' = blocks \cup
             {[addr |-> AlignedAddr(holes[i], layout.align), layout |-> layout]}
        /\ used' = used + size
        /\ outcome' = "ok"
        /\ UNCHANGED freeing

\* ... and when it does not.
AllocateFails(layout) ==
  /\ freeing = None
  /\ \A i \in 1 .. Len(holes) : ~Fits(holes[i], AlignedSize(layout), layout.align)
  /\ outcome' = "null"
  /\ UNCHANGED <<used, holes, blocks, freeing>>
-----------------------------------------------------------------------------
\* Heap::deallocate, up to the loop.
Release(block) ==
  LET size == AlignedSize(block.layout)
  IN  /\ freeing = None
      /\ blocks' = blocks \ {block}
      /\ freeing' = [at |-> 0, addr |-> block.addr, size |-> size, freed |-> size]
      /\ UNCHANGED <<used, holes, outcome>>

(* An iteration of the loop in `deallocate` takes one of the arms of its match.  *)
EndOf(i) == IF i = 0 THEN 0 ELSE holes[i].addr + holes[i].size

\* What the iteration looks at: the hole it is at ends where the block begins, there
\* is a next hole, and that one begins where the block ends.
Behind == EndOf(freeing.at) = freeing.addr
HasNext == freeing.at < Len(holes)
NextHole == holes[freeing.at + 1]
Before == HasNext /\ freeing.addr + freeing.size = NextHole.addr

\* The two assertions at its top.
BlockIsFreeable == freeing.size >= MIN_ALLOC_SIZE /\ EndOf(freeing.at) <= freeing.addr

\* The loop ends with this list, and Heap::deallocate does its account.
Freed(list) ==
  /\ holes' = list
  /\ used' = used - freeing.freed
  /\ freeing' = None
  /\ outcome' = "ok"
  /\ UNCHANGED blocks

Panics == outcome' = "panic" /\ UNCHANGED <<used, holes, blocks, freeing>>

Grown(by) == [holes EXCEPT ![freeing.at].size = @ + by]

\* Mutant: the hole grows over the next one, which stays in the list.
FillsGapKeepsNext ==
  Behind /\ Before /\ Freed(Grown(freeing.size + NextHole.size))

\* The block fills the gap between this hole and the next one.
FillsGap ==
  /\ Behind /\ Before
  /\ Freed(RemoveAt(Grown(freeing.size + NextHole.size), freeing.at + 1))

\* It is right behind this hole only.
GrowsHole ==
  /\ Behind /\ ~Before
  /\ Freed(Grown(freeing.size))

\* It is right before the next hole only, and the two are freed as one.
TakesNext ==
  /\ ~Behind /\ Before
  /\ holes' = RemoveAt(holes, freeing.at + 1)
  /\ freeing' = [freeing EXCEPT !.size = @ + NextHole.size]
  /\ UNCHANGED <<used, blocks, outcome>>

\* It is somewhere behind the next hole.
GoesOn ==
  /\ ~Behind /\ ~Before
  /\ HasNext /\ NextHole.addr <= freeing.addr
  /\ freeing' = [freeing EXCEPT !.at = @ + 1]
  /\ UNCHANGED <<used, holes, blocks, outcome>>

\* It lies between this hole and the next one, or behind the last one.
BecomesHole ==
  /\ ~Behind /\ ~Before /\ ~(HasNext /\ NextHole.addr <= freeing.addr)
  /\ IF freeing.addr % ALIGN = 0
     THEN Freed(InsertAt(holes, freeing.at + 1, [addr |-> freeing.addr, size |-> freeing.size]))
     ELSE Panics

Iterate ==
  /\ freeing # None /\ outcome # "panic"
  /\ IF BlockIsFreeable THEN FillsGap \/ GrowsHole \/ TakesNext \/ GoesOn \/ BecomesHole ELSE Panics

HeapNext ==
  \/ \E l \in Layouts : AllocateFirstFit(l) \/ AllocateFails(l)
  \/ \E b \in blocks : Release(b)
  \/ Iterate

HeapSpec == HeapInit /\ [][HeapNext]_heapVars
-----------------------------------------------------------------------------
BytesAt(addr, size) == addr .. addr + size - 1
BlockBytes(b) == BytesAt(b.addr, AlignedSize(b.layout))
HoleBytes(i) == BytesAt(holes[i].addr, holes[i].size)

Occupied == UNION {BlockBytes(b) : b \in blocks}
Free == UNION {HoleBytes(i) : i \in 1 .. Len(holes)}
InHand == IF freeing = None THEN {} ELSE BytesAt(freeing.addr, freeing.size)

\* No byte of the heap is lost and none is in two places: the live allocations,
\* each where its layout wants it, the holes, and what `deallocate` has in hand cut
\* the heap into pieces, through every order of calls and after every iteration.
\* `deallocate` has no more than an address to find out which neighbours a block has.
Tiled ==
  /\ \A b, c \in blocks : b # c => BlockBytes(b) \cap BlockBytes(c) = {}
  /\ \A b \in blocks : b.addr % b.layout.align = 0 /\ b.addr % ALIGN = 0
  /\ Free \cap Occupied = {} /\ InHand \cap (Free \cup Occupied) = {}
  /\ Free \cup Occupied \cup InHand = FirstByte .. EndByte - 1

\* The list is in the order of addresses, two holes never touch, and each can hold
\* its link: `deallocate` merges a block with both neighbours at once, so memory
\* does not stay split.  Heap::used, changed by increments only, is what the live
\* allocations occupy (and the one in hand, until its loop is over), and no assertion
\* of `deallocate` fails.
HeapInv ==
  /\ Tiled /\ outcome # "panic"
  /\ \A i \in 1 .. Len(holes) : holes[i].size >= MIN_ALLOC_SIZE
  /\ \A i \in 1 .. Len(holes) - 1 : EndOf(i) < holes[i + 1].addr
  /\ used = Cardinality(Occupied) + (IF freeing = None THEN 0 ELSE freeing.freed)

\* Heap::allocate_first_fit gives up only if no hole has a place for the layout,
\* although split_hole tries a single address in every hole.
NoPlaceMissed ==
  \A i \in 1 .. Len(holes), l \in Layouts :
    Placeable(holes[i], AlignedSize(l), l.align)
      => Fits(holes[i], AlignedSize(l), l.align)
=============================================================================
