--------------------------- MODULE FrameAllocator ---------------------------
(***************************************************************************)
(* The bitmap allocator of physical frames (FrameAllocator in              *)
(* kernel/src/memory.rs): how memory::init sets it up from the boot        *)
(* information, and allocate and deallocate as FrameAllocatorProxy calls   *)
(* them.                                                                   *)
(***************************************************************************)
EXTENDS Integers, FiniteSets, Sequences

CONSTANTS WORD,        \* frames per word of the bitmap: 64
          BITMAP_LEN,  \* words of the bitmap: 4096
          PAGE_SIZE,   \* bytes of a frame: 4096
          MEBIBYTE,    \* the low memory that is never used
          BootInfos    \* what the boot loader may pass

ASSUME ConstantsAssumption ==
  /\ WORD \in Nat \ {0} /\ BITMAP_LEN \in Nat \ {0}
  /\ PAGE_SIZE \in Nat \ {0} /\ MEBIBYTE \in Nat

MAX_FRAMES == WORD * BITMAP_LEN
Frames == 0 .. MAX_FRAMES - 1

\* Frame::containing_addr, and usize::div_ceil for a number of pages.
FrameOf(addr) == addr \div PAGE_SIZE
PagesOf(size) == (size + PAGE_SIZE - 1) \div PAGE_SIZE

\* Mutant: the first frame of a region is rounded down.
RegionFramesDown(region) ==
  {f \in Frames : /\ region.kind = "Free"
                  /\ FrameOf(region.base) <= f /\ f < FrameOf(region.base + region.size)}

\* The frames that FrameAllocator::init marks free for a region of the map: whole
\* frames only, so the first one is rounded up and the last one down.
RegionFrames(region) ==
  LET first == IF region.base % PAGE_SIZE = 0 THEN FrameOf(region.base)
                                              ELSE FrameOf(region.base) + 1
      last  == FrameOf(region.base + region.size)
  IN  {f \in Frames : region.kind = "Free" /\ first <= f /\ f < last}

\* The frames that FrameAllocator::reserve_range visits.
RangeFrames(base, size) ==
  {f \in Frames : FrameOf(base) <= f /\ f < FrameOf(base) + PagesOf(size)}

\* The three calls of reserve_range in memory::init.
Reservations(info) ==
  <<[base |-> 0, size |-> MEBIBYTE],
    [base |-> info.kernel_start, size |-> info.kernel_end - info.kernel_start],
    [base |-> info.framebuffer_addr,
     size |-> info.framebuffer_addr + info.framebuffer_size]>>

\* The firmware's map is a sequence of regions that do not overlap, and the boot
\* loader places the kernel with allocate_pages, on a page boundary.
ASSUME BootInfoAssumption ==
  \A info \in BootInfos :
    /\ info.memory_map \in Seq([base : Nat, size : Nat, kind : {"Free", "Reserved"}])
    /\ \A i, j \in 1 .. Len(info.memory_map) :
         i # j => RegionFrames(info.memory_map[i]) \cap RegionFrames(info.memory_map[j]) = {}
    /\ info.kernel_start \in Nat /\ info.kernel_end \in Nat
    /\ info.kernel_start <= info.kernel_end /\ info.kernel_start % PAGE_SIZE = 0
    /\ info.framebuffer_addr \in Nat /\ info.framebuffer_size \in Nat

VARIABLES
  info,            \* the boot information
  step,            \* how far memory::init is: regions, then reservations
  bitmap,          \* the frames whose bit is set: not free
  total_frames, free_frames, next_free_hint,
  held,            \* the frames that proxies hold
  result           \* what the last call returned

allocator == <<bitmap, total_frames, free_frames, next_free_hint>>
vars == <<info, step, allocator, held, result>>

Regions == Len(info.memory_map)
Ready == step = Regions + 4

\* FrameAllocator::init before its loop: every bit is set.
Init ==
  /\ info \in BootInfos
  /\ step = 1
  /\ bitmap = Frames
  /\ total_frames = 0
  /\ free_frames = 0
  /\ next_free_hint = 0
  /\ held = {}
  /\ result = "Ok"

\* One round of the loop of FrameAllocator::init.
InitRegion ==
  /\ step <= Regions
  /\ LET frames == RegionFrames(info.memory_map[step])
     IN  /\ bitmap' = bitmap \ frames
         /\ total_frames' = total_frames + Cardinality(frames)
         /\ free_frames' = free_frames + Cardinality(frames)
  /\ step' = step + 1
  /\ UNCHANGED <<info, next_free_hint, held, result>>

\* Mutant: frames that are reserved already are counted again.
ReserveRangeCountsAll ==
  /\ step \in Regions + 1 .. Regions + 3
  /\ LET call   == Reservations(info)[step - Regions]
         frames == RangeFrames(call.base, call.size)
     IN  /\ bitmap' = bitmap \cup frames
         /\ free_frames' = free_frames - Cardinality(frames)
  /\ step' = step + 1
  /\ UNCHANGED <<info, total_frames, next_free_hint, held, result>>

\* reserve_range, with its saturating decrement of the free count.
ReserveRange ==
  /\ step \in Regions + 1 .. Regions + 3
  /\ LET call   == Reservations(info)[step - Regions]
         frames == RangeFrames(call.base, call.size) \ bitmap
         count  == Cardinality(frames)
     IN  /\ bitmap' = bitmap \cup frames
         /\ free_frames' = IF count <= free_frames THEN free_frames - count ELSE 0
  /\ step' = step + 1
  /\ UNCHANGED <<info, total_frames, next_free_hint, held, result>>

\* The free frame that the scan of the words lo .. hi - 1 meets first: the lowest
\* zero bit (trailing_zeros) of the first word that is not !0.
FreeIn(lo, hi) == {f \in Frames \ bitmap : f \div WORD >= lo /\ f \div WORD < hi}
Lowest(S) == CHOOSE f \in S : \A g \in S : f <= g

TakeFrame(f) ==
  /\ bitmap' = bitmap \cup {f}
  /\ free_frames' = free_frames - 1
  /\ next_free_hint' = f + 1
  /\ held' = held \cup {f}
  /\ result' = "Ok"

\* FrameAllocator::allocate
Allocate ==
  LET start_word == next_free_hint \div WORD
      upper      == FreeIn(start_word, BITMAP_LEN)
      lower      == FreeIn(0, start_word)
  IN  /\ Ready
      /\ IF free_frames = 0 \/ (upper = {} /\ lower = {})
         THEN /\ result' = "OutOfMemory"
              /\ UNCHANGED <<bitmap, free_frames, next_free_hint, held>>
         ELSE TakeFrame(IF upper # {} THEN Lowest(upper) ELSE Lowest(lower))
      /\ UNCHANGED <<info, step, total_frames>>

\* Mutant: the hint is not lowered.
DeallocateKeepsHint(f) ==
  /\ Ready
  /\ f \in held \cap bitmap
  /\ bitmap' = bitmap \ {f}
  /\ free_frames' = free_frames + 1
  /\ held' = held \ {f}
  /\ result' = "Ok"
  /\ UNCHANGED <<info, step, total_frames, next_free_hint>>

\* FrameAllocator::deallocate of a frame that a proxy gives back.
Deallocate(f) ==
  /\ Ready
  /\ f \in held \cap bitmap
  /\ bitmap' = bitmap \ {f}
  /\ free_frames' = free_frames + 1
  /\ next_free_hint' = IF f < next_free_hint THEN f ELSE next_free_hint
  /\ held' = held \ {f}
  /\ result' = "Ok"
  /\ UNCHANGED <<info, step, total_frames>>

\* Its two early returns: a frame beyond the bitmap, and one that is free already.
DeallocateRefused(f) ==
  /\ Ready
  /\ f >= MAX_FRAMES \/ f \notin bitmap
  /\ result' = IF f >= MAX_FRAMES THEN "InvalidFrame" ELSE "Ok"
  /\ UNCHANGED <<info, step, allocator, held>>

Next ==
  \/ InitRegion \/ ReserveRange \/ Allocate
  \/ \E f \in 0 .. MAX_FRAMES : Deallocate(f) \/ DeallocateRefused(f)

Spec == Init /\ [][Next]_vars
-----------------------------------------------------------------------------
TypeOK ==
  /\ info \in BootInfos
  /\ step \in 1 .. Regions + 4
  /\ bitmap \in SUBSET Frames
  /\ total_frames \in Nat
  /\ free_frames \in Nat
  /\ next_free_hint \in 0 .. MAX_FRAMES
  /\ held \in SUBSET Frames
  /\ result \in {"Ok", "OutOfMemory", "InvalidFrame"}

\* FrameAllocator::free_frames, kept by increments in five places, is the number
\* of clear bits: its decrements never underflow, and allocate's early test of it
\* is exact.
FreeCount == free_frames = Cardinality(Frames \ bitmap)

\* Every frame below next_free_hint is taken, through every order of allocations
\* and releases: the second scan of FrameAllocator::allocate never finds one.
BelowHintTaken == \A f \in Frames : f < next_free_hint => f \in bitmap

\* FrameAllocator::allocate fails only when no frame is free.
OutOfMemoryMeansFull == [][result' = "OutOfMemory" => bitmap = Frames]_vars

\* FrameAllocator::allocate always returns the lowest free frame, although it
\* starts from a hint: a frame that was released is used again before a higher one.
AllocatesLowest ==
  [][\A f \in held' \ held :
       f \notin bitmap /\ \A g \in Frames \ bitmap : f <= g]_vars

\* A frame in use is marked, so it is not handed out a second time.
HeldMarked == held \subseteq bitmap

Bytes(f) == f * PAGE_SIZE .. (f + 1) * PAGE_SIZE - 1

\* What memory::init promises of every frame it lets allocate hand out: all of its
\* bytes are free memory, and none is low memory, the kernel or the framebuffer.
HandsOutOnlyFreeMemory ==
  \A f \in held :
    /\ \E i \in 1 .. Regions :
         LET r == info.memory_map[i]
         IN  r.kind = "Free" /\ Bytes(f) \subseteq r.base .. r.base + r.size - 1
    /\ \A b \in Bytes(f) :
         /\ b >= MEBIBYTE
         /\ ~(info.kernel_start <= b /\ b < info.kernel_end)
         /\ ~(info.framebuffer_addr <= b
                /\ b < info.framebuffer_addr + info.framebuffer_size)

\* While memory::init runs, nothing is handed out and the regions still to come
\* are not free.
Booting ==
  /\ ~Ready => held = {} /\ next_free_hint = 0 /\ result = "Ok"
  /\ \A i \in step .. Regions : RegionFrames(info.memory_map[i]) \subseteq bitmap

\* The count and the hint agree with the bitmap from the first region of
\* FrameAllocator::init on.
BitmapInv == TypeOK /\ FreeCount /\ BelowHintTaken /\ HeldMarked /\ Booting

\* Whatever is free or handed out is a whole frame of a free region, and is in no
\* range that memory::init has reserved so far.
FreeIsUsable ==
  \A f \in (Frames \ bitmap) \cup held :
    /\ \E i \in 1 .. Regions : f \in RegionFrames(info.memory_map[i])
    /\ \A k \in 1 .. 3 :
         LET call == Reservations(info)[k]
         IN  Regions + k < step => f \notin RangeFrames(call.base, call.size)

\* The inductive invariant of the allocator.
AllocatorInv == BitmapInv /\ FreeIsUsable
=============================================================================
