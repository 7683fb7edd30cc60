----------------------------- MODULE HoleSplit -----------------------------
(***************************************************************************)
(* The arithmetic of the first-fit heap (crates/heap/src/llff.rs): how a   *)
(* layout is rounded and how an allocation is cut out of a hole.  Addresses*)
(* and sizes are bytes.                                                    *)
(***************************************************************************)
EXTENDS Integers

CONSTANTS ALIGN,           \* align_of::<Hole>(): 8
          MIN_ALLOC_SIZE,  \* size_of::<Hole>(): 16
          None             \* Option::None

ASSUME HoleAssumption ==
  ALIGN \in Nat \ {0} /\ MIN_ALLOC_SIZE \in Nat \ {0} /\ MIN_ALLOC_SIZE % ALIGN = 0

\* memory_types::align_up
AlignUp(addr, align) == ((addr + align - 1) \div align) * align

\* align_layout_for_hole
AlignedSize(layout) ==
  AlignUp(IF layout.size < MIN_ALLOC_SIZE THEN MIN_ALLOC_SIZE ELSE layout.size, ALIGN)

\* Mutant: there is always a padding in front.
AlignedAddrPadded(hole, align) == AlignUp(hole.addr + MIN_ALLOC_SIZE, align)

\* Where split_hole puts an allocation: at the start of the hole, or behind a
\* padding that is itself a hole.
AlignedAddr(hole, align) ==
  IF hole.addr = AlignUp(hole.addr, align)
  THEN hole.addr
  ELSE AlignUp(hole.addr + MIN_ALLOC_SIZE, align)

\* Its two reasons to refuse a hole: it is too small, or what would be left behind
\* the allocation is too small to be a hole.
Fits(hole, size, align) ==
  LET rest == (hole.addr + hole.size) - (AlignedAddr(hole, align) + size)
  IN  /\ AlignedAddr(hole, align) + size <= hole.addr + hole.size
      /\ rest = 0 \/ rest >= MIN_ALLOC_SIZE

\* The holes that remain, None for a padding that is not there.
FrontPadding(hole, align) ==
  LET a == AlignedAddr(hole, align)
  IN  IF a = hole.addr THEN None ELSE [addr |-> hole.addr, size |-> a - hole.addr]

BackPadding(hole, size, align) ==
  LET end == AlignedAddr(hole, align) + size
  IN  IF end = hole.addr + hole.size THEN None
      ELSE [addr |-> end, size |-> (hole.addr + hole.size) - end]

\* An address of the hole where an allocation leaves nothing, or a hole, on either
\* side of it.
Placeable(hole, size, align) ==
  \E a \in hole.addr .. hole.addr + hole.size :
    LET front == a - hole.addr
        back  == (hole.addr + hole.size) - (a + size)
    IN  /\ a % align = 0
        /\ front = 0 \/ front >= MIN_ALLOC_SIZE
        /\ back = 0 \/ back >= MIN_ALLOC_SIZE
=============================================================================
