--------------------------- MODULE KernelMappings ---------------------------
(***************************************************************************)
(* How KernelMapping (kernel/src/memory.rs) hands out the kernel's pages:  *)
(* a new mapping starts at KERNEL_MAPPING_OFFSET, but an extension goes on *)
(* where the mapping ends, wherever the offset is by then.                 *)
(***************************************************************************)
EXTENDS Integers

CONSTANTS KERNEL_MAPPING_BASE,  \* the first page
          MAX_OFFSET,           \* bound of the offset
          Lengths               \* the lengths that callers ask for, in pages

ASSUME MappingAssumption ==
  /\ KERNEL_MAPPING_BASE \in Nat /\ MAX_OFFSET \in Nat
  /\ KERNEL_MAPPING_BASE <= MAX_OFFSET
  /\ Lengths \subseteq Nat \ {0}

VARIABLES
  offset,  \* KERNEL_MAPPING_OFFSET, in pages
  mapped,  \* the kernel's pages that are mapped
  live     \* the KernelMappings that exist: their page ranges

mappingVars == <<offset, mapped, live>>

Pages(start, end) == start .. end - 1
PagesOf(m) == Pages(m.start, m.end)

MapInit ==
  /\ offset = KERNEL_MAPPING_BASE
  /\ mapped = {}
  /\ live = {}

Advance(n) ==
  /\ offset + n <= MAX_OFFSET
  /\ offset' = offset + n

\* KernelMapping::new
New(n) ==
  /\ Advance(n)
  /\ mapped' = mapped \cup Pages(offset, offset + n)
  /\ live' = live \cup {[start |-> offset, end |-> offset + n]}

\* Mutant: the end of the mapping is not moved.
ExtendedNot(m, n) == m

Extended(m, n) == [start |-> m.start, end |-> m.end + n]

\* Mutant: the offset stays where it is.
ExtendInPlace(m, n) ==
  LET pages == Pages(m.end, m.end + n)
  IN  /\ pages \cap mapped = {}
      /\ mapped' = mapped \cup pages
      /\ live' = (live \ {m}) \cup {Extended(m, n)}
      /\ UNCHANGED offset

\* Mutant: a page that is mapped already is passed over, as in map_pages.
ExtendOver(m, n) ==
  /\ Advance(n)
  /\ mapped' = mapped \cup Pages(m.end, m.end + n)
  /\ live' = (live \ {m}) \cup {Extended(m, n)}

\* KernelMapping::extend, when none of the pages is mapped yet.
Extend(m, n) ==
  LET pages == Pages(m.end, m.end + n)
  IN  /\ Advance(n)
      /\ pages \cap mapped = {}
      /\ mapped' = mapped \cup pages
      /\ live' = (live \ {m}) \cup {Extended(m, n)}

\* The pages that map_pages_untracked maps before it meets a mapped one.
Prefix(m, n) ==
  LET pages == Pages(m.end, m.end + n)
  IN  {x \in pages : \A c \in pages \cap mapped : x < c}

\* KernelMapping::extend, when map_pages_untracked meets a mapped page, or when the
\* pages are mapped for the kernel and map_kernel_pages_to fails.
ExtendFails(m, n) ==
  /\ Advance(n)
  /\ mapped' = mapped \cup Prefix(m, n)
  /\ UNCHANGED live

\* A KernelMapping has no Drop: its pages stay mapped.
Forget(m) ==
  /\ live' = live \ {m}
  /\ UNCHANGED <<offset, mapped>>

MapNext ==
  \/ \E n \in Lengths : New(n)
  \/ \E m \in live :
       \/ \E n \in Lengths : Extend(m, n) \/ ExtendFails(m, n)
       \/ Forget(m)

MapSpec == MapInit /\ [][MapNext]_mappingVars
-----------------------------------------------------------------------------
\* The pages at and above KERNEL_MAPPING_OFFSET are not mapped, although extend
\* does not take its pages from there: the unwrap of KernelMapping::new cannot meet
\* a mapped page, and the mapping that was made last can always be extended.
BelowOffset ==
  /\ mapped \subseteq Pages(KERNEL_MAPPING_BASE, offset)
  /\ \A m \in live : m.end <= offset

\* No page belongs to two mappings, and every page of a mapping is mapped.
Separate ==
  \A m \in live :
    /\ PagesOf(m) \subseteq mapped
    /\ \A k \in live : PagesOf(m) \cap PagesOf(k) # {} => m = k

RangesOK ==
  /\ offset \in Nat
  /\ mapped \in SUBSET Nat
  /\ live \in SUBSET [start : Nat, end : Nat]

\* The inductive invariant: a mapping is never empty, so its range tells it apart.
MappingInv ==
  /\ RangesOK
  /\ KERNEL_MAPPING_BASE <= offset
  /\ \A m \in live : m.start < m.end
  /\ BelowOffset
  /\ Separate
=============================================================================
