------------------------------ MODULE PageTable ------------------------------
(***************************************************************************)
(* The four-level page tables of crates/memory-types/src/paging.rs:        *)
(* Level4PageTable::map_to, set_flags and translate_page over tables that  *)
(* the firmware has begun, huge pages included.                            *)
(***************************************************************************)
EXTENDS Integers, Sequences, FiniteSets, FiniteSetsExt

CONSTANTS ENTRIES,    \* entries of a table: 512
          Root,       \* the frame of the level-4 table
          Firmware,   \* what the tables may hold when the kernel starts
          Pool,       \* frames the allocator can give to new tables
          DataFrames, \* frames that pages are mapped to
          MapPages,   \* the pages that callers pass to map_to
          Flags,      \* the flag sets that callers pass
          Ranges,     \* the page ranges that callers pass to set_flags
          Nothing     \* Option::None

Index == 0 .. ENTRIES - 1
Pages == 0 .. ENTRIES^4 - 1

\* Page::l1_index ... l4_index
IndexOf(page, level) == (page \div ENTRIES^(level - 1)) % ENTRIES

Empty == [i \in Index |-> Nothing]
ParentFlags(flags) == flags \cap {"PRESENT", "WRITABLE", "USER_ACCESSIBLE"}

VARIABLES
  tables,  \* the tables by frame: an entry is Nothing or a frame, its flags, and
           \* whether it maps a huge page
  free,    \* the frames of Pool that are still free
  call     \* the last call and what it returned

tableVars == <<tables, free, call>>

TableInit ==
  /\ tables \in Firmware
  /\ free = Pool
  /\ call = [op |-> "init", result |-> "Ok"]
-----------------------------------------------------------------------------
(* A walk is where a call has come to: the tables it leaves, the free frames,*)
(* the table it is at, and the error that ended it.                         *)

Begin == [tables |-> tables, free |-> free, at |-> Root, error |-> Nothing]

\* The entry points to frame f, and f holds a table.
Hang(w, index, flags, f, table) ==
  LET entry == [frame |-> f, flags |-> flags, huge |-> FALSE]
  IN  [w EXCEPT !.tables = [g \in DOMAIN @ \cup {f} |->
                              IF g = f THEN table
                              ELSE IF g = w.at THEN [@[g] EXCEPT ![index] = entry] ELSE @[g]],
                !.at = f]

\* Mutant: a new table keeps what its frame held: here, what the root holds.
NewTableUncleared(w, index, flags) ==
  LET f == Min(w.free)
  IN  [Hang(w, index, flags, f, w.tables[Root]) EXCEPT !.free = @ \ {f}]

\* next_table for an unused entry: a new table, cleared.
NewTable(w, index, flags) ==
  LET f == Min(w.free)
  IN  [Hang(w, index, flags, f, Empty) EXCEPT !.free = @ \ {f}]

\* Mutant: the flags of a table that exists are not widened.
EnterTableKeepsFlags(w, index, flags) ==
  LET e == w.tables[w.at][index]
  IN  IF e.huge THEN [w EXCEPT !.error = "MappedToHugePage"] ELSE [w EXCEPT !.at = e.frame]

\* Mutant: they are replaced.
EnterTableReplacesFlags(w, index, flags) ==
  LET e == w.tables[w.at][index]
      v == [w EXCEPT !.tables[w.at][index].flags = flags]
  IN  IF e.huge THEN [v EXCEPT !.error = "MappedToHugePage"] ELSE [v EXCEPT !.at = e.frame]

\* next_table for an entry in use: its flags are widened before it turns out that
\* it maps a huge page.
EnterTable(w, index, flags) ==
  LET e == w.tables[w.at][index]
      v == [w EXCEPT !.tables[w.at][index].flags = @ \cup flags]
  IN  IF e.huge THEN [v EXCEPT !.error = "MappedToHugePage"] ELSE [v EXCEPT !.at = e.frame]

\* Level4PageTable::next_table
NextTable(w, index, flags) ==
  IF w.error # Nothing THEN w
  ELSE IF w.tables[w.at][index] # Nothing THEN EnterTable(w, index, flags)
  ELSE IF w.free # {} THEN NewTable(w, index, flags)
  ELSE [w EXCEPT !.error = "FrameAllocationFailed"]

Leave(w, op, page, result) ==
  /\ tables' = w.tables
  /\ free' = w.free
  /\ call' = [op |-> op, page |-> page, result |-> result]

\* Mutant: a page that is mapped is mapped again.
MapToAgain(page, frame, flags) ==
  LET parent == ParentFlags(flags)
      l3 == NextTable(Begin, IndexOf(page, 4), parent)
      l2 == NextTable(l3, IndexOf(page, 3), parent)
      l1 == NextTable(l2, IndexOf(page, 2), parent)
      entry == [frame |-> frame, flags |-> flags, huge |-> FALSE]
  IN  IF l1.error # Nothing
      THEN Leave(l1, "map_to", page, l1.error)
      ELSE Leave([l1 EXCEPT !.tables[l1.at][IndexOf(page, 1)] = entry], "map_to", page, "Ok")

\* Level4PageTable::map_to.  What next_table did stays when a later step fails.
MapTo(page, frame, flags) ==
  LET parent == ParentFlags(flags)
      l3 == NextTable(Begin, IndexOf(page, 4), parent)
      l2 == NextTable(l3, IndexOf(page, 3), parent)
      l1 == NextTable(l2, IndexOf(page, 2), parent)
      i  == IndexOf(page, 1)
      entry == [frame |-> frame, flags |-> flags, huge |-> FALSE]
  IN  IF l1.error # Nothing
      THEN Leave(l1, "map_to", page, l1.error)
      ELSE IF l1.tables[l1.at][i] # Nothing
      THEN Leave(l1, "map_to", page, "PageAlreadyMapped")
      ELSE Leave([l1 EXCEPT !.tables[l1.at][i] = entry], "map_to", page, "Ok")

\* The round of set_flags for one page: the walk after it, and how many pages of
\* the range it consumes (the page itself, then PAGES_PER_.._HUGE_PAGE more).
FlagPage(w, page, flags) ==
  LET parent == ParentFlags(flags)
      At(v, level) == v.tables[v.at][IndexOf(page, level)]
      Set(v, level, fs) == [v EXCEPT !.tables[v.at][IndexOf(page, level)].flags = fs]
      l3 == NextTable([w EXCEPT !.at = Root], IndexOf(page, 4), parent)
      l2 == NextTable(l3, IndexOf(page, 3), parent)
      l1 == NextTable(l2, IndexOf(page, 2), parent)
      IsHuge(v, level) == v.error = Nothing /\ At(v, level) # Nothing /\ At(v, level).huge
  IN  IF IsHuge(l3, 3)
      THEN [walk |-> Set(l3, 3, flags), consumed |-> 1 + ENTRIES^2]
      ELSE IF IsHuge(l2, 2)
      THEN [walk |-> Set(l2, 2, flags), consumed |-> 1 + ENTRIES]
      ELSE IF l1.error # Nothing \/ At(l1, 1) = Nothing
      THEN [walk |-> l1, consumed |-> 1]
      ELSE [walk |-> Set(l1, 1, flags), consumed |-> 1]

RECURSIVE FlagFrom(_, _, _, _)
FlagFrom(w, page, end, flags) ==
  IF page >= end \/ w.error # Nothing THEN w
  ELSE LET r == FlagPage(w, page, flags)
       IN  FlagFrom(r.walk, page + r.consumed, end, flags)

\* Level4PageTable::set_flags
SetFlags(range, flags) ==
  LET w == FlagFrom(Begin, range.start, range.end, flags)
  IN  Leave(w, "set_flags", range, IF w.error = Nothing THEN "Ok" ELSE w.error)

TableNext ==
  \/ \E page \in MapPages, frame \in DataFrames, flags \in Flags : MapTo(page, frame, flags)
  \/ \E range \in Ranges, flags \in Flags : SetFlags(range, flags)

TableSpec == TableInit /\ [][TableNext]_tableVars
-----------------------------------------------------------------------------
(* What the processor makes of the tables.                                  *)

\* The entries on the way to a page, from level 4 down to the one that maps it.
RECURSIVE PathFrom(_, _, _, _)
PathFrom(ts, table, page, level) ==
  LET e == ts[table][IndexOf(page, level)]
  IN  IF e = Nothing THEN <<Nothing>>
      ELSE IF level = 1 \/ e.huge THEN <<e>>
      ELSE <<e>> \o PathFrom(ts, e.frame, page, level - 1)

Path(ts, page) == PathFrom(ts, Root, page, 4)
Leaf(ts, page) == LET path == Path(ts, page) IN path[Len(path)]

\* A right counts only when every level allows it, and one NO_EXECUTE on the way
\* forbids execution.
Access(ts, page) ==
  LET path == Path(ts, page)
      Everywhere(f) == \A i \in 1 .. Len(path) : f \in path[i].flags
      Somewhere(f) == \E i \in 1 .. Len(path) : f \in path[i].flags
  IN  IF Leaf(ts, page) = Nothing THEN {}
      ELSE {f \in {"PRESENT", "WRITABLE", "USER_ACCESSIBLE"} : Everywhere(f)}
             \cup {f \in {"NO_EXECUTE"} : Somewhere(f)}

\* The entries that point to a table, by the level of the table they are in.
RECURSIVE PointersFrom(_, _)
PointersFrom(table, level) ==
  IF level = 1 THEN {}
  ELSE LET used == {i \in Index : tables[table][i] # Nothing /\ ~tables[table][i].huge}
       IN  {<<table, i>> : i \in used}
             \cup UNION {PointersFrom(tables[table][i].frame, level - 1) : i \in used}

\* The tables are a tree: every table but the root hangs on exactly one entry,
\* whatever calls failed half way, and a table is neither free nor a data frame.
TablesAreATree ==
  LET pointers == PointersFrom(Root, 4)
      Target(x) == tables[x[1]][x[2]].frame
  IN  /\ \A x, y \in pointers : Target(x) = Target(y) => x = y
      /\ {Target(x) : x \in pointers} = DOMAIN tables \ {Root}
      /\ DOMAIN tables \cap (free \cup DataFrames) = {}

\* What a page's own entry allows is what the processor allows: every table above
\* a page allows at least as much, because map_to and set_flags widen the tables
\* they pass.  So a caller of set_flags that asks for USER_ACCESSIBLE gets it.
LeafDecides ==
  \A page \in Pages :
    Leaf(tables, page) # Nothing
      => Access(tables, page) = Leaf(tables, page).flags

\* No call moves a page that is mapped: neither its frame nor its size changes.
MappingsStay ==
  [][\A page \in Pages :
       Leaf(tables, page) # Nothing
         => /\ Leaf(tables', page) # Nothing
            /\ Leaf(tables', page).frame = Leaf(tables, page).frame
            /\ Leaf(tables', page).huge = Leaf(tables, page).huge]_tableVars

\* Level4PageTable::map_to changes the access to no page but its own when it
\* succeeds or finds the page mapped, though it widens the tables above others.
MapToIsLocal ==
  [][call'.op = "map_to" /\ call'.result \in {"Ok", "PageAlreadyMapped"}
       => \A page \in Pages \ {call'.page} : Access(tables', page) = Access(tables, page)]_tableVars

\* __page_fault_handler: "The BAR pages are already mapped into the address space
\* [...] Granting access just requires setting the flags": after set_flags every
\* mapped page of the range has the same access.
SetFlagsCoversRange ==
  call.op = "set_flags" /\ call.result = "Ok"
    => \A p, q \in call.page.start .. call.page.end - 1 :
         Leaf(tables, p) # Nothing /\ Leaf(tables, q) # Nothing
           => Access(tables, p) = Access(tables, q)
=============================================================================
