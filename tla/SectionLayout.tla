--------------------------- MODULE SectionLayout ---------------------------
(***************************************************************************)
(* How the loader lays the sections of an object out in memory             *)
(* (kernel/src/loader.rs).  allocate_section_mappings walks over the       *)
(* sections to measure three mappings, "x" for code, "r" for read-only and *)
(* "w" for writable data; load_object_sections walks over them again, with *)
(* offsets of its own, to fill the mappings.  Whether the two walks agree  *)
(* decides whether the second one stays inside what the first one          *)
(* measured.  Sizes and offsets are bytes.                                 *)
(***************************************************************************)
EXTENDS Integers, Sequences

CONSTANTS Sheets,   \* the section tables to lay out: sequences of sections
          FileSize  \* bytes in the object file

(* A section: its flags, its name, the type of its contents ("other" for one  *)
(* whose data the loader does not take), and where it is in the file.         *)
(* Of a name matters whether it is as long as the prefix the loader looks     *)
(* for, and what it is of read-only data: "named" is a name that is handled,  *)
(* with a symbol where one is needed; "foreign" is long enough but unknown;   *)
(* "short" is any other name that is shorter than the prefix.                 *)
Names == {".text", ".rodata", ".lrodata", ".data", ".bss", "named", "foreign", "short"}
Section == [flags : SUBSET {"alloc", "exec", "write", "tls"}, name : Names,
            type : {"progbits", "nobits", "other"},
            size : Nat, align : Nat \ {0}, offset : Nat]
Maps == {"x", "r", "w"}

ASSUME SheetsAssumption == Sheets \subseteq Seq(Section) /\ FileSize \in Nat

VARIABLES
  sheet,   \* the section table
  walk,    \* "measure", "place", "done", "error" (an Err) or "panicked"
  at,      \* the section the walk is at
  len,     \* executable_len, read_only_len and read_write_len
  ends,    \* ghost: the value of len in front of every section measured
  off,     \* rodata_offset and data_offset
  placed   \* the LoadedSections

layoutVars == <<sheet, walk, at, len, ends, off, placed>>

LayoutInit ==
  /\ sheet \in Sheets /\ walk = "measure" /\ at = 1
  /\ len = [m \in Maps |-> 0] /\ ends = <<len>>
  /\ off = [m \in Maps |-> 0] /\ placed = {}

-----------------------------------------------------------------------------
NextMultipleOf(x, align) == ((x + align - 1) \div align) * align

Has(i, flag) == flag \in sheet[i].flags

(* The mapping that the first walk measures a section for                     *)
MeasuredIn(i) ==
  IF Has(i, "exec") THEN "x" ELSE IF Has(i, "write") /\ ~Has(i, "tls") THEN "w" ELSE "r"

Follows(i) == i < Len(sheet) /\ sheet[i + 1].offset = sheet[i].offset

(* A section without a size stands for the next one, if it is at the same     *)
(* place in the file.                                                         *)
Meant(i) == IF sheet[i].size = 0 /\ Follows(i) THEN sheet[i + 1] ELSE sheet[i]

(* Measuring does not do so for the empty .text in front.                     *)
MeantToMeasure(i) == IF sheet[i].name = ".text" THEN sheet[i] ELSE Meant(i)

(* It is an error if there is no next section.                                *)
NoNext(i) == sheet[i].size = 0 /\ i = Len(sheet)

(* .tbss takes no room.                                                       *)
Counted(i) ==
  /\ Has(i, "alloc")
  /\ Has(i, "tls") /\ ~Has(i, "exec") => MeantToMeasure(i).type = "progbits"

\* Mutant: the length of a mapping leaves out the padding between sections.
PackedTight(length, s) == length + s.size

Packed(length, s) == NextMultipleOf(length, s.align) + s.size

(* Code keeps its offset in the file, data is packed.                         *)
Measured(i) ==
  LET s == MeantToMeasure(i)
      m == MeasuredIn(i)
      end == s.offset + NextMultipleOf(s.size, s.align)
      new == IF m # "x" THEN Packed(len[m], s)
             ELSE IF end > len[m] THEN end ELSE len[m]
  IN  IF Counted(i) THEN [len EXCEPT ![m] = new] ELSE len

MeasureSection ==
  /\ walk = "measure" /\ at <= Len(sheet)
  /\ IF Has(at, "alloc") /\ NoNext(at) /\ sheet[at].name # ".text"
     THEN walk' = "error" /\ UNCHANGED <<at, len, ends>>
     ELSE at' = at + 1 /\ len' = Measured(at) /\ ends' = Append(ends, len') /\ UNCHANGED walk
  /\ UNCHANGED <<sheet, off, placed>>

(* The mappings are made, and all of the file up to the end of the code is    *)
(* copied into "x".                                                           *)
AllocateMappings ==
  /\ walk = "measure" /\ at = Len(sheet) + 1
  /\ walk' = IF len["x"] <= FileSize THEN "place" ELSE "error"
  /\ at' = 1
  /\ UNCHANGED <<sheet, len, ends, off, placed>>

-----------------------------------------------------------------------------
(* What the second walk takes a section for, in the order of its tests        *)
Kind(i) ==
  IF Has(i, "exec") /\ ~Has(i, "write") THEN "text"
  ELSE IF Has(i, "tls") THEN "tls"
  ELSE IF Has(i, "write") THEN "data"
  ELSE IF sheet[i].name \in {".rodata", ".lrodata", "named"} THEN "rodata"
  ELSE "unhandled"
PlacedIn(i) == CASE Kind(i) = "text" -> "x" [] Kind(i) = "data" -> "w" [] OTHER -> "r"

(* The lengths of the prefixes (.text., .tbss., .tdata., .bss., .data.,       *)
(* .lrodata., .rodata.) and of the names                                      *)
PrefixLength(i) ==
  LET bss == Meant(i).type = "nobits"
  IN  CASE Kind(i) = "text" -> 6
        [] Kind(i) = "tls"  -> IF bss THEN 6 ELSE 7
        [] Kind(i) = "data" -> IF bss THEN 5 ELSE 6
        [] OTHER -> IF sheet[i].name = ".lrodata" THEN 9 ELSE 8
NameLength(name) ==
  CASE name = "short" -> 0
    [] name = ".bss" -> 4
    [] name \in {".text", ".data"} -> 5
    [] name = ".rodata" -> 7
    [] name = ".lrodata" -> 8
    [] OTHER -> 9
NoSymbol(i) == Kind(i) # "unhandled" /\ NameLength(sheet[i].name) < PrefixLength(i)
Placeholder(i) == NoSymbol(i) /\ sheet[i].name \in {".text", ".rodata", ".data", ".bss"}

(* Sections that the second walk passes over                                 *)
Ignored(i) ==
  \/ ~Has(i, "alloc")
  \/ Kind(i) # "unhandled" /\ (len[PlacedIn(i)] = 0 \/ Placeholder(i))

Record(i, offset, next) ==
  /\ placed' = placed \union {[index |-> i, map |-> PlacedIn(i), offset |-> offset,
                               size |-> Meant(i).size]}
  /\ off' = [off EXCEPT ![PlacedIn(i)] = next]
  /\ at' = i + 1 /\ UNCHANGED walk

Stop(how) == walk' = how /\ UNCHANGED <<placed, off, at>>

(* The assertion in as_slice_mut, and the one in front of .data and .rodata   *)
Slices(i, offset) == offset + Meant(i).size <= len[PlacedIn(i)]
Asserts(i, offset) == offset < len[PlacedIn(i)] /\ Slices(i, offset)

Aligned(i) == NextMultipleOf(off[PlacedIn(i)], Meant(i).align)

PlaceText(i) == Record(i, Meant(i).offset, off["x"])

PlaceData(i) ==
  IF ~Asserts(i, Aligned(i)) THEN Stop("panicked")
  ELSE IF Meant(i).type = "other" THEN Stop("error")
  ELSE Record(i, Aligned(i), Aligned(i) + Meant(i).size)

(* .tdata is copied, and then it is "TODO: TLS section initialization".       *)
PlaceTls(i) ==
  IF Meant(i).type # "nobits" /\ ~Slices(i, Aligned(i)) THEN Stop("panicked") ELSE Stop("error")

PlaceSection ==
  /\ walk = "place" /\ at <= Len(sheet)
  /\ IF Has(at, "alloc") /\ NoNext(at) THEN Stop("error")
     ELSE IF Ignored(at) THEN at' = at + 1 /\ UNCHANGED <<walk, off, placed>>
     ELSE IF NoSymbol(at) THEN Stop("error")
     ELSE CASE Kind(at) = "text" -> PlaceText(at)
            [] Kind(at) = "tls"  -> PlaceTls(at)
            [] Kind(at) \in {"data", "rodata"} -> PlaceData(at)
            [] OTHER -> Stop("error")
  /\ UNCHANGED <<sheet, len, ends>>

LayoutDone ==
  /\ walk = "place" /\ at = Len(sheet) + 1
  /\ walk' = "done"
  /\ UNCHANGED <<sheet, at, len, ends, off, placed>>

LayoutNext == MeasureSection \/ AllocateMappings \/ PlaceSection \/ LayoutDone
LayoutSpec == LayoutInit /\ [][LayoutNext]_layoutVars

-----------------------------------------------------------------------------
(* The sections that the two walks take differently: one that is executable   *)
(* and writable is measured as code and placed as data; thread-local data     *)
(* that is not PROGBITS is not measured, and copied unless it is NOBITS; an   *)
(* empty section of data with the name .text is measured as it is and placed  *)
(* as the next one.                                                           *)
Mismeasured(i) ==
  /\ Has(i, "alloc")
  /\ \/ Kind(i) # "text" /\ Has(i, "exec")
     \/ Kind(i) = "tls" /\ Meant(i).type = "other"
     \/ Kind(i) = "data" /\ sheet[i].name = ".text" /\ sheet[i].size = 0

(* The second walk keeps inside the mappings that the first one measured:     *)
(* every section is in its mapping, data has its alignment, and no two        *)
(* sections of data share a byte.  An assertion of load_object_sections fails *)
(* only for a section that is empty, or once the walk has met a section that  *)
(* the two walks take differently: that it passes over sections that the      *)
(* first one counts does no harm.                                             *)
SectionsFit ==
  /\ \A p \in placed :
       /\ p.offset + p.size <= len[p.map]
       /\ p.map # "x" => p.offset % Meant(p.index).align = 0
  /\ \A p, q \in placed :
       p.map = q.map /\ p.map # "x" /\ p.index < q.index => p.offset + p.size <= q.offset
  /\ walk = "panicked" => Meant(at).size = 0 \/ \E i \in 1 .. at : Mismeasured(i)
=============================================================================
