------------------------------ MODULE MCLoader ------------------------------
(***************************************************************************)
(* The loader, the layout of sections and the disassembler, each in        *)
(* behaviours of its own.                                                  *)
(* A boot volume like the repository's: `panic` and `core` need each other,*)
(* `lang` has the sections of `core` again and local ones besides, the     *)
(* clock reads a static of `hardware`, and the shell and the driver share  *)
(* the event queue.  One more relocation is added anywhere.                *)
(***************************************************************************)
EXTENDS Loader, SectionLayout, Disassembler

VARIABLE unit   \* which of the parts this behaviour is about

MCObjects == {"hardware", "panic", "core", "lang", "time", "input", "shell", "driver"}
MCGlobals == [hardware |-> {"TSC"}, panic |-> {"rust_begin_unwind"}, core |-> {"core::fmt"},
              lang |-> {"core::fmt"}, time |-> {"time::now"}, input |-> {"QUEUE"},
              shell |-> {"shell::QUEUE"}, driver |-> {"driver::main"}]
MCLocals == [o \in MCObjects |-> IF o = "lang" THEN {"fmaf"} ELSE {}]
MCCrates == [s \in {"rust_begin_unwind", "fmaf", "usize::fmt"} |-> <<>>]
            @@ ("TSC" :> <<"hardware">>) @@ ("core::fmt" :> <<"core">>)
            @@ ("core::f16" :> <<"core">>) @@ ("time::now" :> <<"time">>)
            @@ ("QUEUE" :> <<"time", "input">>) @@ ("shell::QUEUE" :> <<"shell">>)
            @@ ("driver::main" :> <<"driver">>)
Needs == [hardware |-> <<>>, panic |-> <<"core::fmt">>,
          core |-> <<"rust_begin_unwind", "core::f16">>,
          lang |-> <<"rust_begin_unwind", "core::f16">>, time |-> <<"TSC", "fmaf">>,
          input |-> <<"usize::fmt">>, shell |-> <<"time::now", "QUEUE">>,
          driver |-> <<"QUEUE", "time::now">>]
(* Nothing is linked against a program.                                    *)
Libraries == {"TSC", "core::fmt", "time::now", "QUEUE", "fmaf", "rust_begin_unwind", "usize::fmt"}
MCStandIns == [s \in {"usize::fmt"} |-> "core::fmt"]
MCGraphs == {Needs} \union {[Needs EXCEPT ![o] = Append(@, s)] : o \in MCObjects, s \in Libraries}
MCIgnorable == {<<"core", "core::f16">>, <<"lang", "core::f16">>}
Step(op, object, symbols) == [op |-> op, object |-> object, symbols |-> symbols]
MCBoot == <<Step("load", "hardware", {}), Step("load", "panic", {}), Step("load", "lang", {}),
            Step("alias", "lang", {"fmaf"}), Step("load", "time", {}),
            Step("patch", "hardware", {"TSC"}), Step("load", "shell", {}),
            Step("patch", "shell", {"shell::QUEUE"})>>
-----------------------------------------------------------------------------
Sec(flags, name, type, size, align, place) ==
  [flags |-> {"alloc"} \union flags, name |-> name, type |-> type, size |-> size,
   align |-> align, offset |-> place]
Text == {"exec"}
Data == {"write"}
Tls == {"write", "tls"}
MCSections ==
  {Sec(Text, ".text", "progbits", 0, 4, 0), Sec(Text, "named", "progbits", 3, 2, 2),
   Sec(Text, "named", "progbits", 0, 2, 2), Sec(Text, "named", "progbits", 3, 2, 6),
   Sec(Data, ".data", "progbits", 0, 1, 5), Sec(Data, ".data", "progbits", 2, 1, 5),
   Sec(Data, "named", "progbits", 0, 4, 5), Sec(Data, "named", "progbits", 3, 4, 5),
   Sec(Data, "named", "nobits", 1, 2, 5), Sec(Data, ".bss", "nobits", 0, 1, 5),
   Sec(Data, "short", "progbits", 2, 2, 5), Sec(Data, ".text", "progbits", 0, 1, 5),
   Sec({"exec", "write"}, "named", "progbits", 2, 1, 2),
   Sec({}, "named", "progbits", 3, 4, 2), Sec({}, "named", "progbits", 1, 1, 5),
   Sec({}, "named", "progbits", 0, 4, 2), Sec({}, ".rodata", "progbits", 1, 1, 2),
   Sec({}, ".lrodata", "progbits", 1, 1, 2), Sec({}, "foreign", "progbits", 1, 1, 2),
   Sec(Tls, "named", "progbits", 1, 2, 2), Sec(Tls, "named", "nobits", 1, 2, 2),
   Sec(Tls, "named", "other", 2, 2, 2),
   [Sec({}, "named", "other", 2, 2, 5) EXCEPT !.flags = {}]}
MCSheets == UNION {[1 .. n -> MCSections] : n \in 1 .. 3}

(* Prefixes, REX with and without W among them, an opcode of every kind, and *)
(* ModR/M and SIB bytes of every mode                                        *)
MCBytes == {102, 242, 65, 72, 15, 1, 117, 137, 129, 193, 247, 80, 106, 104, 184, 194, 130, 240, 199,
            188, 198, 4, 5, 69, 132}

(* Each part rests in one of its own states while another runs.            *)
LoaderRests ==
  /\ needs = Needs /\ faults = [o \in Objects |-> "none"] /\ loaded = <<>>
  /\ objects = [o \in Objects |-> None] /\ sections = [s \in Symbols |-> None]
  /\ stack = <<>> /\ failing = "no" /\ boot = 1
  /\ patched = [s \in Symbols |-> None] /\ panicked = FALSE
LayoutRests ==
  /\ sheet = <<>> /\ walk = "done" /\ at = 1 /\ len = [m \in Maps |-> 0] /\ ends = <<len>>
  /\ off = [m \in Maps |-> 0] /\ placed = {}
DisRests ==
  length = 0 /\ offset = 0 /\ stage = "end" /\ todo = 0 /\ inst = Fresh /\ error = "none"
MCInit == \/ unit = "loader" /\ Init /\ LayoutRests /\ DisRests
          \/ unit = "layout" /\ LayoutInit /\ LoaderRests /\ DisRests
          \/ unit = "disassembler" /\ DisInit /\ LoaderRests /\ LayoutRests
MCNext == \/ unit = "loader" /\ Next /\ UNCHANGED <<unit, layoutVars, disVars>>
          \/ unit = "layout" /\ LayoutNext /\ UNCHANGED <<unit, vars, disVars>>
          \/ unit = "disassembler" /\ DisNext /\ UNCHANGED <<unit, vars, layoutVars>>
allVars == <<unit, vars, layoutVars, disVars>>
MCSpec == MCInit /\ [][MCNext]_allVars
          /\ WF_allVars(unit = "loader" /\ Work /\ UNCHANGED <<unit, layoutVars, disVars>>)
=============================================================================
