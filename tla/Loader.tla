------------------------------- MODULE Loader -------------------------------
(***************************************************************************)
(* The object loader (kernel/src/loader.rs).  Loading an object registers  *)
(* it and its global sections, then relocates it; a relocation against a   *)
(* symbol that no registered object defines loads the crates named in the  *)
(* symbol, and so on.  The recursion is a stack of objects being           *)
(* relocated.  Each load makes a new LoadedObject: Loader::objects has the *)
(* only lasting strong reference to it, Loader::sections has weak ones.    *)
(***************************************************************************)
EXTENDS Naturals, Sequences, FiniteSets, SequencesExt

CONSTANTS
  Objects,    \* names of object files
  Globals,    \* [Objects -> sets of symbols]: sections with a global symbol
  Locals,     \* [Objects -> sets of symbols]: other sections
  Graphs,     \* functions [Objects -> sequences of symbols]: the relocations of
              \* every object against symbols of others, in order
  Crates,     \* [symbols -> sequences of Objects]: crate_names_in_symbol
  StandIns,   \* [some symbols -> symbols]: the formatting functions that are taken
              \* from another type of the same width
  Ignorable,  \* <<object, symbol>>: relocations of sections for f16
  Boot,       \* the steps of start-up: records of an op, an object and symbols
  Programs,   \* what processes are started from
  MaxObjects  \* bound: objects loaded

ASSUME ObjectsAssumption == Programs \subseteq Objects /\ MaxObjects \in Nat

VARIABLES
  needs,      \* the graph of this system
  faults,     \* what is wrong with each object: it is not on the boot volume,
              \* load_object_sections refuses it, or a relocation is of a kind
              \* that write_relocation refuses
  loaded,     \* every LoadedObject made so far, in order
  objects,    \* Loader::objects: names to positions in `loaded`
  sections,   \* Loader::sections: symbols to positions in `loaded`
  stack,      \* the objects being relocated, innermost last
  failing,    \* an Err is on its way up the stack: of looking a symbol up, or of
              \* using what was found
  boot,       \* the next step of start-up
  patched,    \* whose section with_symbol_value wrote, for each symbol
  panicked

vars == <<needs, faults, loaded, objects, sections, stack, failing, boot, patched, panicked>>
files == <<needs, faults>>

None == 0
Faults == {"none", "unreadable", "malformed", "unrelocatable"}
Symbols == DOMAIN Crates

Init ==
  /\ needs \in Graphs
  /\ faults \in {[o \in Objects |-> IF o = bad THEN fault ELSE "none"] : bad \in Objects, fault \in Faults}
  /\ loaded = <<>> /\ objects = [o \in Objects |-> None] /\ sections = [s \in Symbols |-> None]
  /\ stack = <<>> /\ failing = "no" /\ boot = 1
  /\ patched = [s \in Symbols |-> None] /\ panicked = FALSE

-----------------------------------------------------------------------------
(* Whether an Arc to the object, or to the section of symbol s in it, is left *)
Strong(n) == n \in Range(objects) \/ \E i \in DOMAIN stack : stack[i].object = n
SectionLives(s, n) ==
  Strong(n) \/ \E m \in DOMAIN loaded : Strong(m) /\ <<s, n>> \in loaded[m].dependencies

(* add_sections: global sections replace those of the same name.             *)
AddSections(name, n) ==
  [s \in Symbols |-> IF s \in Globals[name] THEN n ELSE sections[s]]

(* load_object_impl up to the relocations, called with `callers` on the       *)
(* stack: the object is registered before it is relocated, so that objects    *)
(* may need each other.                                                       *)
Register(name, callers) ==
  LET n == Len(loaded) + 1
  IN  /\ loaded' = Append(loaded, [name |-> name, resolved |-> <<>>, dependencies |-> {},
                                   complete |-> FALSE])
      /\ sections' = AddSections(name, n)
      /\ objects' = [objects EXCEPT ![name] = n]
      /\ stack' = Append(callers, [object |-> n, tried |-> 0])
      /\ UNCHANGED failing

(* read_object and load_object_sections return early with an error.           *)
Load(name, callers) ==
  /\ Len(loaded) < MaxObjects
  /\ IF faults[name] \notin {"unreadable", "malformed"}
     THEN Register(name, callers)
     ELSE failing' = "lookup" /\ UNCHANGED <<loaded, sections, objects, stack>>

-----------------------------------------------------------------------------
(* relocate_object_sections, for the object on top of the stack              *)

Top == Last(stack)
Current == loaded[Top.object]
Wanted == needs[Current.name][Len(Current.resolved) + 1]
Relocating == ~panicked /\ failing = "no" /\ stack # <<>>
HasNext == Len(Current.resolved) < Len(needs[Current.name])

Resolve(n, dependencies) ==
  /\ loaded' = [loaded EXCEPT ![Top.object].resolved = Append(@, n),
                              ![Top.object].dependencies = dependencies]
  /\ stack' = [stack EXCEPT ![Len(stack)].tried = 0]

(* HashSet::insert of a Dependency, which is equal to another when the        *)
(* symbols are.                                                               *)
InsertDependency(s, n) ==
  IF \E d \in Current.dependencies : d[1] = s THEN Current.dependencies
  ELSE Current.dependencies \union {<<s, n>>}

WriteRelocation == faults[Current.name] # "unrelocatable"

(* The section is registered: the relocation is written and remembered.      *)
Relocate ==
  /\ Relocating /\ HasNext /\ sections[Wanted] # None
  /\ IF SectionLives(Wanted, sections[Wanted]) /\ WriteRelocation
     THEN Resolve(sections[Wanted], InsertDependency(Wanted, sections[Wanted])) /\ UNCHANGED failing
     ELSE failing' = "use" /\ UNCHANGED <<loaded, stack>>
  /\ UNCHANGED <<files, objects, sections, boot, patched, panicked>>

\* Mutant: only the object itself is not loaded again.
SkipCrateSelf(name) == name = Current.name

\* Mutant: every crate is loaded, whether it is registered or not.
SkipCrateNot(name) == FALSE

SkipCrate(name) == objects[name] # None

Missing == Relocating /\ HasNext /\ sections[Wanted] = None

(* get_or_load_section has three symbols for which it registers the section   *)
(* of another; it is `unreachable!` that there is none.                       *)
StandIn ==
  /\ Missing /\ Wanted \in DOMAIN StandIns
  /\ LET n == sections[StandIns[Wanted]]
     IN  /\ sections' = [sections EXCEPT ![Wanted] = n]
         /\ panicked' = (n = None)
  /\ UNCHANGED <<files, loaded, objects, stack, failing, boot, patched>>

(* For the others it goes through the crates in the symbol's name.            *)
LoadCrate ==
  /\ Missing /\ Wanted \notin DOMAIN StandIns
  /\ Top.tried < Len(Crates[Wanted])
  /\ LET name == Crates[Wanted][Top.tried + 1]
         marked == [stack EXCEPT ![Len(stack)].tried = @ + 1]
     IN  IF SkipCrate(name)
         THEN stack' = marked /\ UNCHANGED <<loaded, sections, objects, failing>>
         ELSE Load(name, marked)
  /\ UNCHANGED <<files, boot, patched, panicked>>

(* "section not found"                                                       *)
NotFound ==
  /\ Missing /\ Wanted \notin DOMAIN StandIns
  /\ Top.tried = Len(Crates[Wanted])
  /\ failing' = "lookup"
  /\ UNCHANGED <<files, loaded, objects, sections, stack, boot, patched, panicked>>

\* Mutant: errors of every section are passed over.
FailContinues ==
  /\ failing # "no" /\ ~panicked
  /\ IF stack = <<>>
     THEN panicked' = TRUE /\ UNCHANGED <<loaded, stack, failing>>
     ELSE failing' = "no" /\ Resolve(None, Current.dependencies) /\ UNCHANGED panicked
  /\ UNCHANGED <<files, objects, sections, boot, patched>>

(* A symbol that is not found for an f16 section is passed over; any other    *)
(* error ends this object's load and is a failed lookup in the one below.  At *)
(* the bottom is an unwrap.                                                   *)
Fail ==
  /\ failing # "no" /\ ~panicked
  /\ IF stack = <<>>
     THEN panicked' = TRUE /\ UNCHANGED <<loaded, stack, failing>>
     ELSE /\ UNCHANGED panicked
          /\ IF failing = "lookup" /\ <<Current.name, Wanted>> \in Ignorable
             THEN failing' = "no" /\ Resolve(None, Current.dependencies)
             ELSE failing' = "lookup" /\ stack' = Front(stack) /\ UNCHANGED loaded
  /\ UNCHANGED <<files, objects, sections, boot, patched>>

Finish ==
  /\ Relocating /\ ~HasNext
  /\ loaded' = [loaded EXCEPT ![Top.object].complete = TRUE]
  /\ stack' = Front(stack)
  /\ UNCHANGED <<files, objects, sections, failing, boot, patched, panicked>>

-----------------------------------------------------------------------------
(* The callers                                                               *)

Idle == stack = <<>> /\ failing = "no" /\ ~panicked
BootStep(op) == Idle /\ boot <= Len(Boot) /\ Boot[boot].op = op /\ boot' = boot + 1

(* The objects of loader::init, and last the shell                            *)
LoadBoot ==
  /\ BootStep("load") /\ Load(Boot[boot].object, stack)
  /\ UNCHANGED <<files, patched, panicked>>

(* init_fundamental_symbols, and the same for `math`: the symbols may be      *)
(* local to the object.                                                       *)
Alias ==
  /\ BootStep("alias")
  /\ LET name == Boot[boot].object
     IN  IF Boot[boot].symbols \subseteq Globals[name] \union Locals[name]
         THEN /\ sections' = [s \in Symbols |-> IF s \in Boot[boot].symbols THEN objects[name]
                                                ELSE sections[s]]
              /\ UNCHANGED panicked
         ELSE panicked' = TRUE /\ UNCHANGED sections
  /\ UNCHANGED <<files, loaded, objects, stack, failing, patched>>

(* with_symbol_value, and Scheduler::init for the shell's queue: the kernel   *)
(* keeps to the section that is registered now.                               *)
WithSymbolValue ==
  /\ BootStep("patch")
  /\ LET found == \A s \in Boot[boot].symbols : sections[s] # None /\ SectionLives(s, sections[s])
     IN  IF found
         THEN /\ patched' = [s \in Symbols |-> IF s \in Boot[boot].symbols THEN sections[s]
                                               ELSE patched[s]]
              /\ UNCHANGED panicked
         ELSE panicked' = TRUE /\ UNCHANGED patched
  /\ UNCHANGED <<files, loaded, objects, sections, stack, failing>>

(* StartProcess messages                                                      *)
RunUserProcess ==
  /\ Idle /\ boot > Len(Boot)
  /\ \E name \in Programs : Load(name, stack)
  /\ UNCHANGED <<files, boot, patched, panicked>>

Work == Relocate \/ StandIn \/ LoadCrate \/ NotFound \/ Fail \/ Finish
Next == Work \/ LoadBoot \/ Alias \/ WithSymbolValue \/ RunUserProcess

(* Loading is one call without interruption: it goes on until it returns.     *)
Spec == Init /\ [][Next]_vars /\ WF_vars(Work)

-----------------------------------------------------------------------------
Registered == {n \in DOMAIN loaded : n \in Range(objects)}
Uses(n) == {<<needs[loaded[n].name][i], loaded[n].resolved[i]>> : i \in DOMAIN loaded[n].resolved}

(* When no load is under way, every registered object is relocated to the     *)
(* end, in spite of objects that need each other and are used before they are *)
(* relocated; only symbols of f16 sections are left out.                      *)
RelocatedWhenIdle ==
  Idle => \A n \in Registered :
            /\ loaded[n].complete
            /\ \A use \in Uses(n) : use[2] = None => <<loaded[n].name, use[1]>> \in Ignorable

(* What a registered object was relocated to is in a registered object, so    *)
(* that a fault on it finds the section by its address and the section its    *)
(* owner (the unwrap in __page_fault_handler): no library is replaced while   *)
(* something uses it.  All objects that use a symbol with one definition use  *)
(* the same section, the one the kernel has written to: the clock's           *)
(* frequency, the framebuffer and the shell's queue are seen by everyone.     *)
Single(s) == Cardinality({o \in Objects : s \in Globals[o]}) = 1
UsesAreOwned ==
  \A n \in Registered : \A use \in Uses(n) :
    /\ use[2] = None \/ use[2] \in Registered
    /\ Single(use[1]) => /\ use[2] = sections[use[1]]
                         /\ patched[use[1]] \in {None, use[2]}

(* Every load ends, although objects need each other: it returns or panics.    *)
LoadsEnd == stack # <<>> ~> stack = <<>> \/ panicked
=============================================================================
