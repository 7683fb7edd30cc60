---------------------------- MODULE MCMemoryParts ----------------------------
(***************************************************************************)
(* The parts that memory management is built from, each on its own: the    *)
(* frame allocator, the page tables and the heap.  Each behaviour is about *)
(* one of them, on the instances of MCFrameAllocator and MCPageTable, and  *)
(* on a heap of 35 bytes at an odd address with holes of at least 4 bytes. *)
(***************************************************************************)
EXTENDS MCFrameAllocator, MCPageTable, Heap

VARIABLE part  \* the part this behaviour is about

MCLayouts == {[size |-> 1, align |-> 1], [size |-> 5, align |-> 2],
              [size |-> 4, align |-> 8], [size |-> 9, align |-> 4]}

(* A part that the behaviour is not about stays in a state it can start in.  *)
FramesRest == info = (CHOOSE i \in BootInfos : TRUE) /\ Init
TablesRest == tables = Mixed /\ TableInit

MCInit ==
  /\ part \in {"frames", "tables", "heap"}
  /\ IF part = "frames" THEN Init ELSE FramesRest
  /\ IF part = "tables" THEN TableInit ELSE TablesRest
  /\ HeapInit

MCNext ==
  \/ part = "frames" /\ Next /\ UNCHANGED <<part, tableVars, heapVars>>
  \/ part = "tables" /\ TableNext /\ UNCHANGED <<part, vars, heapVars>>
  \/ part = "heap" /\ HeapNext /\ UNCHANGED <<part, vars, tableVars>>

MCSpec == MCInit /\ [][MCNext]_<<part, vars, tableVars, heapVars>>
=============================================================================
