------------------------------- MODULE Memory -------------------------------
(***************************************************************************)
(* Address spaces and the frames behind them (kernel/src/memory.rs), as    *)
(* the scheduler and the page-fault handler use them: a process gets its   *)
(* object, its stack and its heap, and loses them when it exits.           *)
(*                                                                         *)
(* A page of a process is <<region, number>>.  Each region of a process    *)
(* has one table below the level-4 one; PageTable has the tables proper.   *)
(***************************************************************************)
EXTENDS KernelMappings, FiniteSets

CONSTANTS Procs,
          FRAMES,       \* how many frames there are
          OBJECT_SIZES, \* pages of the objects that are loaded
          STACK_PAGES,  \* DEFAULT_USER_STACK_SIZE, in pages
          HEAP_PAGES,   \* the largest heap: 1 GiB, in pages
          LEAF_FRAMES,  \* frames under one leaf entry of the firmware's identity map
          Kernel,       \* the kernel as the owner of frames
          None

ASSUME MemoryAssumption ==
  /\ FRAMES \in Nat /\ STACK_PAGES \in Nat /\ HEAP_PAGES \in Nat
  /\ LEAF_FRAMES \in Nat \ {0}
  /\ OBJECT_SIZES \subseteq Nat \ {0}
  /\ Kernel \notin Procs
  /\ None \notin [start : Nat, end : Nat]

Frames == 1 .. FRAMES
Owners == Procs \cup {Kernel}

VARIABLES
  kernel,   \* the frame behind each mapped page of the kernel
  running,  \* the processes that exist
  heap,     \* Process::heap_mapping: its page range
  space,    \* AddressSpace of each process: page to frame
  proxy,    \* FrameAllocatorProxy::allocated_frames of each owner
  free,     \* the free frames of the FrameAllocator
  halted,   \* the kernel has panicked
  opened,   \* whose level-4 entry of physical memory is USER_ACCESSIBLE
  exposed,  \* frames whose leaf in the identity map is: all level-4 tables share it
  asked     \* history: processes that a fault of their own was granted

grantVars == <<opened, exposed, asked>>
vars == <<mappingVars, kernel, running, heap, space, proxy, free, halted, grantVars>>

Image(f) == {f[x] : x \in DOMAIN f}
NoPages == [x \in {} |-> 0]

Init ==
  /\ MapInit
  /\ kernel = NoPages
  /\ running = {}
  /\ heap = [p \in Procs |-> None]
  /\ space = [p \in Procs |-> NoPages]
  /\ proxy = [o \in Owners |-> {}]
  /\ free = Frames
  /\ halted = FALSE
  /\ opened = {} /\ exposed = {} /\ asked = {}
-----------------------------------------------------------------------------
\* The n frames that n calls of FrameAllocator::allocate return: the lowest ones.
Lowest(n) ==
  [i \in 1 .. n |-> CHOOSE f \in free : Cardinality({g \in free : g < f}) = i - 1]

Enough(n) == n <= Cardinality(free)

\* The frames f go behind the kernel's pages from `start` on that are new.
MapKernelPages(start, f) ==
  kernel' = [x \in mapped' |-> IF x \in mapped THEN kernel[x] ELSE f[x - start + 1]]

\* AddressSpace::map_kernel_pages_to: the pages of a region from number `first` on
\* lead to the frames of n kernel pages.
MapLocalPages(s, region, first, start, n) ==
  LET pages == {<<region, first + i>> : i \in 0 .. n - 1}
  IN  [x \in DOMAIN s \cup pages |->
         IF x \in pages THEN kernel'[start + x[2] - first] ELSE s[x]]

\* Frames that calls of allocate_frame took, by owner.
Take(byKernel, byProc, p) ==
  /\ free' = free \ (byKernel \cup byProc)
  /\ proxy' = [proxy EXCEPT ![Kernel] = @ \cup byKernel, ![p] = @ \cup byProc]

\* An unwrap or expect that fails.  After it nothing runs.
Panic ==
  /\ halted' = TRUE
  /\ UNCHANGED <<mappingVars, kernel, running, heap, space, proxy, free, grantVars>>

\* AddressSpace::new: the level-4 entries of physical memory are the kernel's.
CopyKernelEntries(p) == opened' = IF Kernel \in opened THEN opened \cup {p} ELSE opened

\* Scheduler::run_user_process: a root table, the object's kernel mappings (the up
\* to three of allocate_section_mappings as one) and their pages in the process, and
\* the stack, with a table for each of the two regions.
RunUserProcess(p, n) ==
  LET need   == 1 + n + 1 + STACK_PAGES + 1
      f      == Lowest(need)
      object == [i \in 1 .. n |-> f[i + 1]]
      stack  == [x \in {<<"stack", i>> : i \in 1 .. STACK_PAGES} |-> f[n + 2 + x[2]]]
  IN  /\ ~halted /\ p \notin running
      /\ IF ~Enough(need) THEN Panic
         ELSE /\ New(n)
              /\ MapKernelPages(offset, object)
              /\ space' = [space EXCEPT ![p] = MapLocalPages(stack, "code", 0, offset, n)]
              /\ running' = running \cup {p}
              /\ Take(Image(object), Image(f) \ Image(object), p)
              /\ CopyKernelEntries(p)
              /\ UNCHANGED <<heap, halted, exposed, asked>>

\* Mutant: the list of frames is not emptied.
DropTwice(p) ==
  /\ running' = running \ {p}
  /\ space' = [space EXCEPT ![p] = NoPages]
  /\ heap' = [heap EXCEPT ![p] = None]
  /\ Forget(heap[p])
  /\ free' = free \cup proxy[p]
  /\ opened' = opened \ {p} /\ asked' = asked \ {p}
  /\ UNCHANGED <<kernel, proxy, halted, exposed>>

\* A process is dropped, and with it its address space, whose proxy gives its frames
\* back.  A KernelMapping has no Drop, and the tables below the level-4 entries of
\* physical memory are everyone's.
Drop(p) ==
  /\ running' = running \ {p}
  /\ space' = [space EXCEPT ![p] = NoPages]
  /\ heap' = [heap EXCEPT ![p] = None]
  /\ Forget(heap[p])
  /\ proxy' = [proxy EXCEPT ![p] = {}]
  /\ free' = free \cup proxy[p]
  /\ opened' = opened \ {p} /\ asked' = asked \ {p}
  /\ UNCHANGED <<kernel, halted, exposed>>

\* exit_interrupt_handler
Exit(p) == ~halted /\ p \in running /\ Drop(p)

\* A section of another object that the process may use: KernelMapping::map_into at
\* the kernel's own pages, with a table for them.  Without a frame for the table,
\* __page_fault_handler makes the process exit, which panics as Scheduler shows; when
\* it is Scheduler::schedule that maps the section, after the shell's answer, it
\* drops the process.
MapModule(p, m) ==
  /\ ~halted /\ p \in running
  /\ \A q \in Procs : m # heap[q]
  /\ <<"module", m.start>> \notin DOMAIN space[p]
  /\ IF ~Enough(1) THEN Panic \/ Drop(p)
     ELSE /\ UNCHANGED <<mappingVars, kernel, running, heap, halted, grantVars>>
          /\ space' = [space EXCEPT ![p] =
               MapLocalPages(@, "module", m.start, m.start, m.end - m.start)]
          /\ Take({}, Image(Lowest(1)), p)

\* __page_fault_handler on the first page of a heap that is touched: KernelMapping
\* ::new and map_into.  Without a frame for the table, map_into fails, and the exit
\* that follows panics as Scheduler shows.
CreateHeap(p, n) ==
  /\ ~halted /\ p \in running /\ heap[p] = None
  /\ IF ~Enough(n) THEN Panic
     ELSE /\ New(n)
          /\ MapKernelPages(offset, Lowest(n))
          /\ UNCHANGED <<running, grantVars>>
          /\ IF Enough(n + 1)
             THEN /\ space' = [space EXCEPT ![p] = MapLocalPages(@, "heap", 0, offset, n)]
                  /\ heap' = [heap EXCEPT ![p] = [start |-> offset, end |-> offset + n]]
                  /\ Take(Image(Lowest(n)), {Lowest(n + 1)[n + 1]}, p)
                  /\ UNCHANGED halted
             ELSE /\ halted' = TRUE
                  /\ Take(Image(Lowest(n)), {}, p)
                  /\ UNCHANGED <<space, heap>>

\* ... and on a page beyond the heap, which is extended up to it, with t more tables
\* for the process.  A kernel page that is mapped already ends the extension, with
\* the frame that was meant for it; so does a missing table, when the process has
\* `done` of its pages.  The process is to exit then, which panics.
ExtendHeap(p, n, t) ==
  LET old   == heap[p]
      fresh == Cardinality(Prefix(old, n))
      took  == IF fresh = n THEN n ELSE fresh + 1
      f     == Lowest(took)
  IN  /\ ~halted /\ p \in running /\ old # None
      /\ \/ ~Enough(took) /\ Panic
         \/ /\ Enough(took + t)
            /\ Extend(old, n)
            /\ MapKernelPages(old.end, f)
            /\ space' = [space EXCEPT ![p] =
                 MapLocalPages(@, "heap", old.end - old.start, old.end, n)]
            /\ heap' = [heap EXCEPT ![p] = Extended(old, n)]
            /\ Take(Image(f), Image(Lowest(took + t)) \ Image(f), p)
            /\ UNCHANGED <<running, halted, grantVars>>
         \/ /\ Enough(took)
            /\ ExtendFails(old, n)
            /\ MapKernelPages(old.end, f)
            /\ Take(Image(f), {}, p)
            /\ halted' = TRUE
            /\ UNCHANGED <<running, heap, grantVars>>
            /\ \/ fresh < n /\ UNCHANGED space
               \/ /\ fresh = n /\ ~Enough(took + t)
                  /\ \E done \in 0 .. n - 1 :
                       space' = [space EXCEPT ![p] =
                         MapLocalPages(@, "heap", old.end - old.start, old.end, done)]

HeapSize(p) == IF heap[p] = None THEN 0 ELSE heap[p].end - heap[p].start

\* An access to page number `page` of the heap of p.  Beyond HEAP_PAGES the process
\* is to exit, which panics.
HeapFault(p, page) ==
  /\ page >= HeapSize(p)
  /\ \/ /\ page < HEAP_PAGES
        /\ \/ CreateHeap(p, page + 1)
           \/ \E t \in {0, 1} : ExtendHeap(p, page + 1 - HeapSize(p), t)
     \/ /\ page >= HEAP_PAGES
        /\ ~halted /\ p \in running
        /\ Panic

\* __page_fault_handler on an address of the framebuffer or of a BAR: set_flags, which
\* makes the entries on the way to the page accessible, the process's own level-4
\* entry first.
GrantDevice(p) ==
  /\ ~halted /\ p \in running \ opened
  /\ opened' = opened \cup {p}
  /\ asked' = asked \cup {p}
  /\ UNCHANGED <<mappingVars, kernel, running, heap, space, proxy, free, halted, exposed>>

\* The frames that each leaf entry covers: one, or those of a huge page.
Leaves == {{g \in Frames : (g - 1) \div LEAF_FRAMES = i} : i \in 0 .. (FRAMES - 1) \div LEAF_FRAMES}

\* ... and on any other physical address, one under that leaf: the same, whoever its
\* frame belongs to.  The code marks this as a HACK.
GrantPhysical(p, leaf) ==
  /\ ~halted /\ p \in running
  /\ ~(p \in opened /\ leaf \subseteq exposed)
  /\ opened' = opened \cup {p}
  /\ exposed' = exposed \cup leaf
  /\ asked' = asked \cup {p}
  /\ UNCHANGED <<mappingVars, kernel, running, heap, space, proxy, free, halted>>

Next ==
  \E p \in Procs :
    \/ \E n \in OBJECT_SIZES : RunUserProcess(p, n)
    \/ \E m \in live : MapModule(p, m)
    \/ \E page \in 0 .. HEAP_PAGES : HeapFault(p, page)
    \/ GrantDevice(p)
    \/ \E leaf \in Leaves : GrantPhysical(p, leaf)
    \/ Exit(p)

Spec == Init /\ [][Next]_vars
-----------------------------------------------------------------------------
FramesOf(p, regions) == {space[p][x] : x \in {y \in DOMAIN space[p] : y[1] \in regions}}

TypeOK ==
  /\ kernel \in [mapped -> Frames]
  /\ running \in SUBSET Procs
  /\ heap \in [Procs -> live \cup {None}]
  /\ DOMAIN space = Procs
  /\ \A p \in Procs : space[p] \in [DOMAIN space[p] -> Frames]
  /\ proxy \in [Owners -> SUBSET Frames]
  /\ free \in SUBSET Frames
  /\ halted \in BOOLEAN
  /\ opened \in SUBSET Owners /\ exposed \in SUBSET Frames /\ asked \in SUBSET Procs

\* A frame is free or belongs to one proxy, so that the drop of one address space
\* (Drop for FrameAllocatorProxy) never releases what another one uses.
OneOwner ==
  \A f \in Frames :
    LET owners == {o \in Owners : f \in proxy[o]}
    IN  IF f \in free THEN owners = {} ELSE \E o \in Owners : owners = {o}

\* No frame is free while a page of the kernel or of a process leads to it, although
\* the frames of a heap and of an object are not the process's own.
MappedNotFree ==
  free \cap (Image(kernel) \cup UNION {Image(space[p]) : p \in running}) = {}

\* Where the frames come from: the kernel's pages, each with a frame of its own, from
\* the kernel's proxy; the stack of a process from its own; and the pages of objects
\* are pages of the kernel that are not in the heap of any process.
Provenance ==
  /\ Image(kernel) \subseteq proxy[Kernel]
  /\ \A x, y \in mapped : kernel[x] = kernel[y] => x = y
  /\ \A p \in Procs : heap[p] # None => p \in running
  /\ \A p, q \in Procs : heap[p] # None /\ heap[p] = heap[q] => p = q
  /\ \A p \in running : \A x \in DOMAIN space[p] :
       \/ x[1] = "heap"
       \/ x[1] = "stack" /\ space[p][x] \in proxy[p]
       \/ /\ x[1] \in {"code", "module"}
          /\ \E k \in mapped :
               /\ space[p][x] = kernel[k]
               /\ \A q \in Procs : heap[q] # None => k \notin PagesOf(heap[q])

\* All of it together, through process start, heap growth, exit and what fails.
FramesInv == TypeOK /\ OneOwner /\ MappedNotFree /\ Provenance

\* The frames that a process can get at from userspace: behind its own pages, and in
\* the identity map once its level-4 entry lets it through.
Reach(q) == Image(space[q]) \cup (IF q \in opened THEN exposed ELSE {})

\* Heaps and stacks are private as far as the page tables go: no page that is mapped
\* for one process leads to the heap or stack of another, through heaps that grow
\* past each other and frames that change hands.  What the fault handler grants of
\* the identity map is outside of that, and outlives the process it was granted to;
\* but a process reaches none of it before a fault of its own was granted.
PrivateMemory ==
  \A p, q \in running : p # q =>
    LET private == FramesOf(p, {"heap", "stack"})
    IN  /\ private \cap Image(space[q]) = {}
        /\ private \cap Reach(q) # {} => q \in asked

\* The two views of a heap agree through every extension: its pages in the process
\* are its pages in the kernel, in the same order, and there are no others.  Only an
\* extension that ends in a panic leaves them apart.
HeapViewsAgree ==
  ~halted => \A p \in running :
    /\ {x \in DOMAIN space[p] : x[1] = "heap"} = {<<"heap", i>> : i \in 0 .. HeapSize(p) - 1}
    /\ \A i \in 0 .. HeapSize(p) - 1 : space[p][<<"heap", i>>] = kernel[heap[p].start + i]

\* The comment of exit_interrupt_handler: "its allocated frames will be deallocated
\* when the address space is dropped": the frames of its heap are free afterwards.
ExitReturnsHeap ==
  [][\A p \in running :
       p \notin running' => FramesOf(p, {"heap", "stack"}) \subseteq free']_vars
=============================================================================
