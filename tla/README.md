# A TLA+ specification of Rhubarb

Rhubarb is an operating system kernel in Rust with a shell and an input driver
as its user processes. This directory holds TLA+ modules that model its parts,
TLC configurations that check them on small instances, and TLAPS proofs of the
properties that matter most for every value of the constants.

## The system and its parts

| part | source | state | driven by |
|---|---|---|---|
| scheduler | `kernel/src/scheduler.rs` | `current`, run queues by priority, `blocked`, saved contexts, the address space in CR3 | timer, `defer`, `exit`, `translate` interrupts, page faults |
| page-fault handler | `kernel/src/idt.rs` | address spaces, `blocked`, the request ring | faults of user code |
| process crate | `crates/process` | the two rings between kernel and shell | kernel and shell |
| shell | `shell/src/shell.rs` | the popped request, the locks it holds | input events, requests |
| input driver | `shell/apps/input-driver` | the event queue's lock | devices |
| frame allocator | `kernel/src/memory.rs` | bitmap, counters, hint | address spaces |
| address spaces, kernel mappings | `kernel/src/memory.rs`, `crates/memory-types` | page tables | loader, page faults |
| loader | `kernel/src/loader.rs` | objects, sections, relocations | process start, page faults |
| heap | `crates/heap` | list of holes | kernel and user allocations |
| virtio | `drivers/virtio` | virtqueues | input driver; nothing opens the GPU driver yet |
| ata, pci, rtc | `drivers/*` | what the driver remembers of the device, the device's registers | kernel start-up (pci, rtc), input driver (pci); nothing calls ata yet |
| framebuffer | `crates/framebuffer`, `crates/math` | the shell's layers and the screen | the shell's main loop |
| disassembler | `crates/abi/src/asm.rs` | its offset in the input | its tests |

One CPU runs everything. User code can be interrupted between any two
instructions; an interrupt handler runs with interrupts off from its entry to
`iretq`. A process under `AccessPolicy::Normal` that touches a module it was not
granted is moved to `Scheduler::blocked`, and a request is pushed on a ring in
the shell's memory; the shell answers on a second ring, and the scheduler applies
one answer in every pass through `schedule_next`.

## Modules

* **SizedQueue** - `process::SizedQueue`, the ring buffer, as a value with the
  three fields of the struct and the operators `Push`, `Front` and `Pop`;
  `Contents` is the sequence a ring stands for.
* **ShellProtocol** - the abstract specification of the request protocol: the two
  rings, `blocked`, the ready processes, and one action for each thing the shell
  or the kernel does to them.
* **ShellProtocolProofs** - `Push` appends to a ring and `Pop` removes its oldest
  element, for every size; then the inductive invariant of the protocol and what
  follows from it.
* **Scheduler** - the detailed specification: scheduler, interrupt handlers, spin
  locks, the shell's main loop and the input driver, with preemption between any
  two steps of user code. `mode` says what the CPU executes; a handler is one
  action, except that it is cut where it can wait, at the locks of the two rings
  (`SendRequest`, `ScheduleNext`). It implements ShellProtocol through an
  `INSTANCE` with a refinement mapping: while `block_current` waits for the lock,
  its process counts as ready. An `AllowModuleAccess` answer drops the process when the module
  is mapped already, its section is gone or no frame is left for a table; the last two do not
  depend on the model's state and may happen or not. That `schedule_next` enters the kernel's
  space to read the ring (`scheduler.rs:208`) is left out: it enters a process's before it ends.
* **SchedulerHandlerProofs**, **SchedulerProofs** - its invariant, its action
  properties and the refinement. The first has the lemmas about queues, rings and
  messages and the steps of the interrupt handlers, the second the steps of the
  scheduler's loop, the shell and the driver, and the theorems.
* **FrameAllocator**, **MCFrameAllocator** - the bitmap
  allocator from the first region of `FrameAllocator::init` on: what
  `memory::init` reserves, `allocate` with its hint, `deallocate`.
* **HoleSplit**, **Heap** - the first-fit heap.
  `HoleSplit` is its arithmetic (`align_layout_for_hole`, `split_hole`); `Heap` is the
  list of holes with `allocate` and `deallocate`. The lock of `heap::Allocator` lets
  one call in at a time. An allocation is one step; of `deallocate` each iteration of
  the loop is one, with an action for each arm of its `match`. `freeing` holds what the
  loop has in its hands: the block, which grows when it takes the next hole in, and
  the hole it is at.
* **HeapProofs** - the theorems about the arithmetic and about the list: the
  invariant, the iterations of `deallocate`, the allocations.
* **PageTable**, **MCPageTable** - `Level4PageTable`: `map_to`, `set_flags` and
  `next_table` over tables the firmware has begun. A call is a *walk*, a record of
  the tables it leaves, the table it is at and the error that ended it, so that
  what a failed call has done stays done.
* **KernelMappings** - `KernelMapping::new` and `extend`
  as far as kernel pages go: which ones they take, and what a failure leaves.
* **Memory**, **MCMemory**, **MemoryProofs** - address spaces, the proxies that own frames, process
  start, heap growth and grants in the page-fault handler, exit. Its actions contain those of
  `KernelMappings` and add the frames and the processes. Lower
  tables are one frame per region; `PageTable` has them in full. A handler that
  would end the process panics, as `scheduler_fault` shows, and sets `halted`; only
  `schedule_next`, when a module it may map finds no frame for a table, drops the process.
  A heap extension that fails for a table leaves a prefix of its pages in the process.
  Every address space has the kernel's level-4 entries of physical memory, which is mapped to
  itself, and the tables below them are shared. The fault handler opens it to a process
  that faults there (`GrantDevice`, `GrantPhysical`; `idt.rs:301` calls the latter a
  HACK, and the virtio driver needs it): `set_flags` makes the process's own level-4 entry
  accessible (`opened`) and the shared entries below it (`exposed`), which stay so when the
  process is gone. The model has one level-4 entry, and leaves of `LEAF_FRAMES`
  frames, as of a huge page; that `set_flags` fails at an address the firmware
  has not mapped is left out.
* **MCMemoryParts** - frame allocator, page tables and heap in one run: a variable
  says which of them a behaviour is about, and the others stay where they start.
  `MCLoader` and `MCDrivers` are built in the same way.
* **Virtio** - the start-up handshake, one `Virtqueue` with the descriptor table
  and both rings as memory shared with a device that runs concurrently, the input
  driver with the shell's event queue behind it, and the GPU driver. `push` is cut
  where the device can look: between filling the ring and publishing the index.
  The index is a wrapping `u16`, but `pop_index` is a `usize`: after 65,536
  completions `pop` never again finds the queue empty. The model has this, and the
  properties are stated up to the wrap (`BeforeWrap`).
  The device may look at the available ring at any time. The GPU driver notifies it of every
  command; the input driver never does, so nothing is promised of when that device takes a
  buffer. `initialize_queue` translates the address of the first byte of each area only; the
  model takes the areas to be contiguous in physical memory. The address of the GPU's backing
  is not translated (`virtio_gpu.rs:104`); addresses are data here.
  Each completion has a number, which the input events keep on their way to the shell.
* **VirtioProofs** - the theorems about the virtqueue, the two drivers and the
  shell's events.
* **Loader** - registration, dependencies, relocation, aliases and `patch`ed
  symbols, with the recursion of `get_or_load_section` as a stack and any one
  object faulty in any of three ways. References are counted as `Arc` and `Weak`
  do, so that a section whose object was replaced is gone. Starting a program of the
  same name again replaces its registered object; nothing links against a program.
* **SectionLayout** - the two walks over an object's sections,
  `allocate_section_mappings` and `load_object_sections`. A section has the four flags, the kind
  of name and the type that the walks look at, each tested in its own order. They do not take
  every section for the same: one that is executable and writable is measured as code and placed
  as data, thread-local data that is neither PROGBITS nor NOBITS is not measured but copied, and
  an empty section of data called `.text` is measured as it is and placed as its successor.
  These are `Mismeasured`, and only behind one of them, or at an empty section, can an assertion fail.
* **LayoutProofs** - the theorems about `SectionLayout` and `FrameAllocator`, both of
  which place ranges in memory.
* **Disassembler** - `Disassembler::next` byte by byte: the length of every
  instruction. Mnemonics and registers are left out. `EncodedLength` is the reference: the length
  by the rules of the x86 encoding, immediates included, from the bytes of the whole instruction.
  `Misread` are the instructions for which the code departs from it (`asm.rs:304`: any REX prefix
  gives `MOV` eight bytes; `asm.rs:396`: so does REX.W `TEST`; the prefix 66; memory operands of
  `0F C7`). `DecodedLength` says that the two agree exactly for all others.
* **Ata** - one bus with two drives. The driver is a program counter over the calls
  of `select_drive`, `write_command`, `poll` and `read`; every poll may time out, and
  the drive answers in time, late or never. Once the answer of a read that timed out
  has come, nobody reads it, and every later call on the bus ends in `poll hangup`.
  The same holds after an ATAPI or SATA drive was identified.
* **Rtc** - `Time::now` against a clock that writes its registers one at a time, in
  both encodings. For 12-hour clocks the conversion does not look at the format
  (`rtc.rs:98`), and nothing is claimed for them.
* **Pci** - `DeviceIter` and the sizing of BARs in `Device::bar`, in the loop of
  `memory::init`. Words have `WordBits` bits. The reference for the enumeration is the
  nest of loops in the comment of `next`. A 64-bit BAR of half the range of a word (2 GiB)
  gets a wrong size, because it is computed in 32 signed bits; it is the one exception
  in `BarsAsTheyAre`. A memory BAR of an unknown type panics.
* **Capabilities** - `CapabilityIter`, the four searches with which a virtio device
  is opened, and `set_msix`.
* **DriversProofs** - what `Ata`, `Capabilities`, `Pci` and `Rtc` return.
* **Framebuffer** - the shell's layers and their composition, pixel by pixel, with
  positions in fractions of a pixel. After a move to the left or up by the size of the
  pointer or more, the pointer is not drawn until the next event; `ScreenIsComposed` has
  this as `PointerDrawn`. `fill_area` at a negative position fills too far, which the
  shell never asks for.

Operators whose comment begins with *Mutant* are deliberate mistakes: replacing
the definition that follows them by such an operator makes a property fail, which
shows that the property depends on that piece of code.

## Runs

| run | what it asks | instance | result |
|---|---|---|---|
| `protocol` | do answers meet their processes, is a message ever overwritten | 3 slots, 3 processes, both answers | holds, 990 states |
| `scheduler` | are processes, contexts and address spaces consistent under every preemption; does the whole implement `ShellProtocol` | 2 slots, 2 drivers, 2 events, forbidden accesses | holds, 900,530 states |
| `scheduler_live` | does a ready process run, is a request answered | 1 driver, 2 events | holds, 8,055 states |
| `scheduler_hang` | the same without the exception for a kernel that hangs | 1 driver | violated |
| `scheduler_events` | the same without the exception for a lock holder that is blocked or gone | 1 driver | violated |
| `scheduler_fault` | does a forbidden access kill the process | 1 driver | violated |
| `memory_parts` | frames: do count and hint agree with the bitmap, is every frame handed out whole free memory; tables: do they stay a tree, do a page's own flags decide, does a call touch other pages; heap: is every byte in one block or hole, are neighbours merged, is an allocation refused only when nothing fits | 6 frames of 2 bytes in 2 words, every small boot map; tables of 2 entries, huge pages of both sizes, 4 frames for tables; 35 bytes of heap at an odd address, 4 layouts | holds, 180,070 states |
| `pagetable_bar` | does `set_flags` reach every page of a BAR | 4 huge pages | violated |
| `memory` | has a frame one owner, does a page of one process lead to the heap or stack of another, who gets at it through physical memory, do kernel and process agree on a heap, do kernel mappings share a page | 2 processes (symmetric), 13 frames under 2 leaves, 6 kernel pages | holds, 1,672,057 states |
| `memory_exit` | does exit release the heap | the same | violated |
| `loader` | is everything relocated when no load is under way, are objects that others use still registered, does every load end; do sections fit what was measured for them; does the disassembler find the next instruction | 8 objects with every extra relocation and every single fault, up to 10 loads; every table of up to 3 of 23 sections; inputs of up to 16 bytes from 25 | holds, 845,352 states |
| `drivers` | do ATA calls return, with their own data; is a time read that the clock showed; is each device found once and each BAR left as it was; is a virtio device opened as its capabilities say; does the screen show the topmost layer; are descriptors accounted for, events in order, commands answered | 2 drives, 4 calls; 3 ticks; 2 buses with 2 ids and 3 functions, 4 slots of 8-bit words; lists of up to 4 capabilities; 7 x 5 pixels in halves, 3 events; a queue of 2 with indices modulo 6, 4 completions | holds, 198,960 states |

The violated runs are disagreements between the code and what its documents say;
`findings` in `PROJECT.json` quotes them.

**Bounds.** `SIZE` and `NumApps` are equal so that the rings fill and wrap; with
two applications the rings carry a start, an answer and a request at once.
`MaxEvents = 2` lets an event arrive while an earlier one is unread. The
repository's shell starts one application and only ever allows; the model also
has the `ExitProcess` answer of the message type. The boot maps place regions,
kernel and framebuffer at every offset, aligned or not.
Tables of two entries make a range of eight pages longer than two huge pages,
which is where the drift of `set_flags` shows; the real sizes need a BAR of more
than 1 GiB. In `memory` the frames run out before the kernel pages in some
behaviours and after them in others, so both ends of a failed call occur.
The volume of `loader` is the repository's in small: two crates that need each other,
one that repeats another's sections, a static the kernel writes, a queue two programs
share. Three sections are enough for one to be measured with a successor, to be placed
with a predecessor and to be passed over in between. In `drivers` four calls let a
read time out, its answer arrive in the next call, and a third call meet what is left;
the clock starts two seconds before an hour and before midnight; a queue of two
with indices modulo six fills and empties, and the available index wraps; the used one
stays below the wrap, so that `Served` is about poll and drain and not about what follows it.

**Deadlock** is not checked in the scheduler runs because the system really can
stop: a panicked kernel, or one that spins, has no next step. `memory` stops in
the same way, and so do `loader` and `drivers`, whose bounds end a behaviour.

**Fairness** (`FairSpec`). `WF(ScheduleNext)` and `WF(SendRequest)`: the kernel's
code does not pause other than on a lock. `SF(Timer(p))`: the APIC timer is
periodic and user code runs with interrupts on. `SF(Execute(p))`: a time slice is
long enough for some instruction, sooner or later, although the process is
enabled only while it runs. In `loader`, `WF(Work)`: a load goes on, it waits for
nothing. In `drivers`, `WF(Driver)`: the ATA driver polls, and its clock goes on; the
drive has no fairness. For the virtqueue the driver and the shell go on, and a live
device looks at the ring when it was notified and works on what it holds.

## Proofs

Every theorem holds for all values of the constants that satisfy the named
assumptions of its module; TLC evaluates these assumptions on every run. They
say that the rings have a slot for each application (`CapacityAssumption`: 8
slots, and the shell starts one application), that `None` is no message and no
process, that the regions of the boot map are disjoint (`BootInfoAssumption`),
that an alignment divides that of a hole, or is a multiple of it and no smaller than a
hole, as for powers of two, and that the heap has room for a hole (`HeapAssumption`),
that the size of a virtqueue is even, divides the modulus of the ring indices and is
smaller than it (`SizeAssumption`: 64 and 65,536),
and the types of the rest. `MaxEvents`, `MaxCalls`, `MaxCount`, `MaxUsed`, `MaxPops` and
`MAX_OFFSET` are bounds for TLC, and the theorems hold whatever they are.

* `ShellProtocolProofs` first shows that a ring behaves as the sequence `Contents`,
  from the shape `Queues`: exactly the `Count(q)` slots from the pop cursor on are
  occupied. Then it proves `Spec => []ProtocolInv`. `AnswerMatchesFront` is
  not inductive: whether the front answer is for the front of `blocked` depends
  on every answer and request behind it. `RequestOrder` states it for all of
  them: answers in `output`, the request in the shell's hand and requests in
  `input`, in that order, are exactly `blocked`. `NoOverwrite` needs `Population`
  as well: there are at most `NumApps <= SIZE` processes, so a ring with a writer
  left is not full.
* `SchedulerProofs`, on top of `SchedulerHandlerProofs`, proves
  `Spec => []SchedulerInv` and `Spec => ImplementsProtocol`.
  `SchedulerInv` has two parts. The local one is kept handler by handler: every
  process is in one place, a context is saved for exactly those that do not run,
  whoever waits in `blocked` is at a program point that needs a module
  (`ModeInv`), the shell holds a request exactly between its pop and its push
  (`ShellInv`), and every request carries what its process waits for
  (`AddressInv`). The other one is the invariant of the protocol under the
  refinement mapping: the rings without addresses, and `blocked` without the
  process whose request is not yet pushed. It is not proved a second time. Each
  lemma `...Inv` shows that a handler keeps the local part and is a step of the
  protocol or a stutter; `SameProtocol` takes the lemmas of `ShellProtocolProofs`
  over to the instance; so the invariant and the refinement come out of the same
  induction. From the invariant follow `ActiveSpaceIsLive` and
  `GrantMatchesFault`, and the action properties `IdleOnlyWhenNothingReady` and
  `NormalGainsOnlyWhenBlocked`.
* `LayoutProofs` proves of `FrameAllocator` that `Spec => []AllocatorInv`, from memory maps with
  disjoint regions, and from it that `allocate` returns the lowest free frame, fails
  only when there is none, and hands out only memory that is free
  (`HandsOutOnlyFreeMemory`). The hint must be a lower bound of the free frames
  (`BelowHintTaken`) for the first scan to find the lowest one. `FreeIsUsable` is the
  strengthening for the last: at each step of `memory::init`, what is free lies
  wholly in a free region and outside every range that was reserved so far, because
  regions are rounded inwards and reservations outwards.
* The same module proves `LayoutSpec => []SectionsFit` for every section table.
  The second walk passes over sections that the first one counts, so their offsets
  are not equal. The inductive invariant `LayoutInv` keeps what the first walk had
  measured in front of each section (`ends`) and says that the second one, at
  the same section, is not ahead of it. Rounding up is monotone, so that a walk that
  is behind stays behind (`NextMultipleMonotone`). A section that the walks take
  differently breaks this, so `LayoutInv` states it until the first one that is `Mismeasured`.
* `HeapProofs` shows for every hole, size and alignment that an allocation
  and its paddings tile the hole (`SplitTiles`), and that a hole is refused only
  when no aligned place in it would do (`SplitMissesNoPlace`). The second rests on
  two multiples of an alignment being at least that far apart.
* It then proves `HeapSpec => []HeapInv` and `HeapSpec => []NoPlaceMissed`: after
  every call, and after every iteration of `deallocate`, the allocations, the holes and
  the block in hand cut the heap into pieces, two holes never touch, `used` is right and
  no assertion has failed; and an allocation fails only when no hole has a place for it.
  The inductive invariant `HeapIInv` has the pieces as intervals instead of sets of
  bytes, compares any two holes instead of neighbours (`ListInv`), and says
  that the block in hand starts behind the hole the loop is at (`HandInv`), which
  is the loop's second assertion. Since the list is ordered and the block overlaps no
  hole, the block can only touch that hole and the next one, which is what the arms
  of the match look at. The cardinality in `used` is proved from one piece being
  added or removed at a time.
* `MemoryProofs` first proves `MapSpec => []MappingInv`. That mappings are separate
  is not inductive without `BelowOffset`, and that one holds because every
  extension moves the offset although it takes its pages elsewhere. Then it proves
  of `Memory` the four invariants of the run `memory`, from `MemoryInv`. None of them is
  inductive alone: that no page leads to a free frame depends on where its frame comes
  from (`Provenance`: the kernel's proxy, the process's own, or an object's page that is in
  no heap), that a heap is private depends on the two views of it being the same
  frames, and both depend on the kernel's pages each having a frame of its own. The failed
  calls are the hard cases: a heap that could not grow has moved the offset and
  mapped a prefix of its pages (`PrefixPages`), which no view may show. An extension that
  ends for want of a table does show a part of it in the process; the kernel panics then, so the
  inductive invariant is `ReachableInv`: `MemoryInv`, or the kernel has halted in a state that
  still satisfies `SafeInv` (all but the agreement of the two views, which `HeapViewsAgree`
  states until a panic). `Grants` is the part about physical memory: the kernel's
  own level-4 entry is never opened, so a new process does not inherit access, and whoever
  has it was granted a fault (`ReachAsked`). `MemoryIsPrivate` is therefore about pages that
  are mapped for a process; a process that was granted a page of physical memory can
  get at any frame under an exposed leaf, whoever owns it, and `PrivateMemory` says so.
* `DriversProofs` has four theorems, each with an invariant of its own.
  `AtaAnswers`: a controller that is busy or holds data belongs to a drive that the
  selected one shows, so the polls of `select_drive` see it (`IdleSeen`), and
  after them the drive works on the command of this call (`CommandTaken`).
  `DeviceOpened`: a search has passed over known capabilities of other kinds only.
  `PciDevices`: what was returned is what the nested loops visit before the position
  of the iterator, except the functions left of the last device (`PciInv`).
  `RtcTime`: the registers of `time_1` were shown no later than the check between the
  two readings, those of `time_2` no earlier. It assumes `MaxTicks < 60`, that the
  call takes less than a minute: after that the seconds come round, and two readings
  can agree on a mixture.
* `VirtioProofs` proves `DescriptorsAccounted`, `InitializedIsShown`, `EventsInOrder`
  and the action property `PopsWhatWasUsed`, for every size of the queue and whatever the
  order in which the device completes chains. Like the properties, the invariant
  `VirtioInv` promises nothing after the index has wrapped. Until then the number of
  completions determines the position in the used ring (`Counted`). In the input driver
  every chain is one buffer, and `Parts` says that the available buffers, the entries
  of the available ring that the device has not fetched, the buffers it holds and
  the entries of the used ring that were not popped are disjoint lines of descriptors
  that together are all of them. So the lines never outgrow the ring and an entry
  is never overwritten before it is read. In the GPU driver there is one chain of
  the first two descriptors, and `GpuInv` follows it: offered, worked on, answered.
  `InitializedIsShown` needs `Progress`: the commands of `initialize_framebuffer` that are
  not still to come were carried out.
* For the events, `EventsInv` is added on top of it: the chains not yet popped carry the
  numbers that follow those popped (`DoneNumbers`), the filled slots of the shell's queue
  are a prefix of it (`Filling`), and what was handled, what is queued and what `poll` has
  returned are ordered (`Ordered`) and, with the ignored and the missed events, as many as
  were popped. A quit ends the driver, so it is the last event in the queue, and the
  shell, which stops at it, leaves none behind it (`QuitLast`).

Only model-checked:

* liveness (`ReadyRunsUnlessHang`, `AnsweredUnlessStuck`, `LoadsEnd`, `CallsReturn`,
  `Served`), which is out of the prover's reach;
* the walks of `PageTable`, which are recursive operators;
* `DecodedLength` of `Disassembler` and `ScreenIsComposed` of `Framebuffer`, which compare
  two computations over data, and `BarsAsTheyAre` of `Pci`, whose arithmetic is over
  powers of two with a variable exponent: these need induction over the data;
* `RelocatedWhenIdle` and `UsesAreOwned` of `Loader`, which depend on the boot volume and
  on the order of the boot steps and do not hold for every graph: an f16 relocation is
  passed over also when its crate fails half-way, which stays registered, and an
  object that defines a symbol again replaces the section.

`ProtocolInv`, `FreeCount` and `OutOfMemoryMeansFull` are proved and not run.

## Not modelled

* `bootloader` and the kernel's one-time set-up of the hardware (`main.rs`, `gdt.rs`,
  `acpi.rs`, `tsc.rs`): straight-line code whose outcome is a constant of the models.
* `pit`, `uart-16550`, `x86-port`, `serial.rs`: single accesses to ports.
* `elf`, `bit-utils`, `pod`, `io`, `fs`, `hardware`, `panic`: readers of fixed formats,
  accessors and traits without state. What `elf` reads is the section table of
  `SectionLayout` and the relocations of `Loader`.
* `time` and the float primitives of `math`: arithmetic on machine words; positions in
  `Framebuffer` are exact fractions.
* `log`: each program sets its logger once, when it starts. `defer-mutex`: no
  crate uses it.
* In `loader.rs`, demangling and the tables of symbol names, and the copy of a
  dependency's pages into an address space; in `idt.rs`, the handlers that only print
  and panic, and `general_protection_fault_handler`, which ends a process for an I/O instruction it
  may not use: every process is started with `allow_io`; in `memory.rs`, the debug dump of the tracker and kernel processes, which
  have no caller; in `asm.rs`, the operands.
* The contents of memory: that the boot loader's data lie in memory reported as free
  (`bootloader/src/main.rs:82`) is outside the frame allocator's model.
* `runner`, the build tool of the host.
