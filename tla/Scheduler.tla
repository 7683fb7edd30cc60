----------------------------- MODULE Scheduler -----------------------------
(***************************************************************************)
(* The kernel's scheduler (kernel/src/scheduler.rs), the interrupt handlers*)
(* that drive it (kernel/src/idt.rs, kernel/src/apic.rs), the shell's main *)
(* loop (shell/src/shell.rs) and the input driver                          *)
(* (shell/apps/input-driver).  One CPU runs everything.  User code can be  *)
(* interrupted between any two of its steps; a handler runs with           *)
(* interrupts off, from its entry to the iretq, and the only places where  *)
(* it can wait are the two spin locks it shares with the shell.            *)
(***************************************************************************)
EXTENDS SizedQueue, Sequences, FiniteSets, Functions

CONSTANTS NumApps,    \* StartProcess messages of the shell: 1 in the repository
          Answers,    \* as in ShellProtocol
          MaxEvents,  \* bound: input events the devices deliver
          BadAccess   \* TRUE if processes also touch memory they may not touch

ASSUME CapacityAssumption == NumApps \in Nat /\ NumApps <= SIZE
ASSUME EnvironmentAssumption == MaxEvents \in Nat /\ BadAccess \in BOOLEAN
ASSUME AnswersAssumption ==
  Answers \subseteq {"AllowModuleAccess", "ExitProcess"} /\ Answers # {}

VARIABLES
  mode,     \* what the CPU executes: "user" code, or the kernel: waiting for the
            \* lock of `input` ("block") or of `output` ("schedule"), or "panic"
  current,  \* Scheduler::current
  queue,    \* Scheduler::queue
  blocked,  \* Scheduler::blocked
  context,  \* the processes whose Process::context is Some
  cr3,      \* the process whose address space the CPU uses, None for the kernel's
  mapped,   \* the modules mapped into each process's address space
  next_id,  \* PROCESS_ID
  input,    \* shell::QUEUE.input
  output,   \* shell::QUEUE.output
  events,   \* input::GLOBAL_INPUT_QUEUE
  lock,     \* the holder of each spin lock that user code takes
  pc,       \* the program point of every user process
  hand,     \* the request the shell has popped
  unsent,   \* StartProcess messages the shell still has to send
  polled    \* events the devices have delivered

kernelVars == <<mode, current, queue, blocked, context, cr3, mapped, next_id>>
shellVars == <<hand, unsent>>
vars == <<kernelVars, input, output, events, lock, pc, shellVars, polled>>

IdleId == 0
ShellId == 1
AppIds == ShellId + 1 .. ShellId + NumApps
Ids == IdleId .. ShellId + NumApps

\* The modules a process can depend on: the libraries of the program, and the
\* data and the text of the `input` crate, which are mappings of their own.
Modules == {"lib", "input.data", "input.text"}

\* The module that the code at a program point touches.
Needs == [poll |-> "lib", lock |-> "input.data", push |-> "input.text"]

\* Mutant: StartProcess starts with AccessPolicy::All.
PolicyAll(p) == "All"

\* AccessPolicy: main starts the shell with All, StartProcess means Normal.
Policy(p) == IF p \in AppIds THEN "Normal" ELSE "All"
Priority(p) == IF p = IdleId THEN "Idle" ELSE "Normal"

Live == ({current} \ {None}) \cup Range(blocked)
          \cup Range(queue.Normal) \cup Range(queue.Idle)

\* Mutant: push_front.
AddToQueueFront(q, p) == [q EXCEPT ![Priority(p)] = <<p>> \o @]

AddToQueue(q, p) == [q EXCEPT ![Priority(p)] = Append(@, p)]

\* main: the shell is started, then Scheduler::init adds the idle process, then
\* `schedule` runs for the first time.
Init ==
  /\ mode = "schedule"
  /\ current = None
  /\ queue = [Normal |-> <<ShellId>>, Idle |-> <<IdleId>>]
  /\ blocked = <<>>
  /\ context = {IdleId, ShellId}
  /\ cr3 = None
  /\ mapped = [p \in Ids |-> {}]
  /\ next_id = ShellId + 1
  /\ input = NewQueue
  /\ output = NewQueue
  /\ events = <<>>
  /\ lock = [l \in {"input", "output", "events"} |-> None]
  /\ pc = [p \in Ids \ {IdleId} |-> IF p = ShellId THEN "start" ELSE "poll"]
  /\ hand = None
  /\ unsent = NumApps
  /\ polled = 0
-----------------------------------------------------------------------------
(* Scheduler::schedule_next.                                                *)

\* Mutant: Priority's order is reversed.
FirstPriorityReversed(q) == IF q.Idle # <<>> THEN "Idle" ELSE "Normal"

\* The queue that BTreeMap::values_mut().find(|q| !q.is_empty()) finds.
FirstPriority(q) == IF q.Normal # <<>> THEN "Normal" ELSE "Idle"

\* The second half of schedule_next, from the run queues and contexts that the
\* first half leaves: go back to the current process if it was neither preempted
\* nor blocked, else take the first one of the run queue.  The guards are the
\* two .expect calls.
Dispatch(q, contexts) ==
  LET first == FirstPriority(q)
      next  == IF current # None THEN current ELSE Head(q[first])
  IN  /\ current # None \/ q[first] # <<>>
      /\ next \in contexts
      /\ current' = next
      /\ queue' = IF current # None THEN q ELSE [q EXCEPT ![first] = Tail(@)]
      /\ context' = contexts \ {next}
      /\ cr3' = next
      /\ mode' = "user"

\* The first half takes one message of the shell.  It waits for the lock of
\* `output` first.
PollShell ==
  /\ mode = "schedule"
  /\ lock["output"] = None
  /\ output' = Pop(output)
  /\ UNCHANGED <<input, events, lock, pc, shellVars, polled>>

ScheduleQuiet ==
  /\ PollShell
  /\ Front(output) = None
  /\ Dispatch(queue, context)
  /\ UNCHANGED <<blocked, mapped, next_id>>

\* run_user_process
ScheduleStart ==
  /\ PollShell
  /\ Front(output) # None /\ Front(output).kind = "StartProcess"
  /\ next_id' = next_id + 1
  /\ Dispatch(AddToQueue(queue, next_id), context \cup {next_id})
  /\ UNCHANGED <<blocked, mapped>>

\* Mutant: the process is looked at and not removed from `blocked`.
ScheduleAllowPeeks ==
  /\ PollShell
  /\ Front(output) # None /\ Front(output).kind = "AllowModuleAccess"
  /\ blocked # <<>>
  /\ mapped' = [mapped EXCEPT ![Head(blocked)] = @ \cup {Front(output).addr}]
  /\ Dispatch(AddToQueue(queue, Head(blocked)), context)
  /\ UNCHANGED <<blocked, next_id>>

\* The process at the front of `blocked` gets the module, or is dropped: if the module
\* is mapped already or a frame for a table is missing (KernelMapping::map_into
\* fails), or if the section is gone.
ScheduleAllow ==
  /\ PollShell
  /\ Front(output) # None /\ Front(output).kind = "AllowModuleAccess"
  /\ blocked # <<>> /\ Head(blocked) = Front(output).process_id
  /\ LET p == Head(blocked)
         m == Front(output).addr
     IN  \/ /\ mapped' = [mapped EXCEPT ![p] = {}]
            /\ Dispatch(queue, context \ {p})
         \/ /\ m \notin mapped[p]
            /\ mapped' = [mapped EXCEPT ![p] = @ \cup {m}]
            /\ Dispatch(AddToQueue(queue, p), context)
  /\ blocked' = Tail(blocked)
  /\ UNCHANGED next_id

\* Mutant: blocked.pop_back.
ScheduleExitLast ==
  /\ PollShell
  /\ Front(output) # None /\ Front(output).kind = "ExitProcess"
  /\ blocked # <<>>
  /\ LET p == blocked[Len(blocked)]
     IN  mapped' = [mapped EXCEPT ![p] = {}] /\ Dispatch(queue, context \ {p})
  /\ blocked' = SubSeq(blocked, 1, Len(blocked) - 1)
  /\ UNCHANGED next_id

ScheduleExit ==
  /\ PollShell
  /\ Front(output) # None /\ Front(output).kind = "ExitProcess"
  /\ blocked # <<>>
  /\ mapped' = [mapped EXCEPT ![Head(blocked)] = {}]
  /\ Dispatch(queue, context \ {Head(blocked)})
  /\ blocked' = Tail(blocked)
  /\ UNCHANGED next_id

ScheduleNext == ScheduleQuiet \/ ScheduleStart \/ ScheduleAllow \/ ScheduleExit
-----------------------------------------------------------------------------
(* Interrupt handlers.  Each one first saves the context of the process that *)
(* was running, and set_current_context asserts that there was none saved.  *)

Running(p) == mode = "user" /\ current = p

SetCurrentContext(p) ==
  /\ Running(p)
  /\ p \notin context
  /\ context' = context \cup {p}

PreemptCurrent(p) ==
  /\ SetCurrentContext(p)
  /\ queue' = AddToQueue(queue, p)
  /\ current' = None
  /\ mode' = "schedule"
  /\ UNCHANGED <<blocked, cr3, mapped, next_id, input, output, events, lock,
                 shellVars, polled>>

\* timer_interrupt_handler
Timer(p) == PreemptCurrent(p) /\ UNCHANGED pc

\* defer_interrupt_handler, on `int 0x40`; the process continues after it.
Defer(p) ==
  /\ PreemptCurrent(p)
  /\ pc[p] = "defer"
  /\ pc' = [pc EXCEPT ![p] = IF p = ShellId THEN "in_lock" ELSE "poll"]

\* Mutant: the kernel's address space is not entered.
ExitInOwnSpace(p) ==
  /\ Running(p)
  /\ p \notin context
  /\ pc[p] = "exit"
  /\ current' = None
  /\ mapped' = [mapped EXCEPT ![p] = {}]
  /\ mode' = "schedule"
  /\ UNCHANGED <<queue, blocked, context, cr3, next_id, input, output, events, lock,
                 pc, shellVars, polled>>

\* exit_interrupt_handler, on `int 0x41`: the kernel's address space is entered
\* before the process, and its address space with it, is dropped.
Exit(p) ==
  /\ Running(p)
  /\ p \notin context
  /\ pc[p] = "exit"
  /\ current' = None
  /\ cr3' = None
  /\ mapped' = [mapped EXCEPT ![p] = {}]
  /\ mode' = "schedule"
  /\ UNCHANGED <<queue, blocked, context, next_id, input, output, events, lock,
                 pc, shellVars, polled>>

\* translate_addr_interrupt_handler, and the page faults that the kernel serves
\* itself (heap, framebuffer, PCI BAR, physical page): the process stays current.
ServeInPlace(p) ==
  /\ SetCurrentContext(p)
  /\ p # IdleId
  /\ mode' = "schedule"
  /\ UNCHANGED <<current, queue, blocked, cr3, mapped, next_id, input, output,
                 events, lock, pc, shellVars, polled>>

\* A page fault in a module section by a process with AccessPolicy::All.
FaultAll(p, m) ==
  /\ SetCurrentContext(p)
  /\ p # IdleId /\ Policy(p) = "All"
  /\ m \notin mapped[p]
  /\ mapped' = [mapped EXCEPT ![p] = @ \cup {m}]
  /\ mode' = "schedule"
  /\ UNCHANGED <<current, queue, blocked, cr3, next_id, input, output, events,
                 lock, pc, shellVars, polled>>

\* The same by a process with AccessPolicy::Normal: block_current, up to the
\* lock of `input`.  A process that touches a mapped module in a way its flags
\* forbid faults too.
FaultNormal(p) ==
  /\ SetCurrentContext(p)
  /\ Policy(p) = "Normal"
  /\ pc[p] \in DOMAIN Needs
  /\ Needs[pc[p]] \notin mapped[p] \/ BadAccess
  /\ current' = None
  /\ cr3' = None
  /\ blocked' = Append(blocked, p)
  /\ mode' = "block"
  /\ UNCHANGED <<queue, mapped, next_id, input, output, events, lock, pc,
                 shellVars, polled>>

\* Mutant: the request is not sent.
SendNoRequest ==
  /\ mode = "block"
  /\ lock["input"] = None
  /\ mode' = "schedule"
  /\ UNCHANGED <<current, queue, blocked, context, cr3, mapped, next_id, input, output,
                 events, lock, pc, shellVars, polled>>

\* The rest of block_current.
SendRequest ==
  /\ mode = "block"
  /\ lock["input"] = None
  /\ LET p == blocked[Len(blocked)]
     IN  input' = Push(input, [process_id |-> p, addr |-> Needs[pc[p]]])
  /\ mode' = "schedule"
  /\ UNCHANGED <<current, queue, blocked, context, cr3, mapped, next_id, output,
                 events, lock, pc, shellVars, polled>>

\* A page fault that ends in scheduler::exit: the handler has already saved the
\* context, and `int 0x41` enters exit_interrupt_handler, whose own
\* set_current_context finds a context and fails its assertion.
FaultExit(p) ==
  /\ SetCurrentContext(p)
  /\ BadAccess /\ p # IdleId
  /\ mode' = "panic"
  /\ UNCHANGED <<current, queue, blocked, cr3, mapped, next_id, input, output,
                 events, lock, pc, shellVars, polled>>
-----------------------------------------------------------------------------
(* User code.  A step touches the module that its program point needs, so it *)
(* waits (faults) until that module is mapped; a spin lock that is held     *)
(* makes the process spin, until the timer preempts it.                     *)

Goto(p, point) == pc' = [pc EXCEPT ![p] = point]
Acquire(l, p) == lock[l] = None /\ lock' = [lock EXCEPT ![l] = p]
Release(l) == lock' = [lock EXCEPT ![l] = None]

\* The shell before its main loop: QUEUE.output.lock().push(StartProcess { .. }).
StartLock ==
  /\ pc[ShellId] = "start"
  /\ unsent > 0
  /\ Acquire("output", ShellId)
  /\ Goto(ShellId, "start_push")
  /\ UNCHANGED <<input, output, events, shellVars, polled>>

StartPush ==
  /\ pc[ShellId] = "start_push"
  /\ output' = Push(output, [kind |-> "StartProcess", process_id |-> 0, addr |-> None])
  /\ unsent' = unsent - 1
  /\ Release("output")
  /\ Goto(ShellId, "start")
  /\ UNCHANGED <<input, events, hand, polled>>

\* for event in GLOBAL_INPUT_QUEUE.lock().drain(): the guard lives until the loop
\* ends, and the Q key leaves the main loop from inside.
DrainLock ==
  /\ pc[ShellId] = "start"
  /\ unsent = 0
  /\ Acquire("events", ShellId)
  /\ Goto(ShellId, "drain")
  /\ UNCHANGED <<input, output, events, shellVars, polled>>

DrainNext ==
  /\ pc[ShellId] = "drain"
  /\ events # <<>> /\ Head(events) # "quit"
  /\ events' = Tail(events)
  /\ UNCHANGED <<input, output, lock, pc, shellVars, polled>>

DrainEnd ==
  /\ pc[ShellId] = "drain"
  /\ events = <<>>
  /\ Release("events")
  /\ Goto(ShellId, "defer")
  /\ UNCHANGED <<input, output, events, shellVars, polled>>

DrainQuit ==
  /\ pc[ShellId] = "drain"
  /\ events # <<>> /\ Head(events) = "quit"
  /\ events' = Tail(events)
  /\ Release("events")
  /\ Goto(ShellId, "exit")
  /\ UNCHANGED <<input, output, shellVars, polled>>

\* while let Some(input) = QUEUE.input.lock().pop(): the guard lives until the end
\* of each iteration, so the answer is pushed with both locks held.
RequestLock ==
  /\ pc[ShellId] = "in_lock"
  /\ Acquire("input", ShellId)
  /\ Goto(ShellId, "in_pop")
  /\ UNCHANGED <<input, output, events, shellVars, polled>>

\* Mutant: the request is read and not removed.
RequestPeek ==
  /\ pc[ShellId] = "in_pop"
  /\ Front(input) # None
  /\ hand' = Front(input)
  /\ Goto(ShellId, "out_lock")
  /\ UNCHANGED <<input, output, events, lock, unsent, polled>>

RequestPop ==
  /\ pc[ShellId] = "in_pop"
  /\ Front(input) # None
  /\ hand' = Front(input)
  /\ input' = Pop(input)
  /\ Goto(ShellId, "out_lock")
  /\ UNCHANGED <<output, events, lock, unsent, polled>>

RequestNone ==
  /\ pc[ShellId] = "in_pop"
  /\ Front(input) = None
  /\ Release("input")
  /\ Goto(ShellId, "start")
  /\ UNCHANGED <<input, output, events, shellVars, polled>>

AnswerLock ==
  /\ pc[ShellId] = "out_lock"
  /\ Acquire("output", ShellId)
  /\ Goto(ShellId, "out_push")
  /\ UNCHANGED <<input, output, events, shellVars, polled>>

AnswerPush ==
  /\ pc[ShellId] = "out_push"
  /\ \E kind \in Answers :
       output' = Push(output, [kind       |-> kind,
                               process_id |-> hand.process_id,
                               addr       |-> hand.addr])
  /\ hand' = None
  /\ Release("output")
  /\ Goto(ShellId, "in_unlock")
  /\ UNCHANGED <<input, events, unsent, polled>>

RequestUnlock ==
  /\ pc[ShellId] = "in_unlock"
  /\ Release("input")
  /\ Goto(ShellId, "in_lock")
  /\ UNCHANGED <<input, output, events, shellVars, polled>>

ShellStep ==
  /\ Running(ShellId)
  /\ \/ StartLock \/ StartPush \/ DrainLock \/ DrainNext
     \/ DrainEnd \/ DrainQuit
     \/ RequestLock \/ RequestPop \/ RequestNone
     \/ AnswerLock \/ AnswerPush \/ RequestUnlock
  /\ UNCHANGED kernelVars

\* The input driver: Device::poll, InputQueue::push on the locked global queue,
\* and `defer` when the devices have nothing more.
DriverPoll(p) ==
  /\ pc[p] = "poll"
  /\ \/ /\ polled < MaxEvents
        /\ polled' = polled + 1
        /\ Goto(p, "lock")
     \/ Goto(p, "defer") /\ UNCHANGED polled
  /\ UNCHANGED <<input, output, events, lock, shellVars>>

DriverLock(p) ==
  /\ pc[p] = "lock"
  /\ Acquire("events", p)
  /\ Goto(p, "push")
  /\ UNCHANGED <<input, output, events, shellVars, polled>>

\* The Q key also ends the driver.
DriverPush(p) ==
  /\ pc[p] = "push"
  /\ \E event \in {"key", "quit"} :
       /\ events' = Append(events, event)
       /\ Goto(p, IF event = "quit" THEN "exit" ELSE "poll")
  /\ Release("events")
  /\ UNCHANGED <<input, output, shellVars, polled>>

DriverStep(p) ==
  /\ Running(p)
  /\ pc[p] \in DOMAIN Needs => Needs[pc[p]] \in mapped[p]
  /\ DriverPoll(p) \/ DriverLock(p) \/ DriverPush(p)
  /\ UNCHANGED kernelVars

\* Everything process p does when it executes the instruction it is at.
Execute(p) ==
  \/ p = ShellId /\ ShellStep
  \/ p \in AppIds /\ (DriverStep(p) \/ FaultNormal(p))
  \/ p # IdleId /\ (Defer(p) \/ Exit(p))

Interrupt(p) ==
  \/ Timer(p)
  \/ ServeInPlace(p)
  \/ \E m \in Modules : FaultAll(p, m)
  \/ FaultExit(p)

Next ==
  \/ ScheduleNext
  \/ SendRequest
  \/ \E p \in Ids : Execute(p) \/ Interrupt(p)

Spec == Init /\ [][Next]_vars
-----------------------------------------------------------------------------
Requests == [process_id : AppIds, addr : Modules]
Kinds == {"StartProcess", "AllowModuleAccess", "ExitProcess"}
Messages == [kind : Kinds, process_id : AppIds \cup {0}, addr : Modules \cup {None}]

\* Option::None is no process and nothing that a ring carries, here or in
\* ShellProtocol.
ASSUME NoneAssumption ==
  /\ None \notin Ids /\ None \notin Requests /\ None \notin Messages
  /\ None \notin [kind : Kinds, process_id : AppIds \cup {0}]

\* The program points of the shell and of the drivers.
Points == {"start", "start_push", "drain", "defer", "exit", "in_lock", "in_pop",
           "out_lock", "out_push", "in_unlock"} \cup DOMAIN Needs

TypeOK ==
  /\ mode \in {"user", "block", "schedule", "panic"}
  /\ current \in Ids \cup {None}
  /\ queue \in [Normal : Seq(Ids \ {IdleId}), Idle : Seq({IdleId})]
  /\ blocked \in Seq(AppIds)
  /\ context \in SUBSET Ids
  /\ cr3 \in Ids \cup {None}
  /\ mapped \in [Ids -> SUBSET Modules]
  /\ next_id \in ShellId + 1 .. ShellId + 1 + NumApps
  /\ input \in Queues(Requests)
  /\ output \in Queues(Messages)
  /\ events \in Seq({"key", "quit"})
  /\ lock \in [{"input", "output", "events"} -> Ids \cup {None}]
  /\ pc \in [Ids \ {IdleId} -> Points]
  /\ hand \in Requests \cup {None}
  /\ unsent \in 0 .. NumApps
  /\ polled \in 0 .. MaxEvents

\* No handler duplicates or loses a process: `current`, the two run queues and
\* `blocked` hold every process at most once, and the idle process always, so the
\* .expect("should at least have an idle process available") never fires.  The
\* PROCESS_ID counter is ahead of them all.
OnePlace ==
  /\ IsInjective(queue.Normal) /\ IsInjective(blocked)
  /\ Range(queue.Normal) \cap Range(blocked) = {}
  /\ current \notin Range(queue.Normal) \cup Range(blocked)
  /\ queue.Idle = IF current = IdleId THEN <<>> ELSE <<IdleId>>
  /\ \A p \in Live : p < next_id

\* "If this is `None`, the process is currently running" (Process::context), and
\* only then: the kernel never resumes a process that has no saved context, nor
\* runs one while an older context of it is still stored.
ContextNoneIffRunning ==
  Live \ context = IF mode = "user" THEN {current} ELSE {}

\* The CPU never uses the page tables of a process that was dropped, and user
\* code runs on its own ones: exit_interrupt_handler and block_current leave the
\* address space before they give up the process, and schedule_next comes back.
ActiveSpaceIsLive ==
  /\ cr3 \in Live \cup {None}
  /\ mode = "user" => cr3 = current

\* schedule_next picks the idle process only when no other one is ready, though
\* one can become ready (StartProcess, AllowModuleAccess) while idle runs.
IdleOnlyWhenNothingReady ==
  [][mode = "schedule" /\ current = None /\ current' = IdleId
       => queue'.Normal = <<>>]_vars

\* A process gets the very module it faulted on: the answer that is applied to
\* the front of `blocked` carries the address of that process's own request,
\* although the address travels through both rings and the shell.
GrantMatchesFault ==
  mode = "schedule" /\ Front(output) # None /\ Front(output).kind # "StartProcess"
    => /\ blocked # <<>>
       /\ Head(blocked) = Front(output).process_id
       /\ Front(output).addr = Needs[pc[Head(blocked)]]

\* A process under AccessPolicy::Normal never gains a module while it runs or
\* waits in a run queue: only as a blocked process, from an answer of the shell.
\* The handler grants devices and physical memory without blocking it; see Memory.
NormalGainsOnlyWhenBlocked ==
  [][\A p \in AppIds :
       ~(mapped'[p] \subseteq mapped[p]) => p \in Range(blocked) \ Range(blocked')]_vars

-----------------------------------------------------------------------------
(* The scheduler implements the request protocol of ShellProtocol.  While    *)
(* block_current waits for the lock, its process is blocked already but its *)
(* request is not sent: the protocol still sees it as ready.                *)

Requesters(q) ==
  [q EXCEPT !.inner =
     [i \in Slots |-> IF q.inner[i] = None THEN None ELSE q.inner[i].process_id]]

Unaddressed(q) ==
  [q EXCEPT !.inner =
     [i \in Slots |-> IF q.inner[i] = None THEN None
                      ELSE [kind |-> q.inner[i].kind, process_id |-> q.inner[i].process_id]]]

\* The blocked processes whose requests have been sent.
Requested == IF mode = "block" THEN SubSeq(blocked, 1, Len(blocked) - 1) ELSE blocked

Protocol ==
  INSTANCE ShellProtocol WITH
    input   <- Requesters(input),
    output  <- Unaddressed(output),
    blocked <- Requested,
    ready   <- (Live \cap AppIds) \ Range(Requested),
    hand    <- IF hand = None THEN None ELSE hand.process_id

\* Preemption, faults, spin locks and the two-step hand-over of a request do not
\* add anything to the request protocol: the whole system implements it.
ImplementsProtocol == Protocol!Spec

\* What the CPU executes and what it works on go together: user code runs as
\* `current`, and block_current waits for its lock with its process, which has
\* faulted, already at the back of `blocked`.
ModeInv ==
  /\ mode = "user" => current # None
  /\ mode = "block" => current = None /\ blocked # <<>>
  /\ \A p \in Range(blocked) : pc[p] \in DOMAIN Needs

\* The shell's program points: it holds a request from the pop to the push, and
\* has sent every StartProcess when it enters its main loop.
ShellInv ==
  /\ hand # None <=> pc[ShellId] \in {"out_lock", "out_push"}
  /\ pc[ShellId] = "start_push" => unsent > 0
  /\ pc[ShellId] \notin {"start", "start_push"} => unsent = 0

\* Wherever a request is, it carries the module that its process waits for.
AddressInv ==
  LET Asked(m) == m.addr = Needs[pc[m.process_id]]
  IN  /\ \A i \in Slots : input.inner[i] # None => Asked(input.inner[i])
      /\ hand # None => Asked(hand)
      /\ \A i \in Slots :
           output.inner[i] # None /\ output.inner[i].kind # "StartProcess"
             => Asked(output.inner[i])

\* The inductive invariant: what every handler of scheduler.rs and every step of
\* the shell leaves as it found it.  The conjunct of ShellProtocol says that the
\* rings carry the requests in the order of `blocked` and are never full.
SchedulerInv ==
  /\ TypeOK /\ OnePlace /\ ContextNoneIffRunning
  /\ ModeInv /\ ShellInv /\ AddressInv
  /\ Protocol!ProtocolInv
-----------------------------------------------------------------------------
(* Liveness.  The APIC timer is periodic and user code runs with interrupts  *)
(* on, so a running process is preempted sooner or later; a time slice is    *)
(* long enough for some instruction of the process, sooner or later; and the *)
(* kernel's own code never pauses, except on a lock.                        *)

FairSpec ==
  /\ Spec
  /\ WF_vars(ScheduleNext) /\ WF_vars(SendRequest)
  /\ \A p \in Ids : SF_vars(Timer(p)) /\ SF_vars(Execute(p))

\* The kernel spins, interrupts off, on a lock that the interrupted shell holds.
KernelHangs ==
  \/ mode = "schedule" /\ lock["output"] # None
  \/ mode = "block" /\ lock["input"] # None

\* The event queue is locked by a process that waits for the shell's answer, or that
\* was dropped instead of getting it.
HolderStuck == lock["events"] \in Range(blocked) \cup (Ids \ Live)

\* Round robin: a process in the run queue gets the CPU, whatever the other ones
\* do (spin on a lock, fault, defer, exit), unless the kernel hangs on a lock.
ReadyRunsUnlessHang ==
  \A p \in Ids \ {IdleId} :
    p \in Range(queue.Normal) ~> Running(p) \/ KernelHangs

\* A blocked process is answered, and leaves `blocked`, unless the kernel hangs,
\* the shell has left its main loop, or a process that is blocked or was dropped holds
\* the lock of the event queue, which the shell takes in every round of its main loop.
AnsweredUnlessStuck ==
  \A p \in AppIds :
    p \in Range(blocked) ~>
      p \notin Range(blocked) \/ KernelHangs \/ ShellId \notin Live \/ HolderStuck

\* process::defer: "Execution will resume when this process is next scheduled",
\* by "a preemptive, multitasking process scheduler": a process that waits in the
\* run queue gets the CPU again.
ReadyRuns ==
  \A p \in Ids \ {IdleId} : p \in Range(queue.Normal) ~> Running(p)

\* AccessPolicy::Normal: "it will be blocked until access is granted (or stopped
\* if it is denied)", as long as the shell runs and the kernel does.
BlockedUntilAnswered ==
  \A p \in AppIds :
    p \in Range(blocked) ~>
      p \notin Range(blocked) \/ KernelHangs \/ ShellId \notin Live

\* A page fault without permission kills the faulting process, not the kernel.
FaultKillsProcess == mode # "panic"
=============================================================================
