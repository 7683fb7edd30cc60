------------------------------- MODULE Virtio -------------------------------
(***************************************************************************)
(* A virtio device and its driver (drivers/virtio): the start-up handshake,*)
(* one Virtqueue, and the two drivers built on it.  The input driver keeps *)
(* the queue full of single buffers, polls it and hands the events to the  *)
(* shell through input::GLOBAL_INPUT_QUEUE; the GPU driver sends one       *)
(* command at a time as a chain of two buffers and spins for the answer.   *)
(* The device runs concurrently and shares the rings' memory.              *)
(***************************************************************************)
EXTENDS Naturals, Sequences, FiniteSets, Functions

CONSTANTS QUEUE_SIZE,     \* 64 in both drivers
          IndexModulus,   \* 2^16: the ring indices are u16, and release builds wrap
          InputQueueSize, \* 64: slots of InputQueue
          MaxUsed,        \* bound: chains the device completes, commands the driver sends
          MaxPops         \* bound: calls of pop that return something

ASSUME SizeAssumption == /\ QUEUE_SIZE \in Nat \ {0} /\ QUEUE_SIZE % 2 = 0
                         /\ IndexModulus \in Nat \ {0}
                         /\ IndexModulus % QUEUE_SIZE = 0 /\ QUEUE_SIZE < IndexModulus
ASSUME BoundAssumption == InputQueueSize \in Nat \ {0} /\ MaxUsed \in Nat /\ MaxPops \in Nat

Last(s) == s[Len(s)]

VARIABLES
  driver,    \* "input" or "gpu": whose queue this is
  pc,        \* the driver's program point
  status,    \* VirtioPciCommonCfg::device_status
  enabled,   \* queue_enable, and the areas' addresses with it
  desc,      \* the descriptor table: next and flags of every descriptor
  buffer,    \* what is in every descriptor's buffer
  ring,      \* driver_area.ring, the available ring
  idx,       \* driver_area.idx
  available, \* the descriptors marked true in available_descriptors
  popped,    \* Virtqueue::pop_index
  used,      \* device_area: ring, idx, and an element written but not published
  device,    \* the device's own place in the available ring, and the chains it has
  notified,  \* the device was told to look at the available ring and has not yet
  out,       \* the input driver's result of poll
  slots,     \* InputQueue::inner
  handled,   \* the events the shell has taken
  gpu,       \* the GPU driver's call, its commands to come and its result, and
             \* the commands on the resource that the device has carried out
  hist       \* history: what the device has completed and what became of it

queueVars == <<desc, buffer, ring, idx, available, popped>>
inputVars == <<out, slots, handled>>
vars == <<driver, pc, status, enabled, queueVars, used, device, notified, inputVars, gpu, hist>>

Desc == 0 .. QUEUE_SIZE - 1
Kinds == {"key", "quit", "ignored"}
Message(kind) == [n |-> 0, kind |-> kind]
(* A cleared buffer is a SYN event, which convert_input_event ignores.       *)
None == Message("ignored")
Finished == {"panicked", "exited"}

(* A chain has one buffer for an event, and two for a command and its       *)
(* answer: push::<1> and push::<2>.                                         *)
ChainLength == IF driver = "input" THEN 1 ELSE 2

Init ==
  /\ driver \in {"input", "gpu"}
  /\ pc = "reset" /\ status = "unknown" /\ enabled = FALSE
  /\ desc = [d \in Desc |-> [next |-> 0, flags |-> {}]]
  /\ buffer = [d \in Desc |-> None]
  /\ ring = [i \in Desc |-> 0] /\ idx = 0
  /\ available = Desc /\ popped = 0
  /\ used = [ring |-> [i \in Desc |-> 0], idx |-> 0, pending |-> FALSE]
  /\ device = [seen |-> 0, held |-> {}]
  /\ notified = FALSE
  /\ out = <<>> /\ slots = [i \in 1 .. InputQueueSize |-> None] /\ handled = <<>>
  /\ gpu = [call |-> "none", todo |-> <<>>, result |-> "none", done |-> {}]
  /\ hist = [used |-> 0, done |-> <<>>, ignored |-> 0, missed |-> 0]

-----------------------------------------------------------------------------
(* Device::initialize.  Every write_status replaces the register.           *)

WriteStatus(value, from, to) ==
  /\ pc = from /\ pc' = to /\ status' = value
  /\ UNCHANGED <<driver, enabled, queueVars, used, device, notified, inputVars, gpu, hist>>

Reset == WriteStatus("RESET", "reset", "acknowledge")
Acknowledge == WriteStatus("ACKNOWLEDGE", "acknowledge", "driver")
DriverKnown == WriteStatus("DRIVER", "driver", "features")

(* A device that does not accept the features does not keep FEATURES_OK.    *)
WriteFeatures == \E answer \in {"FEATURES_OK", "RESET"} : WriteStatus(answer, "features", "check")

CheckFeatures ==
  /\ pc = "check"
  /\ pc' = IF status = "FEATURES_OK" THEN "queue" ELSE "panicked"
  /\ UNCHANGED <<driver, status, enabled, queueVars, used, device, notified, inputVars, gpu, hist>>

(* initialize_queue: the setup function of both drivers.  It translates the *)
(* address of the first byte of each area and of each buffer; that what     *)
(* follows is behind it in physical memory too, as the shared rings of this *)
(* model say, is left to how the heap was mapped.                           *)
InitializeQueue ==
  /\ pc = "queue"
  /\ enabled' = TRUE
  /\ \E queue_size \in {QUEUE_SIZE, 2 * QUEUE_SIZE} :
       pc' = IF queue_size = QUEUE_SIZE THEN "ok" ELSE "panicked"
  /\ UNCHANGED <<driver, status, queueVars, used, device, notified, inputVars, gpu, hist>>

DriverOk ==
  WriteStatus("DRIVER_OK", "ok", IF driver = "input" THEN "fill" ELSE "idle")

-----------------------------------------------------------------------------
(* Virtqueue::push and Virtqueue::pop                                       *)

Lowest(S) == CHOOSE d \in S : \A x \in S : d <= x

(* Descriptors are taken lowest first; push returns those it took when      *)
(* there are not enough.                                                    *)
CanPush == Cardinality(available) >= ChainLength

Chain ==
  LET first == Lowest(available)
  IN  IF ChainLength = 1 THEN <<first>> ELSE <<first, Lowest(available \ {first})>>

(* Flag 2 marks a buffer the device writes, flag 1 a chain that goes on; the *)
(* last descriptor keeps the `next` it had.                                  *)
LinkAll ==
  [d \in Desc |->
     IF d = Last(Chain) THEN [desc[d] EXCEPT !.flags = {"write"}]
     ELSE IF d = Head(Chain) THEN [next |-> Chain[2], flags |-> {"next"}]
     ELSE desc[d]]

(* The first half of push: descriptors, buffers and the ring's entry.  Only *)
(* the index, which Publish writes, makes them the device's.                *)
Fill(message) ==
  /\ CanPush
  /\ available' = available \ Range(Chain)
  /\ desc' = LinkAll
  /\ buffer' = [d \in Desc |-> IF d = Last(Chain) THEN None
                               ELSE IF d = Head(Chain) THEN message ELSE buffer[d]]
  /\ ring' = [ring EXCEPT ![idx % QUEUE_SIZE] = Head(Chain)]
  /\ UNCHANGED <<idx, popped>>

Increment(i) == (i + 1) % IndexModulus
Publish == idx' = Increment(idx) /\ UNCHANGED <<desc, buffer, ring, available, popped>>

(* pop compares a usize with the device's u16.                              *)
NothingUsed == used.idx = popped

PoppedChainNewest == <<used.ring[used.idx % QUEUE_SIZE]>>
(* The chain pop walks: it goes by `next`, not by the flags, and ends at a   *)
(* `next` of zero.  A third descriptor is beyond either driver's result.     *)
PoppedChain ==
  LET head == used.ring[popped % QUEUE_SIZE]
      next == desc[head].next
  IN  IF next = 0 THEN <<head>>
      ELSE IF desc[next].next = 0 THEN <<head, next>>
      ELSE <<head, next, desc[next].next>>

(* Longer, and pop indexes out of its array; shorter, and the driver unwraps *)
(* a None.                                                                   *)
PopFits == Len(PoppedChain) = ChainLength

ReturnedFirst == {Head(PoppedChain)}
Returned == Range(PoppedChain)

Pop ==
  /\ ~NothingUsed /\ popped < MaxPops
  /\ available' = available \union Returned
  /\ popped' = popped + 1
  /\ UNCHANGED <<desc, buffer, ring, idx>>
  /\ hist' = [hist EXCEPT !.done = IF @ = <<>> THEN @ ELSE Tail(@)]

-----------------------------------------------------------------------------
(* The input device and the input driver                                    *)

FillEvents ==
  /\ pc = "fill" /\ CanPush /\ pc' = "publish"
  /\ Fill(None)
  /\ UNCHANGED <<driver, status, enabled, used, device, notified, inputVars, gpu, hist>>

PublishEvents ==
  /\ pc = "publish" /\ pc' = "fill" /\ Publish
  /\ UNCHANGED <<driver, status, enabled, used, device, notified, inputVars, gpu, hist>>

StartPolling ==
  /\ pc = "fill" /\ ~CanPush /\ pc' = "poll"
  /\ UNCHANGED <<driver, status, enabled, queueVars, used, device, notified, inputVars, gpu, hist>>

(* poll: each event popped gives its buffer back to the device.             *)
PollEvent ==
  /\ pc = "poll" /\ Pop
  /\ pc' = IF PopFits THEN "refill" ELSE "panicked"
  /\ out' = Append(out, buffer[Head(PoppedChain)])
  /\ UNCHANGED <<driver, status, enabled, used, device, notified, slots, handled, gpu>>

Refill ==
  /\ pc = "refill" /\ pc' = "republish" /\ Fill(None)
  /\ UNCHANGED <<driver, status, enabled, used, device, notified, inputVars, gpu, hist>>

Republish ==
  /\ pc = "republish" /\ pc' = "poll" /\ Publish
  /\ UNCHANGED <<driver, status, enabled, used, device, notified, inputVars, gpu, hist>>

PollEnds ==
  /\ pc = "poll" /\ NothingUsed /\ pc' = "deliver"
  /\ UNCHANGED <<driver, status, enabled, queueVars, used, device, notified, inputVars, gpu, hist>>

(* InputQueue::push                                                         *)
FreeSlots == {i \in DOMAIN slots : slots[i] = None}

PushEventOverwrites(event) ==
  IF FreeSlots # {} THEN [slots EXCEPT ![Lowest(FreeSlots)] = event]
  ELSE [slots EXCEPT ![1] = event]
PushEvent(event) ==
  IF FreeSlots # {} THEN [slots EXCEPT ![Lowest(FreeSlots)] = event]
  ELSE [i \in DOMAIN slots |-> IF i = InputQueueSize THEN event ELSE slots[i + 1]]

(* One event of the result of poll: convert_input_event, then the queue of  *)
(* the shell.  The key Q also ends the driver.                              *)
Deliver ==
  /\ pc = "deliver" /\ out # <<>>
  /\ out' = Tail(out)
  /\ LET event == Head(out)
     IN  IF event.kind = "ignored"
         THEN /\ hist' = [hist EXCEPT !.ignored = @ + 1]
              /\ UNCHANGED <<slots, pc>>
         ELSE /\ slots' = PushEvent(event)
              /\ hist' = [hist EXCEPT !.missed = @ + (IF FreeSlots = {} THEN 1 ELSE 0)]
              /\ pc' = IF event.kind = "quit" THEN "exited" ELSE pc
  /\ UNCHANGED <<driver, status, enabled, queueVars, used, device, notified, handled, gpu>>

(* process::defer at the end of a round                                     *)
Delivered ==
  /\ pc = "deliver" /\ out = <<>> /\ pc' = "poll"
  /\ UNCHANGED <<driver, status, enabled, queueVars, used, device, notified, inputVars, gpu, hist>>

(* InputQueue::drain: the filled slots, in their order                      *)
FilledSlots == DOMAIN slots \ FreeSlots
NthFilled(k) == CHOOSE i \in FilledSlots : Cardinality({j \in FilledSlots : j <= i}) = k
Queued == [k \in 1 .. Cardinality(FilledSlots) |-> slots[NthFilled(k)]]

(* The shell's loop over drain, which the key Q ends.                       *)
ShellRuns == \A i \in DOMAIN handled : handled[i].kind # "quit"

Quits == {i \in DOMAIN Queued : Queued[i].kind = "quit"}
Drain ==
  /\ ShellRuns /\ Queued # <<>>
  /\ LET taken == IF Quits = {} THEN Queued ELSE SubSeq(Queued, 1, Lowest(Quits))
     IN  /\ handled' = handled \o taken
         /\ slots' = [i \in DOMAIN slots |->
                        IF slots[i] \in Range(taken) THEN None ELSE slots[i]]
  /\ UNCHANGED <<driver, pc, status, enabled, queueVars, used, device, notified, out, gpu, hist>>

-----------------------------------------------------------------------------
(* The GPU driver                                                            *)

Commands(call) ==
  CASE call = "display_info" -> <<"GET_DISPLAY_INFO">>
    [] call = "initialize_framebuffer" -> <<"CREATE_2D", "ATTACH_BACKING", "SET_SCANOUT">>
    [] call = "flush" -> <<"TRANSFER_TO_HOST_2D", "RESOURCE_FLUSH">>

Call ==
  /\ pc = "idle"
  /\ \E call \in {"display_info", "initialize_framebuffer", "flush"} :
       gpu' = [gpu EXCEPT !.call = call, !.todo = Commands(call),
                         !.result = "none"]
  /\ pc' = "send"
  /\ UNCHANGED <<driver, status, enabled, queueVars, used, device, notified, inputVars, hist>>

(* send_control: push (its unwrap cannot fail, or the driver panics), then   *)
(* notify, then spin on pop.                                                 *)
SendFill ==
  /\ pc = "send" /\ hist.used < MaxUsed
  /\ IF CanPush THEN Fill(Message(Head(gpu.todo))) /\ pc' = "sendPublish"
                ELSE pc' = "panicked" /\ UNCHANGED queueVars
  /\ UNCHANGED <<driver, status, enabled, used, device, notified, inputVars, gpu, hist>>

SendPublish ==
  /\ pc = "sendPublish" /\ pc' = "notify" /\ Publish
  /\ UNCHANGED <<driver, status, enabled, used, device, notified, inputVars, gpu, hist>>

NotifyDeviceNot ==
  /\ pc = "notify" /\ pc' = "wait"
  /\ UNCHANGED <<driver, status, enabled, queueVars, used, device, notified, inputVars, gpu, hist>>
(* The notification is spent at once if the device has seen the command.     *)
NotifyDevice ==
  /\ pc = "notify" /\ pc' = "wait" /\ notified' = (device.seen # idx)
  /\ UNCHANGED <<driver, status, enabled, queueVars, used, device, inputVars, gpu, hist>>

(* The answer ends the call when it is an error, whatever was still to do.   *)
RemainingOfAll(answer) == Tail(gpu.todo)
Remaining(answer) == IF answer = "err" THEN <<>> ELSE Tail(gpu.todo)

ReceiveAnswer ==
  /\ pc = "wait" /\ Pop
  /\ LET answer == buffer[Last(PoppedChain)].kind
         over == Remaining(answer) = <<>>
     IN  IF PopFits
         THEN /\ gpu' = [gpu EXCEPT !.todo = Remaining(answer),
                                    !.result = IF over THEN answer ELSE @]
              /\ pc' = IF over THEN "idle" ELSE "send"
         ELSE pc' = "panicked" /\ UNCHANGED gpu
  /\ UNCHANGED <<driver, status, enabled, used, device, notified, inputVars>>

-----------------------------------------------------------------------------
(* The device (external): it works on the chains of the available ring,      *)
(* completes them in any order, and publishes one element at a time.  It may *)
(* look at the ring at any time, and must only when it was notified.         *)

Live == status = "DRIVER_OK" /\ enabled

DeviceFetch ==
  /\ Live /\ device.seen # idx
  /\ device' = [seen |-> Increment(device.seen),
                held |-> device.held \union {ring[device.seen % QUEUE_SIZE]}]
  /\ notified' = (notified /\ Increment(device.seen) # idx)
  /\ UNCHANGED <<driver, pc, status, enabled, queueVars, used, inputVars, gpu, hist>>

(* By the flags: the descriptors of the chain that starts at head.           *)
DeviceChain(head) ==
  IF "next" \in desc[head].flags THEN <<head, desc[head].next>> ELSE <<head>>

(* What each command needs of the resource; a device may also fail.          *)
Needs(command) ==
  CASE command = "ATTACH_BACKING" -> {"CREATE_2D"}
    [] command = "SET_SCANOUT" -> {"CREATE_2D"}
    [] command = "TRANSFER_TO_HOST_2D" -> {"ATTACH_BACKING"}
    [] command = "RESOURCE_FLUSH" -> {"CREATE_2D"}
    [] OTHER -> {}

Repeatable == {"GET_DISPLAY_INFO", "SET_SCANOUT", "TRANSFER_TO_HOST_2D", "RESOURCE_FLUSH"}

Answers(command) ==
  IF Needs(command) \subseteq gpu.done /\ (command \in Repeatable \/ command \notin gpu.done)
  THEN {"ok", "err"} ELSE {"err"}

DeviceComplete ==
  /\ ~used.pending /\ hist.used < MaxUsed
  /\ \E head \in device.held :
       /\ used' = [used EXCEPT !.ring[used.idx % QUEUE_SIZE] = head, !.pending = TRUE]
       /\ device' = [device EXCEPT !.held = @ \ {head}]
       /\ \E value \in IF driver = "input" THEN [n : {hist.used + 1}, kind : Kinds]
                       ELSE {Message(a) : a \in Answers(buffer[head].kind)} :
            /\ buffer' = [buffer EXCEPT ![Last(DeviceChain(head))] = value]
            /\ hist' = [hist EXCEPT !.used = @ + 1,
                                    !.done = Append(@, [ids |-> DeviceChain(head), last |-> value])]
            /\ gpu' = IF value.kind = "ok"
                      THEN [gpu EXCEPT !.done = @ \union {buffer[head].kind}] ELSE gpu
  /\ UNCHANGED <<driver, pc, status, enabled, desc, ring, idx, available, popped, notified,
                 inputVars>>

DevicePublish ==
  /\ used.pending
  /\ used' = [used EXCEPT !.pending = FALSE, !.idx = Increment(@)]
  /\ UNCHANGED <<driver, pc, status, enabled, queueVars, device, notified, inputVars, gpu, hist>>

-----------------------------------------------------------------------------

DriverStep ==
  \/ Reset \/ Acknowledge \/ DriverKnown \/ WriteFeatures \/ CheckFeatures
  \/ InitializeQueue \/ DriverOk
  \/ FillEvents \/ PublishEvents \/ StartPolling \/ PollEvent \/ Refill \/ Republish
  \/ PollEnds \/ Deliver \/ Delivered
  \/ Call \/ SendFill \/ SendPublish \/ NotifyDevice \/ ReceiveAnswer

DeviceStep == DeviceFetch \/ DeviceComplete \/ DevicePublish

Next == DriverStep \/ Drain \/ DeviceStep

(* The driver runs (Scheduler shows when), a live device looks at the ring    *)
(* when it was notified and works on what it holds, and the shell drains its  *)
(* events in every round.                                                     *)
Spec == Init /\ [][Next]_vars
             /\ WF_vars(DriverStep) /\ WF_vars(Drain)
             /\ WF_vars(DeviceFetch /\ notified) /\ WF_vars(DeviceComplete) /\ WF_vars(DevicePublish)

-----------------------------------------------------------------------------
(* pop's usize and the device's u16 agree until the index wraps; after that  *)
(* pop never again finds the queue empty, and nothing below is promised.     *)
BeforeWrap == hist.used < IndexModulus

(* The heads of the chains that push has linked and the device has not seen, *)
(* oldest first, with the one that is not yet published.                     *)
Filled == pc \in {"publish", "republish", "sendPublish"}
NumWaiting == ((idx + IndexModulus - device.seen) % IndexModulus) + (IF Filled THEN 1 ELSE 0)
Waiting == {ring[(device.seen + k) % QUEUE_SIZE] : k \in 0 .. NumWaiting - 1}

(* Every descriptor is available, or in exactly one chain that waits for the *)
(* device, that the device works on, or that it has completed: push, pop and *)
(* return_descriptor neither leak a descriptor nor give one out twice, and   *)
(* the `next` a descriptor keeps from earlier never joins two chains.        *)
DescriptorsAccounted ==
  BeforeWrap =>
    /\ available = Desc \ ((UNION {Range(DeviceChain(h)) : h \in Waiting \union device.held})
                           \union (UNION {Range(c.ids) : c \in Range(hist.done)}))
    /\ Cardinality(available)
         + ChainLength * (NumWaiting + Cardinality(device.held) + Len(hist.done)) = QUEUE_SIZE

(* pop returns the oldest chain the device has published and the driver has  *)
(* not had, all of it and with what the device wrote, so that the drivers'   *)
(* unwrap and index cannot fail.                                             *)
PopsWhatWasUsed ==
  [][popped' # popped /\ BeforeWrap =>
       /\ Len(hist.done) > (IF used.pending THEN 1 ELSE 0)
       /\ PoppedChain = Head(hist.done).ids
       /\ buffer[Last(PoppedChain)] = Head(hist.done).last]_vars

(* The events the shell has had, those in its queue and those poll returned  *)
(* are in the device's order, none twice, and all of them but the ones that  *)
(* a full InputQueue pushed out or that convert_input_event ignores.         *)
Numbers == [i \in 1 .. Len(handled \o Queued \o out) |-> (handled \o Queued \o out)[i].n]
EventsInOrder ==
  driver = "input" /\ BeforeWrap =>
    /\ \A i, j \in DOMAIN Numbers : i < j => Numbers[i] < Numbers[j]
    /\ Len(Numbers) + hist.ignored + hist.missed + Len(hist.done) = hist.used

(* initialize_framebuffer returns Ok only when the device has the resource,   *)
(* its backing and its scanout: no step that failed is passed over.           *)
InitializedIsShown ==
  BeforeWrap /\ gpu.call = "initialize_framebuffer" /\ gpu.result = "ok"
    => {"CREATE_2D", "ATTACH_BACKING", "SET_SCANOUT"} \subseteq gpu.done

(* send_control always gets its answer: it notifies the device of every       *)
(* command.  The input driver never notifies its device, so nothing makes the *)
(* device take a buffer; but an event that it has reported gets through poll  *)
(* and the queue to the shell, while there is a driver and a shell.           *)
Served ==
  /\ pc = "wait" ~> pc # "wait"
  /\ <>[](\/ driver = "gpu" \/ pc \in Finished \/ ~ShellRuns
          \/ Len(handled) + hist.ignored + hist.missed = hist.used)
=============================================================================
