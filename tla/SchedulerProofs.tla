-------------------------- MODULE SchedulerProofs --------------------------
(***************************************************************************)
(* The scheduler, the shell and the drivers keep SchedulerInv, whatever    *)
(* the interleaving, for every ring size and every number of processes     *)
(* that the rings can hold, and together they implement ShellProtocol.     *)
(* The invariant of the protocol is not proved again: a step of the        *)
(* scheduler is shown to be a step of the protocol or to leave its state   *)
(* alone, and the invariant of ShellProtocolProofs carries over.           *)
(***************************************************************************)
EXTENDS SchedulerHandlerProofs

USE SizeAssumption, CapacityAssumption, NoneAssumption
-----------------------------------------------------------------------------
(* The scheduler's loop, the drivers and the shell.                         *)

\* schedule_next, with what its first half leaves as q, contexts and b.
LEMMA ScheduleLocal ==
  ASSUME SchedulerInv, PollShell,
         NEW q, NEW contexts \in SUBSET Ids, NEW b, Placed(current, q, b),
         LiveIn(current, q, b) \subseteq contexts, Dispatch(q, contexts),
         blocked' = b, Range(b) \subseteq Range(blocked),
         mapped' \in [Ids -> SUBSET Modules],
         next_id' \in ShellId + 1 .. ShellId + 1 + NumApps,
         \A p \in LiveIn(current, q, b) : p < next_id'
  PROVE  /\ LocalInv' /\ Live' = LiveIn(current, q, b)
         /\ Requested = blocked /\ Requested' = b
         /\ UNCHANGED <<input, hand, unsent>> /\ output' = Pop(output)
         /\ Requesters(input)' = Requesters(input)
         /\ Unaddressed(output)' = Protocol!Pop(Unaddressed(output))
<1>1. /\ mode = "schedule" /\ output' = Pop(output)
      /\ UNCHANGED <<input, events, lock, pc, hand, unsent, polled>>
  BY Zenon DEF PollShell, shellVars
<1>2. /\ Placed(current', queue', blocked') /\ Live' = LiveIn(current, q, b)
      /\ current' \in Ids /\ cr3' = current' /\ mode' = "user"
      /\ context' \in SUBSET Ids /\ Live' \ context' = {current'}
  BY Dispatched, Zenon
<1>3. output \in RingsOf(Messages) /\ LocalTypes
  BY InvLocal, Zenon DEF LocalInv, LocalTypes
<1>4. output' \in RingsOf(Messages)
  <2>1. PICK e \in Messages : TRUE
    <3>1. [kind |-> "StartProcess", process_id |-> 0, addr |-> None] \in Messages
      BY SMTT(30) DEF Messages, Kinds
    <3>. QED BY <3>1
  <2>. QED BY <2>1, <1>1, <1>3, RingTypes
<1>5. LocalTypes'
  BY <1>1, <1>2, <1>3, <1>4, Zenon DEF LocalTypes
<1>6. ContextNoneIffRunning' /\ \A r \in Live' : r < next_id'
  BY <1>2, Zenon DEF ContextNoneIffRunning
<1>7. ModeInv' /\ ShellInv'
  <2>1. current' # None
    BY <1>2, Zenon
  <2>. QED BY <2>1, <1>1, <1>2, SMTT(30) DEF SchedulerInv, ModeInv, ShellInv
<1>8. AddressInv'
  <2>1. \A i \in Slots : output'.inner[i] \in {None, output.inner[i]}
    BY <1>1, <1>3, SlotsAfter, Zenon
  <2>. QED BY <2>1, <1>1, AddressMoved, Zenon
<1>9. Requested = blocked /\ Requested' = b
  BY <1>1, <1>2 DEF Requested
<1>10. Requesters(input)' = Requesters(input)
  BY <1>1, SMTT(30) DEF Requesters
<1>11. Unaddressed(output)' = Protocol!Pop(Unaddressed(output))
  <2>1. Unaddressed(output)' = Unaddressed(Pop(output))
    BY <1>1 DEF Unaddressed
  <2>2. [kind |-> "StartProcess", process_id |-> 0, addr |-> None] \in Messages
    BY DEF Messages, Kinds
  <2>3. Unaddressed(Pop(output)) = Pop(Unaddressed(output))
    BY <2>2, <1>3, UnaddressedCommute, Zenon
  <2>. QED BY <2>1, <2>3, SameQueue
<1>. QED BY <1>1, <1>2, <1>5, <1>6, <1>7, <1>8, <1>9, <1>10, <1>11 DEF LocalInv

\* The facts about a state in which schedule_next runs.
LEMMA ScheduleFacts ==
  ASSUME SchedulerInv, mode = "schedule"
  PROVE  /\ Placed(current, queue, blocked) /\ Live = LiveIn(current, queue, blocked)
         /\ Live \subseteq context /\ context \in SUBSET Ids
         /\ mapped \in [Ids -> SUBSET Modules]
         /\ next_id \in ShellId + 1 .. ShellId + 1 + NumApps
         /\ \A p \in Live : p \in Nat /\ p < next_id
<1>1. Placed(current, queue, blocked) /\ Live = LiveIn(current, queue, blocked)
  BY InvLocal, LiveIsLiveIn DEF LocalInv
<1>2. Live \subseteq Ids
  BY <1>1, LiveIds
<1>. QED BY <1>1, <1>2 DEF SchedulerInv, TypeOK, ContextNoneIffRunning, OnePlace, Ids, IdleId, ShellId

\* No message.
LEMMA ScheduleQuietInv ==
  ASSUME SchedulerInv, ScheduleQuiet
  PROVE  LocalInv' /\ ProtocolStep
<1>1. /\ PollShell /\ Front(output) = None /\ Dispatch(queue, context)
      /\ UNCHANGED <<blocked, mapped, next_id>> /\ mode = "schedule"
  BY Zenon DEF ScheduleQuiet, PollShell
<1>2. /\ Placed(current, queue, blocked) /\ Live = LiveIn(current, queue, blocked)
      /\ Live \subseteq context /\ context \in SUBSET Ids
      /\ mapped \in [Ids -> SUBSET Modules]
      /\ next_id \in ShellId + 1 .. ShellId + 1 + NumApps
      /\ \A p \in Live : p < next_id
  BY <1>1, ScheduleFacts, SMTT(30)
<1>3. /\ LocalInv' /\ Live' = Live /\ Requested = blocked /\ Requested' = blocked
      /\ UNCHANGED <<input, hand, unsent>> /\ output' = Pop(output)
  BY <1>1, <1>2, ScheduleLocal
<1>4. output' = output
  BY <1>1, <1>3 DEF Pop
<1>. QED BY <1>1, <1>3, <1>4, Unseen, SMTT(30)

\* StartProcess: run_user_process adds a process with an id of its own.
LEMMA ScheduleStartInv ==
  ASSUME SchedulerInv, ScheduleStart
  PROVE  LocalInv' /\ ProtocolStep
<1>1. /\ PollShell /\ Front(output) # None /\ Front(output).kind = "StartProcess"
      /\ next_id' = next_id + 1 /\ Dispatch(AddToQueue(queue, next_id), context \cup {next_id})
      /\ UNCHANGED <<blocked, mapped>> /\ mode = "schedule"
  BY SMTT(30) DEF ScheduleStart, PollShell
<1>2. /\ Placed(current, queue, blocked) /\ Live = LiveIn(current, queue, blocked)
      /\ Live \subseteq context /\ context \in SUBSET Ids
      /\ mapped \in [Ids -> SUBSET Modules]
      /\ \A p \in Live : p \in Nat /\ p < next_id
  BY <1>1, ScheduleFacts
<1>3. /\ next_id \in AppIds /\ Front(output) \in Messages
      /\ next_id' \in ShellId + 1 .. ShellId + 1 + NumApps
      /\ next_id \in Ids \ {IdleId} /\ next_id \in Nat
  <2>1. next_id \in AppIds /\ Front(output) \in Messages
    BY <1>1, FrontMessage
  <2>. QED BY <2>1, <1>1 DEF AppIds, Ids, IdleId, ShellId
<1>4. next_id \notin Live /\ \A p \in Live \cup {next_id} : p < next_id'
  BY <1>1, <1>2, <1>3
<1>. DEFINE q == AddToQueue(queue, next_id)
<1>5. Placed(current, q, blocked) /\ LiveIn(current, q, blocked) = Live \cup {next_id}
  BY <1>2, <1>3, <1>4, AddPlaced
<1>6. context \cup {next_id} \in SUBSET Ids /\ LiveIn(current, q, blocked) \subseteq context \cup {next_id}
  BY <1>2, <1>3, <1>5, Zenon
<1>. HIDE DEF q
<1>7. /\ LocalInv' /\ Live' = Live \cup {next_id} /\ Requested = blocked /\ Requested' = blocked
      /\ UNCHANGED <<input, hand, unsent>> /\ Requesters(input)' = Requesters(input)
      /\ Unaddressed(output)' = Protocol!Pop(Unaddressed(output))
  <2>1. /\ Dispatch(q, context \cup {next_id}) /\ blocked' = blocked
        /\ Range(blocked) \subseteq Range(blocked) /\ mapped' \in [Ids -> SUBSET Modules]
        /\ \A p \in LiveIn(current, q, blocked) : p < next_id'
    BY <1>1, <1>2, <1>4, <1>5, Zenon DEF q
  <2>. QED BY <2>1, <1>1, <1>3, <1>5, <1>6, ScheduleLocal, Zenon
<1>8. Protocol!OutputStart
  <2>1. /\ Protocol!Front(Unaddressed(output)) # None
        /\ Protocol!Front(Unaddressed(output)).kind = "StartProcess"
    <3>1. output \in RingsOf(Messages)
      BY InvLocal DEF LocalInv, LocalTypes
    <3>2. /\ Front(Unaddressed(output)) # None
          /\ Front(Unaddressed(output))
               = [kind |-> Front(output).kind, process_id |-> Front(output).process_id]
      BY <3>1, <1>1, <1>3, UnaddressedCommute, Zenon
    <3>. QED BY <3>2, <1>1, SameQueue, SMTT(30)
  <2>2. next_id \notin Range(blocked)
    BY <1>4 DEF Live
  <2>3. ((Live \cap AppIds) \ Range(Requested))' = ((Live \cap AppIds) \ Range(Requested)) \cup {next_id}
    <3>1. Range(Requested)' = Range(blocked) /\ AppIds' = AppIds /\ Range(Requested) = Range(blocked)
      BY <1>7, SMTT(30) DEF Range
    <3>. QED BY <3>1, <2>2, <1>3, <1>7
  <2>. QED BY <2>1, <2>3, <1>1, <1>7 DEF Protocol!OutputStart
<1>. QED BY <1>7, <1>8 DEF ProtocolStep, Protocol!Next

\* What applies to both answers: the front of `blocked` leaves it, and the protocol
\* sees the same message.
LEMMA AnswerFacts ==
  ASSUME SchedulerInv, mode = "schedule", Front(output) # None, blocked # <<>>
  PROVE  /\ Placed(current, queue, Tail(blocked))
         /\ LiveIn(current, queue, Tail(blocked)) = Live \ {Head(blocked)}
         /\ Head(blocked) \in Live /\ Head(blocked) \in AppIds /\ Head(blocked) \in Ids \ {IdleId}
         /\ Head(blocked) \in Range(blocked) /\ Range(Tail(blocked)) = Range(blocked) \ {Head(blocked)}
         /\ Front(output) \in Messages
         /\ Protocol!Front(Unaddressed(output)) # None
         /\ Protocol!Front(Unaddressed(output)).kind = Front(output).kind
         /\ Protocol!Front(Unaddressed(output)).process_id = Front(output).process_id
<1>1. Placed(current, queue, blocked) /\ Live = LiveIn(current, queue, blocked)
  BY ScheduleFacts, SMTT(30)
<1>2. output \in RingsOf(Messages) /\ Front(output) \in Messages
  BY InvLocal, FrontMessage DEF LocalInv, LocalTypes
<1>3. PICK k, d : k = Front(output).kind /\ d = Front(output).process_id
  OBVIOUS
<1>4. Protocol!Front(Unaddressed(output)) # None
  BY <1>2, UnaddressedCommute, SameQueue, Zenon
<1>5. Protocol!Front(Unaddressed(output)) = [kind |-> k, process_id |-> d]
  BY <1>2, <1>3, UnaddressedCommute, SameQueue, Zenon
<1>6. AppIds \subseteq Ids \ {IdleId}
  BY <1>1, LiveIds
<1>7. /\ Placed(current, queue, Tail(blocked))
      /\ LiveIn(current, queue, Tail(blocked)) = Live \ {Head(blocked)}
      /\ Head(blocked) \in Live /\ Head(blocked) \in AppIds /\ Head(blocked) \in Range(blocked)
      /\ Range(Tail(blocked)) = Range(blocked) \ {Head(blocked)}
  BY <1>1, UnblockPlaced
<1>. QED BY <1>2, <1>3, <1>4, <1>5, <1>6, <1>7

\* AllowModuleAccess.
LEMMA ScheduleAllowInv ==
  ASSUME SchedulerInv, ScheduleAllow
  PROVE  LocalInv' /\ ProtocolStep
<1>. DEFINE p == Head(blocked)
            m == Front(output).addr
<1>1. /\ PollShell /\ Front(output) # None /\ Front(output).kind = "AllowModuleAccess"
      /\ blocked # <<>> /\ p = Front(output).process_id
      /\ blocked' = Tail(blocked) /\ next_id' = next_id /\ mode = "schedule"
      /\ \/ mapped' = [mapped EXCEPT ![p] = {}] /\ Dispatch(queue, context \ {p})
         \/ /\ m \notin mapped[p] /\ mapped' = [mapped EXCEPT ![p] = @ \cup {m}]
            /\ Dispatch(AddToQueue(queue, p), context)
  BY Zenon DEF ScheduleAllow, PollShell
<1>2. /\ Placed(current, queue, Tail(blocked))
      /\ LiveIn(current, queue, Tail(blocked)) = Live \ {p}
      /\ p \in Live /\ p \in AppIds /\ p \in Ids \ {IdleId}
      /\ p \in Range(blocked) /\ Range(Tail(blocked)) = Range(blocked) \ {p}
      /\ Protocol!Front(Unaddressed(output)) # None
      /\ Protocol!Front(Unaddressed(output)).kind = "AllowModuleAccess"
      /\ Protocol!Front(Unaddressed(output)).process_id = p
  BY <1>1, AnswerFacts, Zenon
<1>3. /\ Live \subseteq context /\ context \in SUBSET Ids
      /\ mapped \in [Ids -> SUBSET Modules]
      /\ next_id \in ShellId + 1 .. ShellId + 1 + NumApps
      /\ \A r \in Live : r < next_id
  BY <1>1, ScheduleFacts
<1>4. m \in Modules
  <2>1. m = Needs[pc[p]]
    BY <1>1, FrontMessage
  <2>2. pc[p] \in DOMAIN Needs
    BY <1>2 DEF SchedulerInv, ModeInv
  <2>. QED BY <2>1, <2>2, NeedsModules
<1>. HIDE DEF p, m
<1>5. mapped' \in [Ids -> SUBSET Modules]
  <2>1. [mapped EXCEPT ![p] = {}] \in [Ids -> SUBSET Modules]
    BY <1>3, Zenon
  <2>2. [mapped EXCEPT ![p] = @ \cup {m}] \in [Ids -> SUBSET Modules]
    BY <1>2, <1>3, <1>4, SMTT(30)
  <2>. QED BY <2>1, <2>2, <1>1
<1>6. /\ LocalInv' /\ (Live' = Live \ {p} \/ Live' = Live)
      /\ Requested = blocked /\ Requested' = Tail(blocked)
      /\ UNCHANGED <<input, hand, unsent>> /\ Requesters(input)' = Requesters(input)
      /\ Unaddressed(output)' = Protocol!Pop(Unaddressed(output))
  <2>1. Range(Tail(blocked)) \subseteq Range(blocked) /\ next_id' \in ShellId + 1 .. ShellId + 1 + NumApps
    BY <1>1, <1>2, <1>3, Zenon
  <2>2. CASE Dispatch(queue, context \ {p})
    <3>1. /\ context \ {p} \in SUBSET Ids
          /\ LiveIn(current, queue, Tail(blocked)) \subseteq context \ {p}
          /\ \A r \in LiveIn(current, queue, Tail(blocked)) : r < next_id'
      BY <1>1, <1>2, <1>3, Zenon
    <3>. QED BY <3>1, <2>1, <2>2, <1>1, <1>2, <1>5, ScheduleLocal, Zenon
  <2>3. CASE Dispatch(AddToQueue(queue, p), context)
    <3>1. PICK q : q = AddToQueue(queue, p)
      BY SMTT(30)
    <3>2. /\ Placed(current, q, Tail(blocked))
          /\ LiveIn(current, q, Tail(blocked)) = (Live \ {p}) \cup {p}
      <4>1. PICK b : b = Tail(blocked)
        BY Zenon
      <4>2. /\ Placed(current, queue, b) /\ p \in Ids \ {IdleId}
            /\ LiveIn(current, queue, b) = Live \ {p}
        BY <1>2, <4>1, Zenon
      <4>3. p \notin LiveIn(current, queue, b)
        BY <4>2, Zenon
      <4>4. /\ Placed(current, AddToQueue(queue, p), b)
            /\ LiveIn(current, AddToQueue(queue, p), b) = LiveIn(current, queue, b) \cup {p}
        BY <4>2, <4>3, AddPlaced
      <4>. QED BY <3>1, <4>1, <4>2, <4>4, Zenon
    <3>3. LiveIn(current, q, Tail(blocked)) = Live
      BY <3>2, <1>2
    <3>4. /\ LiveIn(current, q, Tail(blocked)) \subseteq context
          /\ \A r \in LiveIn(current, q, Tail(blocked)) : r < next_id'
      BY <3>3, <1>1, <1>3
    <3>5. Dispatch(q, context)
      BY <3>1, <2>3, SMTT(30)
    <3>. QED BY <3>2, <3>3, <3>4, <3>5, <2>1, <1>1, <1>3, <1>5, ScheduleLocal, Zenon
  <2>. QED BY <2>2, <2>3, <1>1, SMTT(30)
<1>7. Protocol!OutputAllow
  <2>1. Range(Requested)' = Range(Tail(blocked)) /\ AppIds' = AppIds /\ Range(Requested) = Range(blocked)
    BY <1>6, Zenon DEF Range
  <2>2. \/ ((Live \cap AppIds) \ Range(Requested))' = ((Live \cap AppIds) \ Range(Requested)) \cup {p}
        \/ ((Live \cap AppIds) \ Range(Requested))' = (Live \cap AppIds) \ Range(Requested)
    <3>1. CASE Live' = Live
      BY <3>1, <2>1, <1>2, Zenon
    <3>2. CASE Live' = Live \ {p}
      BY <3>2, <2>1, <1>2
    <3>. QED BY <3>1, <3>2, <1>6, SMTT(30)
  <2>3. Head(Requested) = p /\ Requested # <<>> /\ Tail(Requested) = Tail(blocked)
    BY <1>1, <1>6 DEF p
  <2>. QED BY <2>2, <2>3, <1>1, <1>2, <1>6, Zenon DEF Protocol!OutputAllow
<1>. QED BY <1>6, <1>7, SMTT(30) DEF ProtocolStep, Protocol!Next

\* ExitProcess.
LEMMA ScheduleExitInv ==
  ASSUME SchedulerInv, ScheduleExit
  PROVE  LocalInv' /\ ProtocolStep
<1>. DEFINE p == Head(blocked)
<1>1. /\ PollShell /\ Front(output) # None /\ Front(output).kind = "ExitProcess"
      /\ blocked # <<>> /\ mapped' = [mapped EXCEPT ![p] = {}] /\ Dispatch(queue, context \ {p})
      /\ blocked' = Tail(blocked) /\ next_id' = next_id /\ mode = "schedule"
  BY SMTT(30) DEF ScheduleExit, PollShell
<1>2. /\ Placed(current, queue, Tail(blocked))
      /\ LiveIn(current, queue, Tail(blocked)) = Live \ {p}
      /\ p \in Live /\ p \in AppIds /\ p \in Ids \ {IdleId}
      /\ p \in Range(blocked) /\ Range(Tail(blocked)) = Range(blocked) \ {p}
      /\ Protocol!Front(Unaddressed(output)) # None
      /\ Protocol!Front(Unaddressed(output)).kind = "ExitProcess"
  BY <1>1, AnswerFacts, Zenon
<1>3. /\ Live \subseteq context /\ context \in SUBSET Ids
      /\ mapped \in [Ids -> SUBSET Modules]
      /\ next_id \in ShellId + 1 .. ShellId + 1 + NumApps
      /\ \A r \in Live : r < next_id
  BY <1>1, ScheduleFacts
<1>. HIDE DEF p
<1>4. mapped' \in [Ids -> SUBSET Modules]
  BY <1>1, <1>3, Zenon
<1>5. /\ LocalInv' /\ Live' = Live \ {p} /\ Requested = blocked /\ Requested' = Tail(blocked)
      /\ UNCHANGED <<input, hand, unsent>> /\ Requesters(input)' = Requesters(input)
      /\ Unaddressed(output)' = Protocol!Pop(Unaddressed(output))
  <2>1. Range(Tail(blocked)) \subseteq Range(blocked) /\ next_id' \in ShellId + 1 .. ShellId + 1 + NumApps
    BY <1>1, <1>2, <1>3, Zenon
  <2>2. /\ context \ {p} \in SUBSET Ids
        /\ LiveIn(current, queue, Tail(blocked)) \subseteq context \ {p}
        /\ \A r \in LiveIn(current, queue, Tail(blocked)) : r < next_id'
    BY <1>1, <1>2, <1>3, SMTT(30)
  <2>. QED BY <2>1, <2>2, <1>1, <1>2, <1>4, ScheduleLocal, Zenon
<1>6. Protocol!OutputExit
  <2>1. Range(Requested)' = Range(Tail(blocked)) /\ AppIds' = AppIds /\ Range(Requested) = Range(blocked)
    BY <1>5, Zenon DEF Range
  <2>2. ((Live \cap AppIds) \ Range(Requested))' = (Live \cap AppIds) \ Range(Requested)
    BY <2>1, <1>2, <1>5
  <2>. QED BY <2>2, <1>1, <1>2, <1>5, Zenon DEF Protocol!OutputExit
<1>. QED BY <1>5, <1>6 DEF ProtocolStep, Protocol!Next

\* A step of user code leaves the kernel's state alone.
LEMMA UserLocal ==
  ASSUME SchedulerInv, NEW p \in Ids \ {IdleId}, Running(p), UNCHANGED kernelVars,
         NEW x \in Points, pc' = [pc EXCEPT ![p] = x]
  PROVE  /\ UNCHANGED <<mode, current, queue, blocked, context, cr3, mapped, next_id>>
         /\ Placed(current', queue', blocked') /\ Live' = Live /\ \A r \in Live' : r < next_id'
         /\ ContextNoneIffRunning' /\ ModeInv' /\ Requested' = Requested
         /\ pc' \in [Ids \ {IdleId} -> Points] /\ pc'[p] = x
         /\ \A r \in Range(blocked) : pc'[r] = pc[r]
         /\ p # ShellId => pc'[ShellId] = pc[ShellId]
<1>1. UNCHANGED <<mode, current, queue, blocked, context, cr3, mapped, next_id>>
  BY DEF kernelVars
<1>2. /\ pc' \in [Ids \ {IdleId} -> Points] /\ pc'[p] = x
      /\ \A r \in Range(blocked) : pc'[r] = pc[r]
      /\ p # ShellId => pc'[ShellId] = pc[ShellId]
  BY RunningFacts, PointKept, Zenon
<1>3. Live' = Live /\ Requested' = Requested
  BY <1>1 DEF Live, Requested
<1>4. Placed(current', queue', blocked') /\ \A r \in Live' : r < next_id'
  BY <1>1, <1>3, InvLocal DEF LocalInv
<1>5. ContextNoneIffRunning'
  BY <1>1, <1>3 DEF SchedulerInv, ContextNoneIffRunning
<1>6. ModeInv'
  <2>1. \A r \in Range(blocked) : pc'[r] \in DOMAIN Needs
    BY <1>2 DEF SchedulerInv, ModeInv
  <2>. QED BY <2>1, <1>1, SMTT(30) DEF SchedulerInv, ModeInv
<1>. QED BY <1>1, <1>2, <1>3, <1>4, <1>5, <1>6

\* A step of user code that touches neither ring is none to the protocol.
LEMMA UserQuiet ==
  ASSUME SchedulerInv, NEW p \in Ids \ {IdleId}, Running(p), UNCHANGED kernelVars,
         NEW x \in Points, pc' = [pc EXCEPT ![p] = x],
         UNCHANGED <<input, output, hand, unsent>>,
         events' \in Seq({"key", "quit"}), polled' \in 0 .. MaxEvents,
         lock' \in [{"input", "output", "events"} -> Ids \cup {None}],
         p = ShellId => /\ (hand # None <=> x \in {"out_lock", "out_push"})
                        /\ x = "start_push" => unsent > 0
                        /\ x \notin {"start", "start_push"} => unsent = 0
  PROVE  LocalInv' /\ ProtocolStep
<1>1. /\ UNCHANGED <<mode, current, queue, blocked, context, cr3, mapped, next_id>>
      /\ Placed(current', queue', blocked') /\ Live' = Live /\ \A r \in Live' : r < next_id'
      /\ ContextNoneIffRunning' /\ ModeInv' /\ Requested' = Requested
      /\ pc' \in [Ids \ {IdleId} -> Points] /\ pc'[p] = x
      /\ \A r \in Range(blocked) : pc'[r] = pc[r]
      /\ p # ShellId => pc'[ShellId] = pc[ShellId]
  BY UserLocal, Zenon
<1>2. LocalTypes'
  BY <1>1, InvLocal, Zenon DEF LocalInv, LocalTypes
<1>3. AddressInv'
  BY <1>1, AddressKept
<1>4. ShellInv'
  <2>1. CASE p = ShellId
    BY <2>1, <1>1, SMTT(30) DEF ShellInv
  <2>2. CASE p # ShellId
    BY <2>2, <1>1, Zenon DEF SchedulerInv, ShellInv
  <2>. QED BY <2>1, <2>2
<1>5. ProtocolStep
  BY <1>1, Unseen
<1>. QED BY <1>1, <1>2, <1>3, <1>4, <1>5 DEF LocalInv

\* Taking and releasing a spin lock.
LEMMA Locks ==
  ASSUME SchedulerInv, NEW p \in Ids, NEW l \in {"input", "output", "events"},
         lock' = [lock EXCEPT ![l] = p] \/ lock' = [lock EXCEPT ![l] = None] \/ lock' = lock
  PROVE  lock' \in [{"input", "output", "events"} -> Ids \cup {None}]
<1>1. lock \in [{"input", "output", "events"} -> Ids \cup {None}]
  BY Zenon DEF SchedulerInv, TypeOK
<1>. QED BY <1>1, SMTT(30)

\* The input driver.
LEMMA DriverInv ==
  ASSUME SchedulerInv, NEW p \in AppIds, DriverStep(p)
  PROVE  LocalInv' /\ ProtocolStep
<1>1. /\ p \in Ids \ {IdleId} /\ p # ShellId /\ p \in Ids
  BY DEF AppIds, Ids, IdleId, ShellId
<1>2. Running(p) /\ UNCHANGED kernelVars
  BY DEF DriverStep
<1>3. /\ events \in Seq({"key", "quit"}) /\ polled \in 0 .. MaxEvents /\ MaxEvents \in Nat
      /\ lock \in [{"input", "output", "events"} -> Ids \cup {None}]
  BY EnvironmentAssumption DEF SchedulerInv, TypeOK
<1>4. CASE DriverPoll(p)
  <2>1. /\ polled' \in 0 .. MaxEvents
        /\ UNCHANGED <<input, output, events, lock, hand, unsent>>
        /\ \E x \in Points : pc' = [pc EXCEPT ![p] = x]
    <3>1. /\ \/ polled < MaxEvents /\ polled' = polled + 1
             \/ polled' = polled
          /\ pc' = [pc EXCEPT ![p] = "lock"] \/ pc' = [pc EXCEPT ![p] = "defer"]
          /\ UNCHANGED <<input, output, events, lock, hand, unsent>>
      BY <1>4, Zenon DEF DriverPoll, Goto, shellVars
    <3>2. polled' \in 0 .. MaxEvents
      BY <3>1, <1>3
    <3>3. "lock" \in Points /\ "defer" \in Points
      BY NeedsModules, Zenon
    <3>. QED BY <3>1, <3>2, <3>3, Zenon
  <2>. QED BY <2>1, <1>1, <1>2, <1>3, UserQuiet, Zenon
<1>5. CASE DriverLock(p)
  <2>1. /\ lock' = [lock EXCEPT !["events"] = p] /\ pc' = [pc EXCEPT ![p] = "push"]
        /\ UNCHANGED <<input, output, events, polled, hand, unsent>> /\ "push" \in Points
    BY <1>5, NeedsModules, SMTT(30) DEF DriverLock, Goto, shellVars, Acquire
  <2>2. lock' \in [{"input", "output", "events"} -> Ids \cup {None}]
    BY <2>1, <1>1, Locks, Zenon
  <2>. QED BY <2>1, <2>2, <1>1, <1>2, <1>3, UserQuiet, Zenon
<1>6. CASE DriverPush(p)
  <2>1. PICK event \in {"key", "quit"} :
          /\ events' = Append(events, event)
          /\ pc' = [pc EXCEPT ![p] = IF event = "quit" THEN "exit" ELSE "poll"]
    BY <1>6, Zenon DEF DriverPush, Goto
  <2>2. /\ lock' = [lock EXCEPT !["events"] = None]
        /\ UNCHANGED <<input, output, polled, hand, unsent>>
    BY <1>6 DEF DriverPush, shellVars, Release
  <2>3. PICK x \in Points : pc' = [pc EXCEPT ![p] = x]
    BY <2>1, NeedsModules, Zenon
  <2>4. events' \in Seq({"key", "quit"})
    BY <2>1, <1>3
  <2>5. lock' \in [{"input", "output", "events"} -> Ids \cup {None}]
    BY <2>2, <1>1, Locks, Zenon
  <2>. QED BY <2>2, <2>3, <2>4, <2>5, <1>1, <1>2, <1>3, UserQuiet, Zenon
<1>. QED BY <1>4, <1>5, <1>6 DEF DriverStep

\* The steps of the shell that take or release a lock or read an event.
LEMMA ShellQuietInv ==
  ASSUME SchedulerInv, Running(ShellId), UNCHANGED kernelVars,
         \/ StartLock \/ DrainLock \/ DrainNext \/ DrainEnd \/ DrainQuit
         \/ RequestLock \/ RequestNone \/ AnswerLock \/ RequestUnlock
  PROVE  LocalInv' /\ ProtocolStep
<1>1. ShellId \in Ids \ {IdleId} /\ ShellId \in Ids
  BY DEF Ids, IdleId, ShellId
<1>2. /\ events \in Seq({"key", "quit"}) /\ polled \in 0 .. MaxEvents
      /\ pc \in [Ids \ {IdleId} -> Points]
  BY DEF SchedulerInv, TypeOK
<1>3. /\ (hand # None <=> pc[ShellId] \in {"out_lock", "out_push"})
      /\ pc[ShellId] = "start_push" => unsent > 0
      /\ pc[ShellId] \notin {"start", "start_push"} => unsent = 0
  BY DEF SchedulerInv, ShellInv
<1>4. UNCHANGED <<input, output, polled, hand, unsent>>
  BY SMTT(30) DEF StartLock, DrainLock, DrainNext, DrainEnd, DrainQuit, RequestLock, RequestNone,
         AnswerLock, RequestUnlock, shellVars
<1>5. events' \in Seq({"key", "quit"})
  <2>1. events # <<>> => Tail(events) \in Seq({"key", "quit"})
    BY <1>2
  <2>. QED BY <2>1, <1>2 DEF StartLock, DrainLock, DrainNext, DrainEnd, DrainQuit, RequestLock,
                             RequestNone, AnswerLock, RequestUnlock
<1>6. lock' \in [{"input", "output", "events"} -> Ids \cup {None}]
  <2>1. \E l \in {"input", "output", "events"} :
          lock' = [lock EXCEPT ![l] = ShellId] \/ lock' = [lock EXCEPT ![l] = None] \/ lock' = lock
    BY Zenon DEF StartLock, DrainLock, DrainNext, DrainEnd, DrainQuit, RequestLock, RequestNone,
           AnswerLock, RequestUnlock, Acquire, Release
  <2>. QED BY <2>1, <1>1, Locks, SMTT(30)
<1>7. PICK x \in Points : /\ pc' = [pc EXCEPT ![ShellId] = x]
                          /\ (hand # None <=> x \in {"out_lock", "out_push"})
                          /\ x = "start_push" => unsent > 0
                          /\ x \notin {"start", "start_push"} => unsent = 0
  <2>1. CASE StartLock
    BY <2>1, <1>3, NeedsModules, Zenon DEF StartLock, Goto
  <2>2. CASE DrainLock
    BY <2>2, <1>3, NeedsModules, Zenon DEF DrainLock, Goto
  <2>3. CASE DrainNext
    <3>1. pc' = [pc EXCEPT ![ShellId] = "drain"] /\ pc[ShellId] = "drain"
      BY <2>3, <1>1, <1>2 DEF DrainNext
    <3>. QED BY <3>1, <1>3, NeedsModules, Zenon
  <2>4. CASE DrainEnd
    BY <2>4, <1>3, NeedsModules, Zenon DEF DrainEnd, Goto
  <2>5. CASE DrainQuit
    BY <2>5, <1>3, NeedsModules, Zenon DEF DrainQuit, Goto
  <2>6. CASE RequestLock
    BY <2>6, <1>3, NeedsModules, Zenon DEF RequestLock, Goto
  <2>7. CASE RequestNone
    BY <2>7, <1>3, NeedsModules, Zenon DEF RequestNone, Goto
  <2>8. CASE AnswerLock
    BY <2>8, <1>3, NeedsModules, Zenon DEF AnswerLock, Goto
  <2>9. CASE RequestUnlock
    BY <2>9, <1>3, NeedsModules, Zenon DEF RequestUnlock, Goto
  <2>. QED BY <2>1, <2>2, <2>3, <2>4, <2>5, <2>6, <2>7, <2>8, <2>9
<1>. QED BY <1>1, <1>2, <1>4, <1>5, <1>6, <1>7, UserQuiet, Zenon

\* QUEUE.output.lock().push(StartProcess).
LEMMA StartPushInv ==
  ASSUME SchedulerInv, Running(ShellId), UNCHANGED kernelVars, StartPush
  PROVE  LocalInv' /\ ProtocolStep
<1>. DEFINE e == [kind |-> "StartProcess", process_id |-> 0, addr |-> None]
<1>1. ShellId \in Ids \ {IdleId} /\ ShellId \in Ids
  BY DEF Ids, IdleId, ShellId
<1>2. /\ pc[ShellId] = "start_push" /\ output' = Push(output, e) /\ unsent' = unsent - 1
      /\ lock' = [lock EXCEPT !["output"] = None] /\ pc' = [pc EXCEPT ![ShellId] = "start"]
      /\ UNCHANGED <<input, events, hand, polled>> /\ "start" \in Points
  BY NeedsModules, SMTT(30) DEF StartPush, Release, Goto
<1>3. /\ UNCHANGED <<mode, current, queue, blocked, context, cr3, mapped, next_id>>
      /\ Placed(current', queue', blocked') /\ Live' = Live /\ \A r \in Live' : r < next_id'
      /\ ContextNoneIffRunning' /\ ModeInv' /\ Requested' = Requested
      /\ pc' \in [Ids \ {IdleId} -> Points] /\ pc'[ShellId] = "start"
      /\ \A r \in Range(blocked) : pc'[r] = pc[r]
  BY <1>1, <1>2, UserLocal, Zenon
<1>4. /\ e \in Messages /\ e.kind = "StartProcess" /\ e.process_id = 0
      /\ output \in RingsOf(Messages) /\ unsent \in 0 .. NumApps /\ unsent > 0 /\ hand = None
  <2>1. e \in Messages /\ e.kind = "StartProcess" /\ e.process_id = 0
    BY DEF Messages, Kinds
  <2>2. output \in RingsOf(Messages) /\ unsent \in 0 .. NumApps
    BY InvLocal DEF LocalInv, LocalTypes
  <2>3. unsent > 0 /\ hand = None
    BY <1>2, SMTT(30) DEF SchedulerInv, ShellInv
  <2>. QED BY <2>1, <2>2, <2>3
<1>. HIDE DEF e
<1>5. LocalTypes'
  <2>1. lock' \in [{"input", "output", "events"} -> Ids \cup {None}]
    BY <1>1, <1>2, Locks, Zenon
  <2>2. output' \in RingsOf(Messages)
    BY <1>2, <1>4, RingTypes
  <2>3. unsent' \in 0 .. NumApps
    BY <1>2, <1>4
  <2>. QED BY <2>1, <2>2, <2>3, <1>2, <1>3, InvLocal, Zenon DEF LocalInv, LocalTypes
<1>6. AddressInv'
  <2>1. \A i \in Slots : output'.inner[i] \in {e, output.inner[i]}
    BY <1>2, <1>4, SlotsAfter, Zenon
  <2>2. \A i \in Slots : output'.inner[i] \in {None, output.inner[i]}
                           \/ output'.inner[i].kind = "StartProcess"
    BY <2>1, <1>4, Zenon
  <2>. QED BY <2>2, <1>2, <1>3, AddressMoved, Zenon
<1>7. ShellInv'
  BY <1>2, <1>3, <1>4, Zenon DEF ShellInv
<1>8. Protocol!SendStart
  <2>1. Unaddressed(output)' = Protocol!Push(Unaddressed(output), Protocol!StartProcess)
    <3>1. Unaddressed(output)' = Unaddressed(Push(output, e))
      BY <1>2 DEF Unaddressed
    <3>2. Unaddressed(Push(output, e)) = Push(Unaddressed(output), [kind |-> "StartProcess", process_id |-> 0])
      BY <1>4, UnaddressedCommute
    <3>. QED BY <3>1, <3>2, SameQueue DEF Protocol!StartProcess
  <2>2. Requesters(input)' = Requesters(input)
    BY <1>2 DEF Requesters
  <2>3. ((Live \cap AppIds) \ Range(Requested))' = (Live \cap AppIds) \ Range(Requested)
    BY <1>3, SMTT(30) DEF Range
  <2>. QED BY <2>1, <2>2, <2>3, <1>2, <1>3, <1>4 DEF Protocol!SendStart
<1>. QED BY <1>3, <1>5, <1>6, <1>7, <1>8, SMTT(30) DEF LocalInv, ProtocolStep, Protocol!Next

\* The shell pops a request.
LEMMA RequestPopInv ==
  ASSUME SchedulerInv, Running(ShellId), UNCHANGED kernelVars, RequestPop
  PROVE  LocalInv' /\ ProtocolStep
<1>1. ShellId \in Ids \ {IdleId}
  BY DEF Ids, IdleId, ShellId
<1>2. /\ pc[ShellId] = "in_pop" /\ Front(input) # None /\ hand' = Front(input)
      /\ input' = Pop(input) /\ pc' = [pc EXCEPT ![ShellId] = "out_lock"]
      /\ UNCHANGED <<output, events, lock, unsent, polled>> /\ "out_lock" \in Points
  BY NeedsModules DEF RequestPop, Goto
<1>3. /\ UNCHANGED <<mode, current, queue, blocked, context, cr3, mapped, next_id>>
      /\ Placed(current', queue', blocked') /\ Live' = Live /\ \A r \in Live' : r < next_id'
      /\ ContextNoneIffRunning' /\ ModeInv' /\ Requested' = Requested
      /\ pc' \in [Ids \ {IdleId} -> Points] /\ pc'[ShellId] = "out_lock"
      /\ \A r \in Range(blocked) : pc'[r] = pc[r]
  BY <1>1, <1>2, UserLocal, Zenon
<1>4. hand = None /\ unsent = 0 /\ input \in RingsOf(Requests)
  BY <1>2, InvLocal, Zenon DEF SchedulerInv, ShellInv, LocalInv, LocalTypes
<1>5. /\ hand' \in Requests /\ hand' # None /\ input.pop_cursor \in Slots
      /\ hand' = input.inner[input.pop_cursor]
  <2>1. input.pop_cursor \in Slots /\ hand' = input.inner[input.pop_cursor]
    BY <1>2, <1>4 DEF RingsOf, Front
  <2>2. hand' \in Requests \cup {None}
    BY <2>1, <1>4, SMTT(30) DEF RingsOf
  <2>. QED BY <2>1, <2>2, <1>2
<1>6. LocalTypes'
  <2>1. input' \in RingsOf(Requests)
    BY <1>2, <1>4, <1>5, RingTypes, Zenon
  <2>. QED BY <2>1, <1>2, <1>3, <1>5, InvLocal, Zenon DEF LocalInv, LocalTypes
<1>7. AddressInv'
  <2>1. \A i \in Slots : input'.inner[i] \in {None, input.inner[i]}
    BY <1>2, <1>4, SlotsAfter, Zenon
  <2>2. hand'.addr = Needs[pc[hand'.process_id]] /\ hand'.process_id \in Range(blocked)
    BY <1>5, Owners, Zenon DEF SchedulerInv, AddressInv
  <2>3. hand'.addr = Needs[pc'[hand'.process_id]]
    BY <2>2, <1>3, Zenon
  <2>. QED BY <2>1, <2>3, <1>2, <1>3, AddressMoved, Zenon
<1>8. ShellInv'
  BY <1>2, <1>3, <1>4, <1>5, Zenon DEF ShellInv
<1>9. Protocol!TakeRequest
  <2>1. /\ Requesters(input)' = Protocol!Pop(Requesters(input))
        /\ Protocol!Front(Requesters(input)) # None
        /\ Protocol!Front(Requesters(input)) = hand'.process_id
    <3>1. Requesters(input)' = Requesters(Pop(input))
      BY <1>2, SMTT(30) DEF Requesters
    <3>2. /\ Requesters(Pop(input)) = Pop(Requesters(input))
          /\ Front(Requesters(input)) = Front(input).process_id
          /\ Front(Requesters(input)) # None
      BY <1>2, <1>4, <1>5, RequestersCommute, Zenon
    <3>. QED BY <3>1, <3>2, <1>2, SameQueue
  <2>2. Unaddressed(output)' = Unaddressed(output)
    BY <1>2, SMTT(30) DEF Unaddressed
  <2>3. ((Live \cap AppIds) \ Range(Requested))' = (Live \cap AppIds) \ Range(Requested)
    BY <1>3, Zenon DEF Range
  <2>. QED BY <2>1, <2>2, <2>3, <1>2, <1>3, <1>4, <1>5 DEF Protocol!TakeRequest
<1>. QED BY <1>3, <1>6, <1>7, <1>8, <1>9 DEF LocalInv, ProtocolStep, Protocol!Next

\* The shell pushes the answer to the request it popped.
LEMMA AnswerPushInv ==
  ASSUME SchedulerInv, Running(ShellId), UNCHANGED kernelVars, AnswerPush
  PROVE  LocalInv' /\ ProtocolStep
<1>1. ShellId \in Ids \ {IdleId} /\ ShellId \in Ids
  BY DEF Ids, IdleId, ShellId
<1>2. PICK kind \in Answers :
        output' = Push(output, [kind |-> kind, process_id |-> hand.process_id, addr |-> hand.addr])
  BY DEF AnswerPush
<1>. DEFINE e == [kind |-> kind, process_id |-> hand.process_id, addr |-> hand.addr]
<1>3. /\ pc[ShellId] = "out_push" /\ hand' = None
      /\ lock' = [lock EXCEPT !["output"] = None] /\ pc' = [pc EXCEPT ![ShellId] = "in_unlock"]
      /\ UNCHANGED <<input, events, unsent, polled>> /\ "in_unlock" \in Points
  BY NeedsModules DEF AnswerPush, Release, Goto
<1>4. /\ UNCHANGED <<mode, current, queue, blocked, context, cr3, mapped, next_id>>
      /\ Placed(current', queue', blocked') /\ Live' = Live /\ \A r \in Live' : r < next_id'
      /\ ContextNoneIffRunning' /\ ModeInv' /\ Requested' = Requested
      /\ pc' \in [Ids \ {IdleId} -> Points] /\ pc'[ShellId] = "in_unlock"
      /\ \A r \in Range(blocked) : pc'[r] = pc[r]
  BY <1>1, <1>3, UserLocal, Zenon
<1>5. /\ hand # None /\ hand \in Requests /\ unsent = 0 /\ output \in RingsOf(Messages)
      /\ hand.process_id \in AppIds
  <2>1. hand # None /\ unsent = 0
    BY <1>3, SMTT(30) DEF SchedulerInv, ShellInv
  <2>2. hand \in Requests /\ output \in RingsOf(Messages)
    BY <2>1, InvLocal, Zenon DEF LocalInv, LocalTypes
  <2>. QED BY <2>1, <2>2 DEF Requests
<1>6. /\ e \in Messages /\ e.kind = kind /\ e.process_id = hand.process_id
      /\ e.addr = hand.addr /\ kind # "StartProcess"
  BY <1>5, AnswersAssumption DEF Messages, Kinds, Requests
<1>7. output' = Push(output, e)
  BY <1>2, SMTT(30)
<1>. HIDE DEF e
<1>8. LocalTypes'
  <2>1. lock' \in [{"input", "output", "events"} -> Ids \cup {None}]
    BY <1>1, <1>3, Locks, Zenon
  <2>2. output' \in RingsOf(Messages)
    BY <1>5, <1>6, <1>7, RingTypes, Zenon
  <2>. QED BY <2>1, <2>2, <1>3, <1>4, InvLocal, Zenon DEF LocalInv, LocalTypes
<1>9. AddressInv'
  <2>1. \A i \in Slots : output'.inner[i] \in {e, output.inner[i]}
    BY <1>5, <1>7, SlotsAfter, SMTT(30)
  <2>2. hand.addr = Needs[pc[hand.process_id]] /\ hand.process_id \in Range(blocked)
    BY <1>5, Owners, Zenon DEF SchedulerInv, AddressInv
  <2>3. e.addr = Needs[pc'[e.process_id]]
    BY <2>2, <1>4, <1>6
  <2>4. ASSUME NEW i \in Slots
        PROVE  output'.inner[i] \in {None, output.inner[i]}
                 \/ output'.inner[i].addr = Needs[pc'[output'.inner[i].process_id]]
    <3>1. CASE output'.inner[i] = e
      BY <3>1, <2>3, Zenon
    <3>2. CASE output'.inner[i] = output.inner[i]
      BY <3>2, Zenon
    <3>. QED BY <3>1, <3>2, <2>1, Zenon
  <2>. QED BY <2>4, <1>3, <1>4, AddressMoved, Zenon
<1>10. ShellInv'
  BY <1>3, <1>4, <1>5, Zenon DEF ShellInv
<1>11. Protocol!SendAnswer
  <2>1. Unaddressed(output)' = Protocol!Push(Unaddressed(output), Protocol!Answer(kind, hand.process_id))
    <3>1. Unaddressed(output)' = Unaddressed(Push(output, e))
      BY <1>7 DEF Unaddressed
    <3>2. Unaddressed(Push(output, e))
            = Push(Unaddressed(output), [kind |-> kind, process_id |-> hand.process_id])
      BY <1>5, <1>6, UnaddressedCommute
    <3>. QED BY <3>1, <3>2, SameQueue DEF Protocol!Answer
  <2>2. Requesters(input)' = Requesters(input)
    BY <1>3 DEF Requesters
  <2>3. ((Live \cap AppIds) \ Range(Requested))' = (Live \cap AppIds) \ Range(Requested)
    BY <1>4 DEF Range
  <2>4. hand.process_id # None
    BY <1>5 DEF AppIds, Ids, IdleId, ShellId
  <2>. QED BY <2>1, <2>2, <2>3, <2>4, <1>3, <1>4, <1>5 DEF Protocol!SendAnswer
<1>. QED BY <1>4, <1>8, <1>9, <1>10, <1>11, Zenon DEF LocalInv, ProtocolStep, Protocol!Next

\* Every step of the kernel, the shell and the drivers.
LEMMA StepLocal ==
  ASSUME SchedulerInv, Next
  PROVE  LocalInv' /\ ProtocolStep
<1>1. ASSUME NEW p \in Ids, Execute(p) PROVE LocalInv' /\ ProtocolStep
  <2>1. CASE p = ShellId /\ ShellStep
    BY <2>1, ShellQuietInv, StartPushInv, RequestPopInv, AnswerPushInv DEF ShellStep
  <2>2. CASE p \in AppIds /\ (DriverStep(p) \/ FaultNormal(p))
    BY <2>2, DriverInv, FaultNormalInv
  <2>3. CASE p # IdleId /\ (Defer(p) \/ Exit(p))
    BY <2>3, PreemptInv, ExitInv
  <2>. QED BY <2>1, <2>2, <2>3, <1>1 DEF Execute
<1>2. ASSUME NEW p \in Ids, Interrupt(p) PROVE LocalInv' /\ ProtocolStep
  <2>1. PICK m \in Modules : Timer(p) \/ ServeInPlace(p) \/ FaultAll(p, m) \/ FaultExit(p)
    BY <1>2 DEF Interrupt, Modules
  <2>. QED BY <2>1, PreemptInv, InPlaceInv
<1>. QED BY <1>1, <1>2, SendRequestInv, ScheduleQuietInv, ScheduleStartInv, ScheduleAllowInv,
            ScheduleExitInv DEF Next, ScheduleNext

-----------------------------------------------------------------------------
(* The action properties.                                                   *)

\* The guard of the idle process in schedule_next.
LEMMA DispatchIdle ==
  ASSUME NEW q \in RunQueues, NEW contexts, Dispatch(q, contexts),
         current = None, current' = IdleId
  PROVE  queue'.Normal = <<>>
<1>1. q.Normal \in Seq(Ids \ {IdleId}) /\ q.Idle \in Seq({IdleId})
  BY DEF RunQueues
<1>2. CASE q.Normal # <<>>
  <2>1. current' = Head(q.Normal)
    BY <1>2 DEF Dispatch, FirstPriority
  <2>2. Head(q.Normal) \in Ids \ {IdleId}
    BY <1>1, <1>2
  <2>. QED BY <2>1, <2>2
<1>3. CASE q.Normal = <<>>
  <2>1. queue' = [q EXCEPT !["Idle"] = Tail(@)]
    BY <1>3, SMTT(30) DEF Dispatch, FirstPriority
  <2>2. queue'.Normal = q.Normal
    BY <2>1 DEF RunQueues
  <2>. QED BY <2>2, <1>3
<1>. QED BY <1>2, <1>3

\* Only schedule_next runs while the kernel is in mode "schedule".
LEMMA ScheduleOnly ==
  ASSUME Next, mode = "schedule"
  PROVE  ScheduleNext
<1>1. ~SendRequest
  BY SMTT(30) DEF SendRequest
<1>2. ASSUME NEW p \in Ids PROVE ~Execute(p)
  BY Zenon DEF Execute, ShellStep, DriverStep, FaultNormal, Defer, Exit, PreemptCurrent,
         SetCurrentContext, Running
<1>3. ASSUME NEW p \in Ids PROVE ~Interrupt(p)
  BY Zenon DEF Interrupt, Timer, ServeInPlace, FaultAll, FaultExit, PreemptCurrent,
         SetCurrentContext, Running
<1>. QED BY <1>1, <1>2, <1>3 DEF Next

\* schedule_next leaves no ready process behind when it picks the idle one.
LEMMA IdleStep ==
  ASSUME SchedulerInv, Next, mode = "schedule", current = None, current' = IdleId
  PROVE  queue'.Normal = <<>>
<1>1. Placed(current, queue, blocked) /\ queue \in RunQueues
  BY ScheduleFacts, Zenon DEF Placed
<1>2. CASE ScheduleQuiet
  BY <1>1, <1>2, DispatchIdle, Zenon DEF ScheduleQuiet
<1>3. CASE ScheduleExit
  BY <1>1, <1>3, DispatchIdle DEF ScheduleExit
<1>4. ASSUME NEW p \in Ids \ {IdleId} PROVE AddToQueue(queue, p) \in RunQueues
  <2>1. queue.Normal \in Seq(Ids \ {IdleId})
    BY <1>1 DEF RunQueues
  <2>2. PICK n \in Seq(Ids \ {IdleId}) : n = Append(queue.Normal, p)
    BY <2>1, AppendPlace, Zenon
  <2>3. AddToQueue(queue, p) = [queue EXCEPT !["Normal"] = n]
    BY <2>2, <1>1 DEF AddToQueue, Priority, RunQueues
  <2>. QED BY <2>2, <2>3, <1>1, Zenon DEF RunQueues
<1>5. CASE ScheduleStart
  <2>1. next_id \in AppIds
    BY <1>5, FrontMessage DEF ScheduleStart
  <2>2. next_id \in Ids \ {IdleId}
    BY <2>1, SMTT(30) DEF AppIds, Ids, IdleId, ShellId
  <2>. QED BY <2>2, <1>4, <1>5, DispatchIdle DEF ScheduleStart
<1>6. CASE ScheduleAllow
  <2>1. Head(blocked) \in Ids \ {IdleId}
    BY <1>6, AnswerFacts, Zenon DEF ScheduleAllow
  <2>. QED BY <2>1, <1>1, <1>4, <1>6, DispatchIdle, SMTT(30) DEF ScheduleAllow
<1>. QED BY <1>2, <1>3, <1>5, <1>6, ScheduleOnly, SMTT(30) DEF ScheduleNext

\* A module is mapped into a process under AccessPolicy::Normal only by the answer
\* that takes it out of `blocked`.
LEMMA GainStep ==
  ASSUME SchedulerInv, Next, NEW p \in AppIds, ~(mapped'[p] \subseteq mapped[p])
  PROVE  p \in Range(blocked) \ Range(blocked')
<1>1. mapped \in [Ids -> SUBSET Modules] /\ p \in Ids \ {IdleId}
  <2>1. mapped \in [Ids -> SUBSET Modules]
    BY Zenon DEF SchedulerInv, TypeOK
  <2>2. p \in Ids \ {IdleId}
    BY DEF AppIds, Ids, IdleId, ShellId
  <2>. QED BY <2>1, <2>2, Zenon
<1>2. mapped' # mapped
  OBVIOUS
<1>3. ASSUME NEW r \in Ids PROVE mapped' # [mapped EXCEPT ![r] = {}]
  BY <1>1
<1>4. ASSUME NEW r \in Ids PROVE ~Execute(r)
  <2>1. ~ShellStep /\ ~DriverStep(r) /\ ~FaultNormal(r) /\ ~Defer(r)
    BY <1>2, Zenon DEF ShellStep, DriverStep, FaultNormal, Defer, PreemptCurrent, kernelVars
  <2>2. ~Exit(r)
    BY <1>3, Zenon DEF Exit
  <2>. QED BY <2>1, <2>2, SMTT(30) DEF Execute
<1>5. ASSUME NEW r \in Ids PROVE ~Interrupt(r)
  <2>1. ~Timer(r) /\ ~ServeInPlace(r) /\ ~FaultExit(r)
    BY <1>2 DEF Timer, PreemptCurrent, ServeInPlace, FaultExit
  <2>2. ASSUME NEW m \in Modules, FaultAll(r, m) PROVE FALSE
    <3>1. r \notin AppIds /\ mapped' = [mapped EXCEPT ![r] = @ \cup {m}]
      BY <2>2, Zenon DEF FaultAll, Policy
    <3>. QED BY <3>1, <1>1, SMTT(30)
  <2>. QED BY <2>1, <2>2, SMTT(30) DEF Interrupt
<1>6. ~SendRequest /\ ~ScheduleQuiet /\ ~ScheduleStart
  BY <1>2 DEF SendRequest, ScheduleQuiet, ScheduleStart
<1>7. ASSUME ScheduleExit PROVE FALSE
  <2>1. Head(blocked) \in Ids /\ mapped' = [mapped EXCEPT ![Head(blocked)] = {}]
    BY <1>7, AnswerFacts, Zenon DEF ScheduleExit, PollShell
  <2>. QED BY <2>1, <1>3, SMTT(30)
<1>8. CASE ScheduleAllow
  <2>1. /\ Head(blocked) \in Ids /\ Head(blocked) \in Range(blocked)
        /\ Range(Tail(blocked)) = Range(blocked) \ {Head(blocked)} /\ blocked' = Tail(blocked)
    BY <1>8, AnswerFacts, Zenon DEF ScheduleAllow, PollShell
  <2>2. mapped' = [mapped EXCEPT ![Head(blocked)] = @ \cup {Front(output).addr}]
    BY <2>1, <1>3, <1>8, Zenon DEF ScheduleAllow
  <2>3. p = Head(blocked)
    BY <2>1, <2>2, <1>1
  <2>. QED BY <2>1, <2>3, SMTT(30)
<1>. QED BY <1>4, <1>5, <1>6, <1>7, <1>8 DEF Next, ScheduleNext

\* A handler leaves an address space before it drops the process it belongs to.
LEMMA SpaceStep ==
  ASSUME SchedulerInv, SchedulerInv', ActiveSpaceIsLive, Next
  PROVE  ActiveSpaceIsLive'
<1>1. CASE ScheduleNext
  <2>1. cr3' = current' /\ mode' = "user"
    BY <1>1, Zenon DEF ScheduleNext, ScheduleQuiet, ScheduleStart, ScheduleAllow, ScheduleExit, Dispatch
  <2>2. current' # None
    BY <2>1 DEF SchedulerInv, ModeInv
  <2>3. current' \in Live'
    BY <2>2 DEF Live
  <2>. QED BY <2>1, <2>3, SMTT(30) DEF ActiveSpaceIsLive
<1>2. CASE SendRequest
  <2>1. Live' = Live /\ cr3' = cr3 /\ mode' = "schedule"
    BY <1>2, Zenon DEF SendRequest, Live
  <2>. QED BY <2>1, SMTT(30) DEF ActiveSpaceIsLive
<1>3. CASE UNCHANGED kernelVars
  BY <1>3 DEF kernelVars, ActiveSpaceIsLive, Live
<1>4. ASSUME NEW p \in Ids, Exit(p) \/ FaultNormal(p) PROVE ActiveSpaceIsLive'
  <2>1. cr3' = None /\ mode' # "user"
    BY <1>4 DEF Exit, FaultNormal
  <2>. QED BY <2>1 DEF ActiveSpaceIsLive
<1>5. ASSUME NEW p \in Ids, PreemptCurrent(p) PROVE ActiveSpaceIsLive'
  <2>1. current = p /\ mode = "user" /\ Placed(p, queue, blocked)
    BY <1>5, RunningFacts, SMTT(30) DEF PreemptCurrent, SetCurrentContext
  <2>2. /\ cr3 = p /\ cr3' = cr3 /\ mode' = "schedule" /\ current' = None
        /\ queue' = AddToQueue(queue, p) /\ blocked' = blocked
    BY <2>1, <1>5, Zenon DEF PreemptCurrent, ActiveSpaceIsLive
  <2>3. LiveIn(None, AddToQueue(queue, p), blocked) = LiveIn(p, queue, blocked)
    BY <2>1, PreemptPlaced
  <2>4. p \in Live'
    <3>1. p \in LiveIn(p, queue, blocked) /\ Live' = LiveIn(current', queue', blocked')
      BY DEF Live, LiveIn
    <3>. QED BY <3>1, <2>2, <2>3
  <2>. QED BY <2>2, <2>4 DEF ActiveSpaceIsLive
<1>6. ASSUME NEW p \in Ids, NEW m \in Modules, ServeInPlace(p) \/ FaultAll(p, m) \/ FaultExit(p)
      PROVE  ActiveSpaceIsLive'
  <2>1. /\ UNCHANGED <<current, queue, blocked, cr3>> /\ mode' # "user"
    BY <1>6 DEF ServeInPlace, FaultAll, FaultExit
  <2>2. Live' = Live
    BY <2>1, SMTT(30) DEF Live
  <2>. QED BY <2>1, <2>2 DEF ActiveSpaceIsLive
<1>7. ASSUME NEW p \in Ids, Execute(p) PROVE ActiveSpaceIsLive'
  BY <1>3, <1>4, <1>5, <1>7, Zenon DEF Execute, ShellStep, DriverStep, Defer
<1>8. ASSUME NEW p \in Ids, Interrupt(p) PROVE ActiveSpaceIsLive'
  <2>1. PICK m \in Modules : Timer(p) \/ ServeInPlace(p) \/ FaultAll(p, m) \/ FaultExit(p)
    BY <1>8 DEF Interrupt, Modules
  <2>. QED BY <2>1, <1>5, <1>6 DEF Timer
<1>. QED BY <1>1, <1>2, <1>7, <1>8 DEF Next

-----------------------------------------------------------------------------
(* The initial state.                                                       *)

\* The scheduler starts with the shell and the idle process, and empty rings.
LEMMA InitLocal == ASSUME Init PROVE LocalInv /\ Protocol!Init
<1>1. /\ 0 \in Slots /\ \A i \in Slots : i \in Nat
      /\ NewQueue \in RingsOf(Requests) /\ NewQueue \in RingsOf(Messages)
  BY DEF NewQueue, RingsOf, Slots
<1>2. /\ queue = [Normal |-> <<ShellId>>, Idle |-> <<IdleId>>] /\ blocked = <<>>
      /\ current = None /\ mode = "schedule" /\ hand = None
  BY DEF Init
<1>3. /\ <<ShellId>> \in Seq(Ids \ {IdleId}) /\ <<IdleId>> \in Seq({IdleId})
      /\ <<>> \in Seq(AppIds)
      /\ IsInjective(<<ShellId>>) /\ IsInjective(<<>>)
      /\ Range(<<ShellId>>) = {ShellId} /\ Range(<<IdleId>>) = {IdleId} /\ Range(<<>>) = {}
  BY DEF Ids, IdleId, ShellId, IsInjective, Range
<1>4. Live = {IdleId, ShellId}
  BY <1>2, <1>3, Zenon DEF Live
<1>5. Placed(current, queue, blocked) /\ \A p \in Live : p < next_id
  <2>1. queue \in RunQueues
    BY <1>2, <1>3, Zenon DEF RunQueues
  <2>2. \A p \in Live : p < next_id
    BY <1>4 DEF Init, IdleId, ShellId
  <2>3. IdleId \in Ids /\ None # IdleId
    BY DEF Ids, IdleId, ShellId
  <2>4. current \notin Range(<<ShellId>>) /\ ShellId \in Ids
    BY <1>2, <1>3, SMTT(30) DEF Ids, ShellId
  <2>. QED BY <2>1, <2>2, <2>3, <2>4, <1>2, <1>3, Zenon DEF Placed
<1>6. LocalTypes
  <2>1. IdleId \in Ids /\ ShellId \in Ids
    BY SMTT(30) DEF Ids, IdleId, ShellId
  <2>2. pc \in [Ids \ {IdleId} -> Points]
    BY SMTT(30) DEF Init, Points, Needs
  <2>3. unsent \in 0 .. NumApps /\ next_id \in ShellId + 1 .. ShellId + 1 + NumApps
    <3>1. unsent = NumApps /\ next_id = ShellId + 1 /\ NumApps \in Nat
      BY EnvironmentAssumption, Zenon DEF Init
    <3>. QED BY <3>1 DEF ShellId
  <2>4. polled \in 0 .. MaxEvents
    BY EnvironmentAssumption, SMTT(30) DEF Init
  <2>5. /\ mode \in {"user", "block", "schedule", "panic"} /\ context \in SUBSET Ids
        /\ cr3 \in Ids \cup {None} /\ hand \in Requests \cup {None}
    BY <2>1, Zenon DEF Init
  <2>6. mapped \in [Ids -> SUBSET Modules]
    <3>1. mapped = [p \in Ids |-> {}]
      BY Zenon DEF Init
    <3>. QED BY <3>1
  <2>7. lock \in [{"input", "output", "events"} -> Ids \cup {None}]
    <3>1. lock = [l \in {"input", "output", "events"} |-> None]
      BY Zenon DEF Init
    <3>. QED BY <3>1
  <2>8. events \in Seq({"key", "quit"})
    <3>1. events = <<>>
      BY Zenon DEF Init
    <3>. QED BY <3>1
  <2>9. input \in RingsOf(Requests) /\ output \in RingsOf(Messages)
    BY <1>1, Zenon DEF Init
  <2>. QED BY <2>2, <2>3, <2>4, <2>5, <2>6, <2>7, <2>8, <2>9, Zenon DEF LocalTypes
<1>7. ContextNoneIffRunning /\ ModeInv
  BY <1>2, <1>3, <1>4, Zenon DEF Init, ContextNoneIffRunning, ModeInv
<1>8. ShellInv
  BY <1>2 DEF Init, ShellInv, Ids, IdleId, ShellId
<1>9. AddressInv
  BY <1>1, <1>2, Zenon DEF Init, AddressInv, NewQueue
<1>10. Protocol!Init
  <2>1. Requested = <<>> /\ Range(Requested) = {} /\ Live \cap AppIds = {}
    BY <1>2, <1>3, <1>4 DEF Requested, AppIds, ShellId, IdleId
  <2>0. \A i \in Slots : NewQueue.inner[i] = None
    BY DEF NewQueue
  <2>2. Requesters(input) = Protocol!NewQueue
    <3>1. [i \in Slots |-> IF input.inner[i] = None THEN None ELSE input.inner[i].process_id]
            = [i \in Slots |-> None]
      BY <2>0, Zenon DEF Init
    <3>2. PICK f : f = [i \in Slots |-> None]
      BY Zenon
    <3>3. input = [inner |-> f, push_cursor |-> 0, pop_cursor |-> 0]
      BY <3>2, Zenon DEF Init, NewQueue
    <3>4. Requesters(input) = [input EXCEPT !.inner = f]
      BY <3>1, <3>2 DEF Requesters
    <3>5. Protocol!NewQueue = [inner |-> f, push_cursor |-> 0, pop_cursor |-> 0]
      BY <3>2, SMTT(30) DEF Protocol!NewQueue, Protocol!Slots, Slots
    <3>. QED BY <3>3, <3>4, <3>5, SMTT(30)
  <2>3. Unaddressed(output) = Protocol!NewQueue
    <3>1. [i \in Slots |-> IF output.inner[i] = None THEN None
                           ELSE [kind |-> output.inner[i].kind,
                                 process_id |-> output.inner[i].process_id]]
            = [i \in Slots |-> None]
      BY <2>0, Zenon DEF Init
    <3>2. PICK f : f = [i \in Slots |-> None]
      BY Zenon
    <3>3. output = [inner |-> f, push_cursor |-> 0, pop_cursor |-> 0]
      BY <3>2, Zenon DEF Init, NewQueue
    <3>4. Unaddressed(output) = [output EXCEPT !.inner = f]
      BY <3>1, <3>2, SMTT(30) DEF Unaddressed
    <3>5. Protocol!NewQueue = [inner |-> f, push_cursor |-> 0, pop_cursor |-> 0]
      BY <3>2 DEF Protocol!NewQueue, Protocol!Slots, Slots
    <3>. QED BY <3>3, <3>4, <3>5
  <2>4. unsent = NumApps /\ next_id = Protocol!ShellId + 1
    BY DEF Init, ShellId, Protocol!ShellId
  <2>. QED BY <2>1, <2>2, <2>3, <2>4, <1>2 DEF Protocol!Init
<1>. QED BY <1>5, <1>6, <1>7, <1>8, <1>9, <1>10 DEF LocalInv
-----------------------------------------------------------------------------
(* The request protocol is proved correct in ShellProtocolProofs; here its   *)
(* lemmas are taken over for the protocol that the scheduler implements.    *)

ProtocolProofs ==
  INSTANCE ShellProtocolProofs WITH
    input   <- Requesters(input),
    output  <- Unaddressed(output),
    blocked <- Requested,
    ready   <- (Live \cap AppIds) \ Range(Requested),
    hand    <- IF hand = None THEN None ELSE hand.process_id

\* The assumptions on the constants that ShellProtocolProofs makes.
LEMMA ProtocolAssumptions ==
  /\ ProtocolProofs!SizeAssumption /\ ProtocolProofs!CapacityAssumption
  /\ ProtocolProofs!AnswersAssumption /\ ProtocolProofs!NoneAssumption
<1>1. ProtocolProofs!SizeAssumption /\ ProtocolProofs!CapacityAssumption
  BY DEF ProtocolProofs!SizeAssumption, ProtocolProofs!CapacityAssumption
<1>2. ProtocolProofs!AnswersAssumption
  BY AnswersAssumption DEF ProtocolProofs!AnswersAssumption
<1>3. ProtocolProofs!NoneAssumption
  BY DEF ProtocolProofs!NoneAssumption, ProtocolProofs!AppIds, ProtocolProofs!ShellId,
         ProtocolProofs!Messages, Ids, AppIds, ShellId, IdleId, Kinds
<1>. QED BY <1>1, <1>2, <1>3

\* Both instances say the same.
LEMMA SameProtocol ==
  /\ Protocol!Init <=> ProtocolProofs!Init
  /\ Protocol!ProtocolInv <=> ProtocolProofs!ProtocolInv
  /\ ProtocolStep <=> [ProtocolProofs!Next]_(ProtocolProofs!vars)
<1>1. Protocol!Init <=> ProtocolProofs!Init
  BY SMTT(30) DEF Protocol!Init, ProtocolProofs!Init, Protocol!NewQueue, ProtocolProofs!NewQueue,
         Protocol!Slots, ProtocolProofs!Slots, Protocol!ShellId, ProtocolProofs!ShellId
<1>2. Protocol!ProtocolInv <=> ProtocolProofs!ProtocolInv
  <2>1. ASSUME NEW q PROVE Protocol!Count(q) = ProtocolProofs!Count(q)
    BY SMTT(30) DEF Protocol!Count, ProtocolProofs!Count, Protocol!Front, ProtocolProofs!Front
  <2>2. ASSUME NEW q PROVE Protocol!Contents(q) = ProtocolProofs!Contents(q)
    BY <2>1, Zenon DEF Protocol!Contents, ProtocolProofs!Contents, Protocol!Wrap, ProtocolProofs!Wrap
  <2>3. ASSUME NEW E PROVE Protocol!Queues(E) = ProtocolProofs!Queues(E)
    BY <2>1, Zenon DEF Protocol!Queues, ProtocolProofs!Queues, Protocol!Slots, ProtocolProofs!Slots,
         Protocol!Wrap, ProtocolProofs!Wrap
  <2>4. Protocol!TypeOK <=> ProtocolProofs!TypeOK
    BY <2>3, Zenon DEF Protocol!TypeOK, ProtocolProofs!TypeOK, Protocol!AppIds, ProtocolProofs!AppIds,
         Protocol!ShellId, ProtocolProofs!ShellId, Protocol!Messages, ProtocolProofs!Messages
  <2>5. /\ Protocol!StartsQueued = ProtocolProofs!StartsQueued
        /\ Protocol!AnswersQueued = ProtocolProofs!AnswersQueued
        /\ Protocol!InHand = ProtocolProofs!InHand
    BY <2>1, Zenon DEF Protocol!StartsQueued, ProtocolProofs!StartsQueued, Protocol!AnswersQueued,
         ProtocolProofs!AnswersQueued, Protocol!InHand, ProtocolProofs!InHand,
         Protocol!ShellId, ProtocolProofs!ShellId
  <2>6. Protocol!RequestOrder <=> ProtocolProofs!RequestOrder
    BY <2>1, <2>2, <2>5 DEF Protocol!RequestOrder, ProtocolProofs!RequestOrder
  <2>7. ASSUME NEW S PROVE Protocol!Cardinality(S) = ProtocolProofs!Cardinality(S)
    BY Zenon DEF Protocol!Cardinality, ProtocolProofs!Cardinality
  <2>8. Protocol!Population <=> ProtocolProofs!Population
    BY <2>7 DEF Protocol!Population, ProtocolProofs!Population, Protocol!ShellId, ProtocolProofs!ShellId
  <2>9. Protocol!OnePlace <=> ProtocolProofs!OnePlace
    BY SMTT(30) DEF Protocol!OnePlace, ProtocolProofs!OnePlace
  <2>. QED BY <2>4, <2>6, <2>8, <2>9 DEF Protocol!ProtocolInv, ProtocolProofs!ProtocolInv
<1>3. Protocol!Next <=> ProtocolProofs!Next
  BY Zenon DEF Protocol!Slots, ProtocolProofs!Slots, Protocol!Advance, ProtocolProofs!Advance,
         Protocol!Push, ProtocolProofs!Push, Protocol!Front, ProtocolProofs!Front,
         Protocol!Pop, ProtocolProofs!Pop, Protocol!ShellId, ProtocolProofs!ShellId,
         Protocol!AppIds, ProtocolProofs!AppIds, Protocol!StartProcess,
         ProtocolProofs!StartProcess, Protocol!Answer, ProtocolProofs!Answer,
         Protocol!SendStart, ProtocolProofs!SendStart, Protocol!TakeRequest,
         ProtocolProofs!TakeRequest, Protocol!SendAnswer, ProtocolProofs!SendAnswer,
         Protocol!BlockCurrent, ProtocolProofs!BlockCurrent, Protocol!Exit,
         ProtocolProofs!Exit, Protocol!OutputStart, ProtocolProofs!OutputStart,
         Protocol!OutputAllow, ProtocolProofs!OutputAllow, Protocol!OutputExit,
         ProtocolProofs!OutputExit, Protocol!Next, ProtocolProofs!Next
<1>4. UNCHANGED Protocol!vars <=> UNCHANGED ProtocolProofs!vars
  BY DEF Protocol!vars, ProtocolProofs!vars
<1>. QED BY <1>1, <1>2, <1>3, <1>4 DEF ProtocolStep

\* The protocol's invariant holds at first, and every step that the protocol
\* knows or does not see keeps it.
LEMMA ProtocolStarts == Protocol!Init => Protocol!ProtocolInv
<1>1. ProtocolProofs!Init => ProtocolProofs!ProtocolInv
  BY ProtocolAssumptions, ProtocolProofs!InitProtocolInv
<1>. QED BY <1>1, SameProtocol

\* Every step of the protocol keeps its invariant.
LEMMA ProtocolKept == Protocol!ProtocolInv /\ ProtocolStep => Protocol!ProtocolInv'
<1>1. ProtocolProofs!ProtocolInv /\ [ProtocolProofs!Next]_(ProtocolProofs!vars)
        => ProtocolProofs!ProtocolInv'
  BY ProtocolAssumptions, ProtocolProofs!StepProtocolInv
<1>. QED BY <1>1, SameProtocol, PTL

-----------------------------------------------------------------------------
(* The theorems.                                                            *)

\* The initial state, every handler of scheduler.rs and every step of the user
\* processes respect the invariant.
LEMMA InitSchedulerInv == Init => SchedulerInv
BY InitLocal, ProtocolStarts, LocalProtocolInv

\* Every handler and every step of user code keeps the invariant.
LEMMA StepSchedulerInv == SchedulerInv /\ [Next]_vars => SchedulerInv'
<1>1. LocalInv /\ Protocol!ProtocolInv => SchedulerInv
  BY LocalProtocolInv
<1>2. SchedulerInv => Protocol!ProtocolInv
  BY DEF SchedulerInv
<1>3. SchedulerInv /\ Next => LocalInv' /\ Protocol!ProtocolInv'
  BY <1>2, StepLocal, ProtocolKept
<1>4. SchedulerInv /\ UNCHANGED vars => LocalInv' /\ Protocol!ProtocolInv'
  <2>. SUFFICES ASSUME SchedulerInv, UNCHANGED vars PROVE LocalInv' /\ Protocol!ProtocolInv'
    BY SMTT(30)
  <2>1. LocalInv'
    BY InvLocal, Zenon DEF vars, kernelVars, shellVars, LocalInv, LocalTypes, Placed, Live,
       ContextNoneIffRunning, ModeInv, ShellInv, AddressInv
  <2>2. UNCHANGED Protocol!vars
    BY DEF Protocol!vars, vars, kernelVars, shellVars, Requested, Live
  <2>. QED BY <2>1, <2>2, <1>2, ProtocolKept DEF ProtocolStep
<1>. QED BY <1>1, <1>3, <1>4, PTL

\* No handler loses or duplicates a process, resumes one without a saved context,
\* or lets the requests and the order of `blocked` drift apart, for any number of
\* processes that the rings have room for.
THEOREM SchedulerCorrect == Spec => []SchedulerInv
BY InitSchedulerInv, StepSchedulerInv, PTL DEF Spec

\* The scheduler, with preemption, spin locks and two-step requests, implements
\* the request protocol of ShellProtocol.
THEOREM ProtocolImplemented == Spec => ImplementsProtocol
<1>1. Init => Protocol!Init
  BY InitLocal
<1>2. SchedulerInv /\ [Next]_vars => [Protocol!Next]_(Protocol!vars)
  <2>1. SchedulerInv /\ Next => [Protocol!Next]_(Protocol!vars)
    BY StepLocal DEF ProtocolStep
  <2>2. UNCHANGED vars => UNCHANGED Protocol!vars
    BY DEF Protocol!vars, vars, kernelVars, shellVars, Requested, Live
  <2>. QED BY <2>1, <2>2
<1>. QED BY <1>1, <1>2, SchedulerCorrect, PTL DEF Spec, ImplementsProtocol, Protocol!Spec

\* exit_interrupt_handler and block_current leave an address space before its
\* process is dropped, and user code runs in its own one.
THEOREM SpaceStaysLive == Spec => []ActiveSpaceIsLive
<1>1. Init => ActiveSpaceIsLive
  BY SMTT(30) DEF Init, ActiveSpaceIsLive
<1>2. SchedulerInv /\ SchedulerInv' /\ ActiveSpaceIsLive /\ [Next]_vars => ActiveSpaceIsLive'
  <2>1. ActiveSpaceIsLive /\ UNCHANGED vars => ActiveSpaceIsLive'
    BY DEF vars, kernelVars, ActiveSpaceIsLive, Live
  <2>. QED BY <2>1, SpaceStep, SMTT(30)
<1>. QED BY <1>1, <1>2, SchedulerCorrect, PTL DEF Spec

\* The answer that schedule_next applies to the front of `blocked` carries the
\* address on which that very process faulted.
THEOREM GrantsMatch == Spec => []GrantMatchesFault
<1>1. SchedulerInv => GrantMatchesFault
  BY FrontMessage DEF GrantMatchesFault
<1>. QED BY <1>1, SchedulerCorrect, PTL

\* schedule_next picks the idle process only when the run queue has no other one.
THEOREM IdleLast == Spec => IdleOnlyWhenNothingReady
<1>1. SchedulerInv /\ [Next]_vars
        => [mode = "schedule" /\ current = None /\ current' = IdleId
              => queue'.Normal = <<>>]_vars
  BY IdleStep
<1>. QED BY <1>1, SchedulerCorrect, PTL DEF Spec, IdleOnlyWhenNothingReady

\* No handler but the one of an AllowModuleAccess maps a module into a process
\* under AccessPolicy::Normal, and that one unblocks it.
THEOREM NormalGains == Spec => NormalGainsOnlyWhenBlocked
<1>1. SchedulerInv /\ [Next]_vars
        => [\A p \in AppIds :
              ~(mapped'[p] \subseteq mapped[p]) => p \in Range(blocked) \ Range(blocked')]_vars
  BY GainStep
<1>. QED BY <1>1, SchedulerCorrect, PTL DEF Spec, NormalGainsOnlyWhenBlocked
=============================================================================
