--------------------------- MODULE ShellProtocol ---------------------------
(***************************************************************************)
(* The request protocol between the kernel and the shell, without the      *)
(* scheduling around it.  A process with AccessPolicy::Normal that touches *)
(* a module it has not been granted is put at the back of                  *)
(* Scheduler::blocked and a request is pushed on ShellQueue::input.  The   *)
(* shell answers requests one by one on ShellQueue::output, and each       *)
(* answer is applied to whatever process is at the FRONT of `blocked`:     *)
(* nothing but the order of three queues ties an answer to its process.    *)
(* Scheduler.tla is the detailed specification that implements this one.   *)
(***************************************************************************)
EXTENDS SizedQueue, Sequences, FiniteSets

CONSTANTS NumApps,  \* how many StartProcess messages the shell sends
          Answers   \* the answers the shell gives: the repository's shell only
                    \* ever allows, the message type also has ExitProcess

\* More processes than slots could overwrite a request that nobody has read.
ASSUME CapacityAssumption == NumApps \in Nat /\ NumApps <= SIZE

ASSUME AnswersAssumption ==
  Answers \subseteq {"AllowModuleAccess", "ExitProcess"} /\ Answers # {}

ShellId == 1
AppIds == ShellId + 1 .. ShellId + NumApps

\* Messages of ShellOutput.  ExitProcess carries no process id in the code; the
\* field is there to say which request it answers, and the kernel ignores it.
Messages == [kind : {"StartProcess", "AllowModuleAccess", "ExitProcess"},
             process_id : AppIds \cup {0}]

ASSUME NoneAssumption == None \notin AppIds /\ None \notin Messages

VARIABLES
  input,    \* ShellQueue::input, requests as the ids of their processes
  output,   \* ShellQueue::output
  blocked,  \* Scheduler::blocked, process ids
  ready,    \* the started processes that run or wait in a run queue
  hand,     \* the request the shell has popped and not answered yet
  unsent,   \* how many StartProcess messages the shell still has to send
  next_id   \* PROCESS_ID

vars == <<input, output, blocked, ready, hand, unsent, next_id>>

StartProcess == [kind |-> "StartProcess", process_id |-> 0]
Answer(kind, p) == [kind |-> kind, process_id |-> p]

Init ==
  /\ input = NewQueue
  /\ output = NewQueue
  /\ blocked = <<>>
  /\ ready = {}
  /\ hand = None
  /\ unsent = NumApps
  /\ next_id = ShellId + 1
-----------------------------------------------------------------------------
(* The shell.                                                               *)

\* Before its main loop: QUEUE.output.lock().push(StartProcess { .. }).
SendStart ==
  /\ unsent > 0
  /\ output' = Push(output, StartProcess)
  /\ unsent' = unsent - 1
  /\ UNCHANGED <<input, blocked, ready, hand, next_id>>

\* while let Some(input) = QUEUE.input.lock().pop()
TakeRequest ==
  /\ unsent = 0
  /\ hand = None
  /\ Front(input) # None
  /\ hand' = Front(input)
  /\ input' = Pop(input)
  /\ UNCHANGED <<output, blocked, ready, unsent, next_id>>

\* QUEUE.output.lock().push(AllowModuleAccess { addr, process_id })
SendAnswer ==
  /\ hand # None
  /\ \E kind \in Answers : output' = Push(output, Answer(kind, hand))
  /\ hand' = None
  /\ UNCHANGED <<input, blocked, ready, unsent, next_id>>
-----------------------------------------------------------------------------
(* The kernel.                                                              *)

\* Scheduler::block_current
BlockCurrent(p) ==
  /\ p \in ready
  /\ ready' = ready \ {p}
  /\ blocked' = Append(blocked, p)
  /\ input' = Push(input, p)
  /\ UNCHANGED <<output, hand, unsent, next_id>>

\* The exit interrupt.
Exit(p) ==
  /\ p \in ready
  /\ ready' = ready \ {p}
  /\ UNCHANGED <<input, output, blocked, hand, unsent, next_id>>

\* Scheduler::schedule_next, StartProcess: run_user_process takes the next id.
OutputStart ==
  /\ Front(output) # None /\ Front(output).kind = "StartProcess"
  /\ output' = Pop(output)
  /\ ready' = ready \cup {next_id}
  /\ next_id' = next_id + 1
  /\ UNCHANGED <<input, blocked, hand, unsent>>

\* schedule_next, AllowModuleAccess: the front of `blocked` goes back to the run
\* queue, or is dropped when the module cannot be mapped into it.  The guard is
\* the code's assert_eq!(process_id, process.id).
OutputAllow ==
  /\ Front(output) # None /\ Front(output).kind = "AllowModuleAccess"
  /\ blocked # <<>> /\ Head(blocked) = Front(output).process_id
  /\ output' = Pop(output)
  /\ blocked' = Tail(blocked)
  /\ \/ ready' = ready \cup {Head(blocked)}
     \/ ready' = ready
  /\ UNCHANGED <<input, hand, unsent, next_id>>

\* Mutant: blocked.pop_back.
OutputExitLast ==
  /\ Front(output) # None /\ Front(output).kind = "ExitProcess"
  /\ blocked # <<>>
  /\ output' = Pop(output)
  /\ blocked' = SubSeq(blocked, 1, Len(blocked) - 1)
  /\ UNCHANGED <<input, ready, hand, unsent, next_id>>

\* schedule_next, ExitProcess: the front of `blocked`, whoever it is, is dropped.
OutputExit ==
  /\ Front(output) # None /\ Front(output).kind = "ExitProcess"
  /\ blocked # <<>>
  /\ output' = Pop(output)
  /\ blocked' = Tail(blocked)
  /\ UNCHANGED <<input, ready, hand, unsent, next_id>>

Next ==
  \/ SendStart \/ TakeRequest \/ SendAnswer
  \/ \E p \in AppIds : BlockCurrent(p) \/ Exit(p)
  \/ OutputStart \/ OutputAllow \/ OutputExit

Spec == Init /\ [][Next]_vars
-----------------------------------------------------------------------------
TypeOK ==
  /\ input \in Queues(AppIds)
  /\ output \in Queues(Messages)
  /\ blocked \in Seq(AppIds)
  /\ ready \in SUBSET AppIds
  /\ hand \in AppIds \cup {None}
  /\ unsent \in 0 .. NumApps
  /\ next_id \in ShellId + 1 .. ShellId + 1 + NumApps

\* StartProcess messages in `output`: sent and not yet turned into a process.
\* They are all older than any answer.
StartsQueued == (NumApps - unsent) - (next_id - (ShellId + 1))

AnswersQueued == Count(output) - StartsQueued

InHand == IF hand = None THEN 0 ELSE 1

\* An answer that schedule_next is about to apply belongs to the process at the
\* front of `blocked`: the assert_eq!(process_id, process.id) and both
\* .expect("shell output should correspond to a blocked process") of
\* Scheduler::schedule_next never fire, and an ExitProcess, which names nobody,
\* drops the process whose request the shell denied.
AnswerMatchesFront ==
  Front(output) # None /\ Front(output).kind # "StartProcess"
    => blocked # <<>> /\ Head(blocked) = Front(output).process_id

\* SizedQueue::push, which does not look before it writes, never overwrites a
\* message: whoever may push next finds the slot under the push cursor free.
NoOverwrite ==
  /\ ready # {} => input.inner[input.push_cursor] = None
  /\ unsent > 0 \/ hand # None => output.inner[output.push_cursor] = None

\* Block, answer and start never duplicate a process: a process is in at most
\* one place, at most once, and an id the PROCESS_ID counter has not reached yet
\* is nowhere.
OnePlace ==
  /\ \A i, j \in 1 .. Len(blocked) : blocked[i] = blocked[j] => i = j
  /\ \A i \in 1 .. Len(blocked) : blocked[i] \notin ready /\ blocked[i] < next_id
  /\ \A p \in ready : p < next_id

\* The order of `blocked` is the order of the requests, wherever these are:
\* answered and still in `output`, then in the shell's hand, then in `input`.
RequestOrder ==
  /\ StartsQueued \in 0 .. Count(output)
  /\ unsent > 0 => AnswersQueued = 0 /\ hand = None
  /\ Len(blocked) = AnswersQueued + InHand + Count(input)
  /\ \A i \in 1 .. StartsQueued : Contents(output)[i].kind = "StartProcess"
  /\ \A i \in 1 .. AnswersQueued :
       /\ Contents(output)[StartsQueued + i].kind # "StartProcess"
       /\ Contents(output)[StartsQueued + i].process_id = blocked[i]
  /\ hand # None => blocked[AnswersQueued + 1] = hand
  /\ \A i \in 1 .. Count(input) :
       Contents(input)[i] = blocked[AnswersQueued + InHand + i]

\* Every process that was started and not dropped is ready or blocked, so there
\* are never more blocked processes than started ones.
Population ==
  Len(blocked) + Cardinality(ready) <= next_id - (ShellId + 1)

\* The inductive invariant: the queues carry the requests in the order of
\* `blocked`, and there are too few processes to fill a ring.
ProtocolInv == TypeOK /\ RequestOrder /\ Population /\ OnePlace
=============================================================================
