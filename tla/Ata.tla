-------------------------------- MODULE Ata --------------------------------
(***************************************************************************)
(* The ATA driver (drivers/ata/src/ata.rs) on one bus with up to two       *)
(* drives.  The driver polls with a timeout of a second; the drives answer *)
(* in time, late or never, so that an answer may come when nobody waits    *)
(* for it any more.  A block is one unit of data.                          *)
(***************************************************************************)
EXTENDS Integers, Sequences

CONSTANTS Blocks,    \* block numbers that are read from
          MaxCount,  \* bound: blocks in one buffer
          MaxCalls   \* bound: calls of the driver

ASSUME AtaAssumption == Blocks \subseteq Nat /\ MaxCount \in Nat /\ MaxCalls \in Nat

Drives == {0, 1}
Unselected == 2   \* selected_drive: None
DriveBit == 268435456  \* 2^28, the bit of a block number that meets the drive's bit

VARIABLES
  kinds,     \* what is at each drive: "pata", "other" (ATAPI or SATA) or "absent"
  register,  \* the drive that the drive register selects
  controller, \* the controller: its state and the command it works on or answers
  selected,  \* Bus::selected_drive
  at,        \* where the driver is; "free" between two calls
  call,      \* the call: identify_drive or read_blocks and its arguments
  units,     \* what was read: the drive and block each unit came from
  opened,    \* drives that enumerate_drives returned
  result,    \* of the last call
  calls      \* number of calls so far

ataVars == <<kinds, register, controller, selected, at, call, units, opened, result, calls>>

NoJob == [drive |-> Unselected, block |-> 0, command |-> "none"]
Quiet == [state |-> "ready", job |-> NoJob]
NoCall == [command |-> "none", drive |-> 0, block |-> 0, count |-> 0]

AtaInit ==
  /\ kinds \in [Drives -> {"pata", "other", "absent"}]
  /\ register \in Drives /\ controller = Quiet
  /\ selected = Unselected /\ at = "free" /\ call = NoCall
  /\ units = <<>> /\ opened = {} /\ result = "none" /\ calls = 0

-----------------------------------------------------------------------------
(* The status register: all bits are set when the bus floats, none for a     *)
(* drive that is not there.                                                  *)
Floating == \A d \in Drives : kinds[d] = "absent"
There == kinds[register] # "absent"
Busy == Floating \/ (There /\ controller.state = "busy")
DataRequest == Floating \/ (There /\ controller.state = "data")
Error == Floating \/ (There /\ controller.state = "failed")

(* The drive works on a command until it has an answer or an error, and may   *)
(* never come to an end.                                                      *)
DeviceAnswers ==
  /\ controller.state = "busy"
  /\ \E s \in {"data", "failed"} : controller' = [controller EXCEPT !.state = s]
  /\ UNCHANGED <<kinds, register, selected, at, call, units, opened, result, calls>>

(* A command written while the controller is busy or has data is ignored.     *)
Accept(job) ==
  IF kinds[job.drive] # "absent" /\ controller.state \in {"ready", "failed"}
  THEN [state |-> "busy", job |-> job] ELSE controller

-----------------------------------------------------------------------------
Return(how) ==
  /\ at' = "free" /\ result' = how
  /\ UNCHANGED <<kinds, register, controller, selected, call, units, opened, calls>>

Goto(next) ==
  /\ at' = next
  /\ UNCHANGED <<kinds, register, controller, selected, call, units, opened, result, calls>>

Begin(command, drive, block, count, next) ==
  /\ at = "free" /\ calls < MaxCalls /\ calls' = calls + 1
  /\ call' = [command |-> command, drive |-> drive, block |-> block, count |-> count]
  /\ units' = <<>> /\ at' = next /\ result' = "none"
  /\ UNCHANGED <<kinds, register, controller, selected, opened>>

(* enumerate_drives: Drive::open for each drive                               *)
Open == \E drive \in Drives : Begin("identify", drive, 0, 1, "floating")

(* read_blocks on a drive that was opened; a length that is not a number of   *)
(* blocks is refused before anything happens.                                 *)
ReadBlocks ==
  \E drive \in opened, block \in Blocks, count \in 1 .. MaxCount :
    Begin("read", drive, block, count, "idle")

ReadPartOfBlock ==
  /\ at = "free" /\ opened # {} /\ calls < MaxCalls /\ calls' = calls + 1
  /\ result' = "invalid" /\ call' = NoCall /\ units' = <<>>
  /\ UNCHANGED <<kinds, register, controller, selected, at, opened>>

(* identify_drive: the floating bus                                           *)
CheckFloating == at = "floating" /\ IF Floating THEN Return("none") ELSE Goto("idle")

\* Mutant: polling has no timeout.
HangupNever(check) == FALSE

(* poll: a second has passed and the status is still not as wanted.           *)
Hangup(check) == ~check

Poll(here, check, next) ==
  /\ at = here
  /\ \/ check /\ Goto(next)
     \/ Hangup(check) /\ Return("hangup")

(* select_drive polls before and after it writes the register; the cache is   *)
(* set before either.                                                         *)
PollIdle == Poll("idle", ~Busy, "undrained")

\* Mutant: select_drive does not look for data that is still there.
PollUndrainedNot == Poll("undrained", TRUE, "select")

PollUndrained == Poll("undrained", ~DataRequest, "select")
Select ==
  /\ at = "select"
  /\ IF selected = call.drive THEN at' = "command" /\ UNCHANGED <<selected, register>>
     ELSE at' = "selected" /\ selected' = call.drive /\ register' = call.drive
  /\ UNCHANGED <<kinds, controller, call, units, opened, result, calls>>
PollSelected == Poll("selected", ~Busy, "selected2")
PollSelected2 == Poll("selected2", ~DataRequest, "command")

(* write_command: the drive register has bits 24 to 27 of the block number,   *)
(* but bits 28 to 31 are not masked out.                                      *)
NextBlock == call.block + Len(units)
DriveRegister(drive, block) == IF (block \div DriveBit) % 2 = 1 THEN 1 ELSE drive
WriteCommand ==
  /\ at = "command"
  /\ LET drive == DriveRegister(call.drive, NextBlock)
     IN  /\ register' = drive
         /\ controller' = Accept([drive |-> drive, block |-> NextBlock % DriveBit,
                              command |-> call.command])
  /\ at' = "exists"
  /\ UNCHANGED <<kinds, selected, call, units, opened, result, calls>>

CheckExists ==
  at = "exists" /\ IF There THEN Goto("accepted") ELSE Return("absent")
CheckAccepted ==
  at = "accepted" /\ IF Error THEN Return("failed") ELSE Goto("worked")
PollWorked == Poll("worked", ~Busy, "ready")
PollReady == Poll("ready", DataRequest, "data")

(* The data register gives the answer of the command the controller has; then *)
(* it is ready for another, or reports an error after all.                    *)
ReadData ==
  /\ at = "data" /\ (call.command = "read" \/ kinds[register] = "pata")
  /\ units' = Append(units, controller.job)
  /\ \E s \in {"ready", "failed"} : controller' = [controller EXCEPT !.state = s]
  /\ at' = "end"
  /\ UNCHANGED <<kinds, register, selected, call, opened, result, calls>>

(* ATAPI and SATA drives are told by their signature, and their answer is not *)
(* read.                                                                      *)
OtherSignature ==
  at = "data" /\ call.command = "identify" /\ kinds[register] # "pata" /\ Return("other")

(* read looks at the error bit, identify_drive does not; read_blocks goes on  *)
(* with the next block.                                                       *)
Finish ==
  /\ at = "end"
  /\ IF call.command = "identify"
     THEN /\ opened' = opened \union {call.drive} /\ at' = "free" /\ result' = "ok"
          /\ UNCHANGED <<kinds, register, controller, selected, call, units, calls>>
     ELSE IF Error THEN Return("failed")
     ELSE IF Len(units) < call.count THEN Goto("idle")
     ELSE Return("ok")

Driver ==
  \/ CheckFloating \/ PollIdle \/ PollUndrained \/ Select \/ PollSelected \/ PollSelected2
  \/ WriteCommand \/ CheckExists \/ CheckAccepted \/ PollWorked \/ PollReady \/ ReadData
  \/ OtherSignature \/ Finish

AtaNext == Open \/ ReadBlocks \/ ReadPartOfBlock \/ Driver \/ DeviceAnswers

AtaSpec == AtaInit /\ [][AtaNext]_ataVars

-----------------------------------------------------------------------------
(* What a call returns is the answer to its own command, block by block, also *)
(* after a call that gave up waiting and was answered later; for block        *)
(* numbers that leave the bit of the drive alone.                             *)
AnswersAreOwn ==
  result = "ok" /\ call.block + call.count <= DriveBit =>
    /\ Len(units) = call.count
    /\ \A i \in 1 .. call.count :
         units[i] = [drive |-> call.drive, block |-> call.block + i - 1, command |-> call.command]

(* Every call returns, also when the drive never does.                        *)
CallsReturn == at # "free" ~> at = "free"
=============================================================================
