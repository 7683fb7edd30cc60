---------------------------- MODULE DriversProofs ----------------------------
(***************************************************************************)
(* The drivers against their hardware: what the ATA driver returns, what   *)
(* opening a virtio device finds, what the clock showed, and what the PCI  *)
(* iterator returns.                                                       *)
(***************************************************************************)
EXTENDS Ata, Rtc, Pci, Capabilities, WellFoundedInduction, TLAPS

-----------------------------------------------------------------------------
(* ATA.  A controller that works on a command or holds data is one that the  *)
(* selected drive shows, so that the polls of select_drive see it; after     *)
(* them it takes the command, and what it answers is that command.           *)

Jobs == [drive : Nat, block : Nat, command : {"none", "identify", "read"}]

AtaTypes ==
  /\ kinds \in [Drives -> {"pata", "other", "absent"}] /\ register \in Drives
  /\ controller \in [state : {"ready", "busy", "data", "failed"}, job : Jobs]
  /\ call \in [command : {"none", "identify", "read"}, drive : Drives, block : Nat, count : Nat]
  /\ units \in Seq(Jobs) /\ opened \in SUBSET Drives

\* The polls from select_drive on have seen the controller idle.
IdleSeen ==
  /\ controller.state \in {"busy", "data"} => kinds[register] # "absent"
  /\ at = "undrained" => controller.state # "busy"
  /\ at \in {"select", "selected", "selected2", "command"} => controller.state \in {"ready", "failed"}

\* From the command on the drive that the register selects works on it.
CommandTaken ==
  /\ at \in {"exists", "accepted", "worked", "ready", "data"} =>
       /\ register = DriveRegister(call.drive, NextBlock)
       /\ kinds[register] # "absent" =>
            controller.job = [drive |-> register, block |-> NextBlock % DriveBit,
                              command |-> call.command]
  /\ at \in {"accepted", "worked", "ready", "data"} => kinds[register] # "absent"

\* What was read so far.
UnitsOwn ==
  /\ at \notin {"free", "end"} => Len(units) < call.count
  /\ at = "end" => Len(units) \in 1 .. call.count
  /\ call.command = "identify" => call.count = 1
  /\ result = "ok" => at = "free" /\ Len(units) = call.count
  /\ call.block + call.count <= DriveBit =>
       \A i \in 1 .. Len(units) :
         units[i] = [drive |-> call.drive, block |-> call.block + i - 1, command |-> call.command]

AtaInv == AtaTypes /\ IdleSeen /\ CommandTaken /\ UnitsOwn

\* At the start the bus is quiet and no call is under way.
LEMMA AtaStarts == AtaInit => AtaInv
BY AtaAssumption DEF AtaInit, AtaInv, AtaTypes, IdleSeen, CommandTaken, UnitsOwn, Jobs, Quiet,
   NoJob, NoCall, Drives, Unselected

\* A call that ends without an answer.
LEMMA AtaReturns == ASSUME AtaInv, NEW how, how # "ok", Return(how) PROVE AtaInv'
<1>1. /\ at' = "free" /\ result' # "ok"
      /\ UNCHANGED <<kinds, register, controller, call, units, opened>>
  BY DEF Return
<1>2. AtaTypes'
  BY <1>1 DEF AtaInv, AtaTypes
<1>3. IdleSeen' /\ CommandTaken'
  BY <1>1 DEF AtaInv, IdleSeen, CommandTaken
<1>4. UnitsOwn'
  BY <1>1, Zenon DEF AtaInv, UnitsOwn
<1>. QED BY <1>2, <1>3, <1>4 DEF AtaInv

\* A step to the next place, where the status was as wanted.
LEMMA AtaGoes ==
  ASSUME AtaInv, result # "ok", Len(units) < call.count,
         NEW next \in {"idle", "undrained", "select", "selected2", "command", "accepted",
                       "worked", "ready", "data"}, Goto(next),
         next = "undrained" => controller.state # "busy",
         next \in {"select", "selected2", "command"} => controller.state \in {"ready", "failed"},
         next \in {"accepted", "worked", "ready", "data"} =>
           at \in {"exists", "accepted", "worked", "ready", "data"} /\ kinds[register] # "absent"
  PROVE  AtaInv'
<1>1. at' = next /\ UNCHANGED <<kinds, register, controller, call, units, opened, result>>
  BY DEF Goto
<1>2. AtaTypes'
  BY <1>1 DEF AtaInv, AtaTypes
<1>3. IdleSeen'
  BY <1>1 DEF AtaInv, IdleSeen
<1>4. CommandTaken'
  BY <1>1 DEF AtaInv, CommandTaken, NextBlock
<1>5. UnitsOwn'
  BY <1>1 DEF AtaInv, UnitsOwn
<1>. QED BY <1>2, <1>3, <1>4, <1>5 DEF AtaInv

\* What the polls of the driver see of the controller.
LEMMA StatusShows ==
  ASSUME AtaInv, kinds[register] # "absent" \/ ~Busy
  PROVE  /\ ~Floating
         /\ Busy <=> controller.state = "busy"
         /\ DataRequest <=> controller.state = "data"
<1>1. register \in Drives
  BY DEF AtaInv, AtaTypes
<1>2. ~Floating
  BY <1>1 DEF Busy, Floating
<1>. QED BY <1>2 DEF AtaInv, IdleSeen, Busy, DataRequest, There

\* The beginning of a call.
LEMMA AtaBegins ==
  ASSUME AtaInv, NEW command \in {"identify", "read"}, NEW drive \in Drives, NEW block \in Nat,
         NEW count \in Nat \ {0}, NEW next \in {"floating", "idle"},
         command = "identify" => count = 1, Begin(command, drive, block, count, next)
  PROVE  AtaInv'
<1>1. /\ call' = [command |-> command, drive |-> drive, block |-> block, count |-> count]
      /\ units' = <<>> /\ at' = next /\ result' = "none"
      /\ UNCHANGED <<kinds, register, controller, selected, opened>>
  BY DEF Begin
<1>2. AtaTypes'
  BY <1>1 DEF AtaInv, AtaTypes
<1>3. IdleSeen' /\ CommandTaken'
  BY <1>1 DEF AtaInv, IdleSeen, CommandTaken
<1>4. UnitsOwn'
  BY <1>1 DEF UnitsOwn
<1>. QED BY <1>2, <1>3, <1>4 DEF AtaInv

\* Bus::write_command: the controller is idle and takes the command.
LEMMA CommandWritten == ASSUME AtaInv, WriteCommand PROVE AtaInv'
<1>1. PICK d, job : /\ d = DriveRegister(call.drive, NextBlock)
                    /\ job = [drive |-> d, block |-> NextBlock % DriveBit, command |-> call.command]
  BY Zenon
<1>2. /\ at = "command" /\ at' = "exists" /\ register' = d
      /\ controller' = IF kinds[d] # "absent" /\ controller.state \in {"ready", "failed"}
                       THEN [state |-> "busy", job |-> job] ELSE controller
      /\ UNCHANGED <<kinds, selected, call, units, opened, result, calls>>
  BY <1>1 DEF WriteCommand, Accept
<1>3. controller.state \in {"ready", "failed"}
  BY <1>2 DEF AtaInv, IdleSeen
<1>4. NextBlock \in Nat /\ NextBlock % DriveBit \in Nat /\ d \in Drives /\ d \in Nat
  <2>1. NextBlock \in Nat /\ call.drive \in Drives
    BY DEF AtaInv, AtaTypes, NextBlock
  <2>. QED BY <2>1, <1>1 DEF DriveBit, DriveRegister, Drives
<1>5. job \in Jobs
  BY <1>1, <1>4 DEF Jobs, AtaInv, AtaTypes
<1>6. AtaTypes'
  BY <1>2, <1>4, <1>5 DEF AtaInv, AtaTypes
<1>7. IdleSeen'
  BY <1>2, <1>3, <1>6 DEF IdleSeen, AtaTypes
<1>8. CommandTaken'
  <2>1. NextBlock' = NextBlock
    BY <1>2 DEF NextBlock
  <2>2. kinds[d] # "absent" => controller'.job = job
    BY <1>2, <1>3
  <2>. QED BY <1>1, <1>2, <2>1, <2>2 DEF CommandTaken
<1>9. UnitsOwn'
  BY <1>2 DEF AtaInv, UnitsOwn
<1>. QED BY <1>6, <1>7, <1>8, <1>9 DEF AtaInv

\* The data register: the unit read is the answer to the block asked for.
LEMMA DataRead == ASSUME AtaInv, ReadData PROVE AtaInv'
<1>1. /\ at = "data" /\ at' = "end" /\ units' = Append(units, controller.job)
      /\ UNCHANGED <<kinds, register, selected, call, opened, result, calls>>
  BY DEF ReadData
<1>2. PICK s \in {"ready", "failed"} : controller' = [controller EXCEPT !.state = s]
  BY DEF ReadData
<1>3. /\ controller.job \in Jobs /\ units \in Seq(Jobs) /\ call.block \in Nat /\ call.count \in Nat
      /\ call.drive \in Drives /\ Len(units) \in Nat /\ Len(units) < call.count
      /\ controller'.state \in {"ready", "failed"}
  BY <1>1, <1>2 DEF AtaInv, AtaTypes, UnitsOwn
<1>4. /\ units' \in Seq(Jobs) /\ Len(units') = Len(units) + 1
      /\ units'[Len(units) + 1] = controller.job
      /\ \A i \in 1 .. Len(units) : units'[i] = units[i]
  BY <1>1, <1>3
<1>5. AtaTypes'
  BY <1>1, <1>2, <1>4 DEF AtaInv, AtaTypes
<1>6. IdleSeen' /\ CommandTaken'
  BY <1>1, <1>3 DEF IdleSeen, CommandTaken
<1>7. ASSUME call.block + call.count <= DriveBit
      PROVE  controller.job = [drive |-> call.drive, block |-> call.block + Len(units),
                               command |-> call.command]
  <2>1. NextBlock \in Nat /\ NextBlock < DriveBit /\ NextBlock = call.block + Len(units)
    BY <1>3, <1>7 DEF NextBlock, DriveBit
  <2>2. NextBlock % DriveBit = NextBlock /\ DriveRegister(call.drive, NextBlock) = call.drive
    BY <2>1 DEF DriveBit, DriveRegister
  <2>. QED BY <1>1, <2>1, <2>2 DEF AtaInv, CommandTaken
<1>8. UnitsOwn'
  <2>1. ASSUME call.block + call.count <= DriveBit, NEW i \in 1 .. Len(units) + 1
        PROVE  units'[i] = [drive |-> call.drive, block |-> call.block + i - 1,
                            command |-> call.command]
    <3>1. CASE i = Len(units) + 1
      <4>1. call.block + i - 1 = call.block + Len(units)
        BY <3>1, <1>3
      <4>. QED BY <2>1, <3>1, <4>1, <1>4, <1>7
    <3>2. CASE i \in 1 .. Len(units)
      BY <2>1, <3>2, <1>4, Zenon DEF AtaInv, UnitsOwn
    <3>. QED BY <1>3, <3>1, <3>2
  <2>2. result # "ok" /\ result' = result /\ call' = call
    BY <1>1 DEF AtaInv, UnitsOwn
  <2>3. call.command = "identify" => call.count = 1
    BY DEF AtaInv, UnitsOwn
  <2>. QED BY <2>1, <2>2, <2>3, <1>1, <1>3, <1>4 DEF UnitsOwn
<1>. QED BY <1>5, <1>6, <1>8 DEF AtaInv

\* Bus::select_drive: the register moves only while the controller is idle.
LEMMA DriveSelected == ASSUME AtaInv, Select PROVE AtaInv'
<1>1. /\ at = "select" /\ at' \in {"command", "selected"}
      /\ register' \in {register, call.drive}
      /\ UNCHANGED <<kinds, controller, call, units, opened, result, calls>>
  BY DEF Select
<1>2. controller.state \in {"ready", "failed"} /\ call.drive \in Drives /\ register \in Drives
  BY <1>1 DEF AtaInv, IdleSeen, AtaTypes
<1>3. AtaTypes'
  BY <1>1, <1>2 DEF AtaInv, AtaTypes
<1>4. IdleSeen' /\ CommandTaken'
  BY <1>1, <1>2 DEF IdleSeen, CommandTaken
<1>5. UnitsOwn'
  BY <1>1 DEF AtaInv, UnitsOwn
<1>. QED BY <1>3, <1>4, <1>5 DEF AtaInv

\* The end of Drive::open, or of one block of read_blocks.
LEMMA CallFinished == ASSUME AtaInv, Finish PROVE AtaInv'
<1>1. /\ at = "end" /\ UNCHANGED <<kinds, register, controller, call, units>>
      /\ Len(units) \in 1 .. call.count /\ call.count \in Nat
      /\ opened' \in SUBSET Drives /\ result # "ok"
  BY DEF Finish, Return, Goto, AtaInv, AtaTypes, UnitsOwn
<1>2. CASE at' = "free" /\ Len(units) = call.count
  <2>1. AtaTypes' /\ IdleSeen' /\ CommandTaken'
    BY <1>1, <1>2 DEF AtaInv, AtaTypes, IdleSeen, CommandTaken
  <2>2. UnitsOwn'
    BY <1>1, <1>2, Zenon DEF AtaInv, UnitsOwn
  <2>. QED BY <2>1, <2>2 DEF AtaInv
<1>3. CASE Return("failed")
  BY <1>3, AtaReturns
<1>4. CASE Len(units) < call.count /\ Goto("idle")
  BY <1>1, <1>4, AtaGoes
<1>5. call.command = "identify" => call.count = 1
  BY DEF AtaInv, UnitsOwn
<1>6. ~(Len(units) < call.count) => Len(units) = call.count
  BY <1>1
<1>7. call.command = "identify" => Len(units) = call.count
  BY <1>1, <1>5
<1>. QED BY <1>2, <1>3, <1>4, <1>6, <1>7 DEF Finish, Return

\* Every step of the driver and of the drives keeps the invariant.
LEMMA AtaKept == AtaInv /\ [AtaNext]_ataVars => AtaInv'
<1>. SUFFICES ASSUME AtaInv, [AtaNext]_ataVars PROVE AtaInv'
  OBVIOUS
<1>1. CASE Open
  BY <1>1, AtaBegins DEF Open
<1>2. CASE ReadBlocks
  <2>1. PICK drive \in opened, block \in Blocks, count \in 1 .. MaxCount :
          Begin("read", drive, block, count, "idle")
    BY <1>2 DEF ReadBlocks
  <2>2. drive \in Drives /\ block \in Nat /\ count \in Nat \ {0}
    BY AtaAssumption DEF AtaInv, AtaTypes
  <2>. QED BY <2>1, <2>2, AtaBegins
<1>3. CASE ReadPartOfBlock
  <2>1. /\ at = "free" /\ at' = "free" /\ result' = "invalid" /\ call' = NoCall /\ units' = <<>>
        /\ UNCHANGED <<kinds, register, controller, opened>>
    BY <1>3 DEF ReadPartOfBlock
  <2>2. AtaTypes' /\ IdleSeen' /\ CommandTaken'
    BY <2>1 DEF AtaInv, AtaTypes, IdleSeen, CommandTaken, NoCall, Drives
  <2>3. UnitsOwn'
    BY <2>1 DEF UnitsOwn, NoCall
  <2>. QED BY <2>2, <2>3 DEF AtaInv
<1>0. at \notin {"free", "end"} => result # "ok" /\ Len(units) < call.count
  BY DEF AtaInv, UnitsOwn
<1>4. CASE CheckFloating
  BY <1>0, <1>4, AtaReturns, AtaGoes DEF CheckFloating
<1>5. CASE PollIdle
  <2>1. at = "idle" /\ (Return("hangup") \/ (~Busy /\ Goto("undrained")))
    BY <1>5 DEF PollIdle, Poll
  <2>2. CASE ~Busy /\ Goto("undrained")
    BY <1>0, <2>1, <2>2, AtaGoes, StatusShows
  <2>. QED BY <2>1, <2>2, AtaReturns
<1>6. CASE PollUndrained
  <2>1. at = "undrained" /\ controller.state # "busy"
    BY <1>6 DEF PollUndrained, Poll, AtaInv, IdleSeen
  <2>2. CASE ~DataRequest /\ Goto("select")
    <3>1. controller.state \in {"ready", "failed"}
      BY <2>1, <2>2 DEF AtaInv, AtaTypes, IdleSeen, DataRequest, There
    <3>. QED BY <1>0, <2>1, <2>2, <3>1, AtaGoes
  <2>. QED BY <1>6, <2>2, AtaReturns DEF PollUndrained, Poll
<1>7. CASE Select
  BY <1>7, DriveSelected
<1>8. CASE PollSelected
  <2>1. /\ at = "selected" /\ controller.state \in {"ready", "failed"}
        /\ Return("hangup") \/ Goto("selected2")
    BY <1>8 DEF PollSelected, Poll, AtaInv, IdleSeen
  <2>. QED BY <1>0, <2>1, AtaReturns, AtaGoes
<1>9. CASE PollSelected2
  <2>1. /\ at = "selected2" /\ controller.state \in {"ready", "failed"}
        /\ Return("hangup") \/ Goto("command")
    BY <1>9 DEF PollSelected2, Poll, AtaInv, IdleSeen
  <2>. QED BY <1>0, <2>1, AtaReturns, AtaGoes
<1>10. CASE WriteCommand
  BY <1>10, CommandWritten
<1>11. CASE CheckExists
  <2>1. at = "exists" /\ (Return("absent") \/ (kinds[register] # "absent" /\ Goto("accepted")))
    BY <1>11 DEF CheckExists, There
  <2>. QED BY <1>0, <2>1, AtaReturns, AtaGoes
<1>12. at \in {"accepted", "worked", "ready", "data"} => kinds[register] # "absent"
  BY DEF AtaInv, CommandTaken
<1>13. CASE CheckAccepted \/ PollWorked \/ PollReady \/ OtherSignature
  <2>1. /\ at \in {"accepted", "worked", "ready", "data"}
        /\ \/ \E how \in {"failed", "hangup", "other"} : Return(how)
           \/ \E next \in {"worked", "ready", "data"} : Goto(next)
    BY <1>13 DEF CheckAccepted, PollWorked, PollReady, OtherSignature, Poll
  <2>. QED BY <1>0, <1>12, <2>1, AtaReturns, AtaGoes
<1>14. CASE ReadData
  BY <1>14, DataRead
<1>15. CASE Finish
  BY <1>15, CallFinished
<1>16. CASE DeviceAnswers
  <2>1. /\ UNCHANGED <<kinds, register, selected, at, call, units, opened, result, calls>>
        /\ controller.state = "busy"
    BY <1>16 DEF DeviceAnswers
  <2>2. PICK s \in {"data", "failed"} : controller' = [controller EXCEPT !.state = s]
    BY <1>16 DEF DeviceAnswers
  <2>3. controller'.state = s /\ controller'.job = controller.job /\ NextBlock' = NextBlock
    BY <2>1, <2>2 DEF AtaInv, AtaTypes, NextBlock
  <2>4. AtaTypes'
    BY <2>1, <2>2 DEF AtaInv, AtaTypes
  <2>5. IdleSeen'
    BY <2>1, <2>3 DEF AtaInv, IdleSeen
  <2>6. CommandTaken' /\ UnitsOwn'
    BY <2>1, <2>3 DEF AtaInv, CommandTaken, UnitsOwn
  <2>. QED BY <2>4, <2>5, <2>6 DEF AtaInv
<1>17. CASE UNCHANGED ataVars
  BY <1>17 DEF ataVars, AtaInv, AtaTypes, IdleSeen, CommandTaken, UnitsOwn, NextBlock
<1>. QED BY <1>1, <1>2, <1>3, <1>4, <1>5, <1>6, <1>7, <1>8, <1>9, <1>10, <1>11, <1>13, <1>14,
            <1>15, <1>16, <1>17 DEF AtaNext, Driver

\* read_blocks and Drive::open return the answers to their own commands, whatever
\* call gave up waiting before and was answered later.
THEOREM AtaAnswers == AtaSpec => []AnswersAreOwn
<1>1. AtaInv => AnswersAreOwn
  BY DEF AtaInv, UnitsOwn, AnswersAreOwn
<1>. QED BY <1>1, AtaStarts, AtaKept, PTL DEF AtaSpec

-----------------------------------------------------------------------------
(* Capabilities.  A search has passed over what is before its place in the    *)
(* list, and what an earlier search holds is where its kind is listed.        *)

Before == 1 .. (IF offset = 0 THEN Len(capabilities) ELSE offset - 1)

CapTypes ==
  /\ capabilities \in Seq(CapabilityKinds) /\ sought \in 1 .. 4
  /\ offset \in 0 .. Len(capabilities) /\ held \in [1 .. 4 -> Nat] /\ msix \in BOOLEAN
  /\ opening \in {"opening", "failed", "opened"}

Searching ==
  opening = "opening" =>
    /\ \A m \in Before : Known(capabilities[m]) /\ capabilities[m] # Searches[sought]
    /\ \A n \in 1 .. sought - 1 : held[n] = Listed(Searches[n]) /\ (n <= 2 => held[n] # 0)
    /\ msix

CapInv == CapTypes /\ Searching /\ OpenedAsListed

\* new and initialize look for these four, in this order.
LEMMA FourSearches ==
  /\ DOMAIN Searches = 1 .. 4 /\ Len(Searches) = 4
  /\ Searches[1] = "common" /\ Searches[2] = "notify" /\ Searches[4] = "msix"
BY DEF Searches

\* The first capability of a kind, when those before it are known.
LEMMA ListedHere ==
  ASSUME CapTypes, NEW o \in 1 .. Len(capabilities), NEW kind, capabilities[o] = kind,
         \A m \in 1 .. o : Known(capabilities[m]), \A m \in 1 .. o - 1 : capabilities[m] # kind
  PROVE  Listed(kind) = o
<1>. DEFINE places == {n \in DOMAIN capabilities :
                         capabilities[n] = kind /\ \A m \in 1 .. n : Known(capabilities[m])}
<1>1. DOMAIN capabilities = 1 .. Len(capabilities) /\ Len(capabilities) \in Nat
  BY DEF CapTypes
<1>2. o \in places
  BY <1>1
<1>3. \A n \in places : o <= n
  <2>1. SUFFICES ASSUME NEW n \in places, n < o PROVE FALSE
    BY <1>1
  <2>2. n \in 1 .. o - 1
    BY <1>1, <2>1
  <2>. QED BY <2>1, <2>2
<1>4. \A n \in places : n \in Nat
  BY <1>1
<1>. HIDE DEF places
<1>5. Min(places) = o
  <2>1. PICK x : x = Min(places)
    OBVIOUS
  <2>2. x \in places /\ \A y \in places : x <= y
    BY <1>2, <1>3, <2>1, Zenon DEF Min
  <2>3. x \in Nat /\ x <= o /\ o <= x
    BY <1>2, <1>3, <1>4, <2>2
  <2>. QED BY <2>1, <2>3
<1>. QED BY <1>2, <1>5 DEF Listed, places

\* No capability of a kind before the end, or before one that is not known.
LEMMA ListedNowhere ==
  ASSUME CapTypes, NEW kind, NEW o \in Nat, \A m \in 1 .. o - 1 : capabilities[m] # kind,
         o = Len(capabilities) + 1 \/ (o \in 1 .. Len(capabilities) /\ ~Known(capabilities[o]))
  PROVE  Listed(kind) = 0
<1>1. DOMAIN capabilities = 1 .. Len(capabilities) /\ Len(capabilities) \in Nat
  BY DEF CapTypes
<1>2. ASSUME NEW n \in DOMAIN capabilities, capabilities[n] = kind,
             \A m \in 1 .. n : Known(capabilities[m])
      PROVE  FALSE
  <2>1. n \in 1 .. Len(capabilities) /\ n \notin 1 .. o - 1
    BY <1>1, <1>2
  <2>2. o \in 1 .. Len(capabilities) /\ ~Known(capabilities[o]) /\ o \in 1 .. n
    BY <1>1, <2>1
  <2>. QED BY <1>2, <2>2
<1>. QED BY <1>2 DEF Listed

\* The end of a search that found `place`.
LEMMA SearchEnds ==
  ASSUME CapInv, opening = "opening", NEW place \in Nat, place = Listed(Searches[sought]),
         Searched(place)
  PROVE  CapInv'
<1>1. /\ held' = [held EXCEPT ![sought] = place] /\ offset' = FirstOffset(capabilities)
      /\ opening' = IF place = 0 /\ sought <= 2 THEN "failed"
                    ELSE IF sought = 4 THEN "opened" ELSE "opening"
      /\ sought' = IF opening' = "opening" THEN sought + 1 ELSE sought
      /\ msix' = IF sought = 4 /\ place # 0 THEN FALSE ELSE msix
      /\ capabilities' = capabilities
  BY FourSearches DEF Searched, MsixAfter
<1>2. /\ capabilities \in Seq(CapabilityKinds) /\ sought \in 1 .. 4 /\ held \in [1 .. 4 -> Nat]
      /\ msix = TRUE /\ Len(capabilities) \in Nat
      /\ \A n \in 1 .. sought - 1 : held[n] = Listed(Searches[n]) /\ (n <= 2 => held[n] # 0)
  <2>1. CapTypes /\ Searching
    BY Zenon DEF CapInv
  <2>2. capabilities \in Seq(CapabilityKinds) /\ sought \in 1 .. 4 /\ held \in [1 .. 4 -> Nat]
    BY <2>1, Zenon DEF CapTypes
  <2>3. /\ msix
        /\ \A n \in 1 .. sought - 1 : held[n] = Listed(Searches[n]) /\ (n <= 2 => held[n] # 0)
    BY <2>1, Zenon DEF Searching
  <2>4. msix = TRUE
    BY <2>1, <2>3, Zenon DEF CapTypes
  <2>5. Len(capabilities) \in Nat
    BY <2>2
  <2>. QED BY <2>2, <2>3, <2>4, <2>5, Zenon
<1>3. CapTypes'
  <2>1. FirstOffset(capabilities) \in 0 .. Len(capabilities)
    BY <1>2 DEF FirstOffset
  <2>2. opening' \in {"opening", "failed", "opened"} /\ msix' \in BOOLEAN
    BY <1>1, <1>2, Zenon
  <2>3. sought' \in 1 .. 4 /\ held' \in [1 .. 4 -> Nat]
    <3>1. /\ held' = [held EXCEPT ![sought] = place] /\ sought \in 1 .. 4 /\ held \in [1 .. 4 -> Nat]
          /\ sought' = IF opening' = "opening" THEN sought + 1 ELSE sought
          /\ opening' = "opening" => sought # 4
      BY <1>1, <1>2, Zenon
    <3>2. held' \in [1 .. 4 -> Nat]
      BY <3>1, Zenon
    <3>3. sought' \in 1 .. 4
      BY <3>1
    <3>. QED BY <3>2, <3>3, Zenon
  <2>. QED BY <1>1, <1>2, <2>1, <2>2, <2>3, Zenon DEF CapTypes
<1>4. \A kind : Listed(kind)' = Listed(kind)
  BY <1>1, Zenon DEF Listed
<1>5. \A n \in 1 .. sought : held'[n] = Listed(Searches[n])
  <2>. TAKE n \in 1 .. sought
  <2>1. /\ held' = [held EXCEPT ![sought] = place] /\ sought \in 1 .. 4 /\ held \in [1 .. 4 -> Nat]
        /\ \A j \in 1 .. sought - 1 : held[j] = Listed(Searches[j])
    BY <1>1, <1>2, Zenon
  <2>2. n \in 1 .. 4 /\ (n = sought \/ n \in 1 .. sought - 1) /\ sought \notin 1 .. sought - 1
    BY <2>1
  <2>. QED BY <2>1, <2>2, Zenon
<1>6. Searching'
  <2>1. ASSUME opening' = "opening"
        PROVE  \A n \in 1 .. sought' - 1 : held'[n] = Listed(Searches[n]) /\ (n <= 2 => held'[n] # 0)
    <3>1. sought' - 1 = sought
      BY <2>1, <1>1, <1>2
    <3>2. sought <= 2 => place # 0
      BY <2>1, <1>1
    <3>3. \A n \in 1 .. sought : n <= 2 => held'[n] # 0
      BY <3>2, <1>1, <1>2
    <3>. QED BY <3>1, <3>3, <1>5
  <2>2. Before' = {}
    BY <1>1, <1>2 DEF Before, FirstOffset
  <2>3. opening' = "opening" => msix'
    BY <1>1, <1>2
  <2>. QED BY <2>1, <2>2, <2>3, <1>4 DEF Searching
<1>7. OpenedAsListed'
  <2>1. CASE opening' = "failed"
    <3>1. place = 0 /\ sought \in {1, 2}
      BY <2>1, <1>1, <1>2
    <3>2. Listed("common") = 0 \/ Listed("notify") = 0
      BY <3>1, FourSearches, Zenon
    <3>. QED BY <2>1, <3>2, <1>4 DEF OpenedAsListed
  <2>2. CASE opening' = "opened"
    <3>1. sought = 4
      BY <2>2, <1>1
    <3>2. \A n \in 1 .. 4 : held'[n] = Listed(Searches[n])
      BY <3>1, <1>5
    <3>3. Listed("common") # 0 /\ Listed("notify") # 0
      BY <3>1, <1>2, FourSearches
    <3>4. msix' <=> Listed("msix") = 0
      BY <3>1, <1>1, <1>2, FourSearches
    <3>. QED BY <2>2, <3>2, <3>3, <3>4, <1>4, FourSearches DEF OpenedAsListed
  <2>3. CASE opening' = "opening"
    BY <2>3 DEF OpenedAsListed
  <2>. QED BY <1>1, <2>1, <2>2, <2>3
<1>. QED BY <1>3, <1>6, <1>7 DEF CapInv

\* At the start nothing has been searched.
LEMMA CapStarts == CapInit => CapInv
<1>. SUFFICES ASSUME CapInit PROVE CapInv
  OBVIOUS
<1>1. /\ capabilities \in Seq(CapabilityKinds) /\ sought = 1 /\ offset = FirstOffset(capabilities)
      /\ held = [n \in 1 .. 4 |-> 0] /\ msix = TRUE /\ opening = "opening"
  BY CapabilitiesAssumption, FourSearches DEF CapInit
<1>2. Len(capabilities) \in Nat /\ FirstOffset(capabilities) \in 0 .. Len(capabilities) /\ Before = {}
  BY <1>1 DEF FirstOffset, Before
<1>3. CapTypes
  BY <1>1, <1>2 DEF CapTypes
<1>. QED BY <1>1, <1>2, <1>3 DEF CapInv, Searching, OpenedAsListed

\* Every call of CapabilityIter::next keeps the invariant.
LEMMA CapKept == CapInv /\ [CapNext]_capVars => CapInv'
<1>. SUFFICES ASSUME CapInv, [CapNext]_capVars PROVE CapInv'
  OBVIOUS
<1>1. CASE UNCHANGED capVars
  BY <1>1, Zenon DEF capVars, CapInv, CapTypes, Searching, OpenedAsListed, Before, Listed
<1>2. CASE Visit
  <2>1. PICK kind, n : kind = KindAt(offset) /\ n = Len(capabilities)
    BY Zenon
  <2>2. /\ opening = "opening" /\ n \in Nat /\ offset \in 0 .. n /\ CapTypes
        /\ kind = IF offset = 0 THEN "unknown" ELSE capabilities[offset]
        /\ \A m \in Before : Known(capabilities[m]) /\ capabilities[m] # Searches[sought]
    BY <1>2, <2>1 DEF Visit, CapInv, CapTypes, Searching, KindAt
  <2>3. CASE ~Known(kind) /\ Searched(0)
    <3>1. Listed(Searches[sought]) = 0
      <4>1. CASE offset = 0
        <5>1. \A m \in 1 .. (n + 1) - 1 : capabilities[m] # Searches[sought]
          BY <2>1, <2>2, <4>1 DEF Before
        <5>. QED BY <2>1, <2>2, <5>1, ListedNowhere
      <4>2. CASE offset # 0
        <5>1. \A m \in 1 .. offset - 1 : capabilities[m] # Searches[sought]
          BY <2>1, <2>2, <4>2 DEF Before
        <5>2. offset \in 1 .. Len(capabilities) /\ ~Known(capabilities[offset])
          BY <2>1, <2>2, <2>3, <4>2
        <5>. QED BY <2>2, <5>1, <5>2, ListedNowhere
      <4>. QED BY <4>1, <4>2
    <3>. QED BY <2>2, <2>3, <3>1, SearchEnds
  <2>4. CASE Known(kind) /\ kind = Searches[sought] /\ Searched(offset)
    <3>1. offset \in 1 .. Len(capabilities) /\ capabilities[offset] = kind /\ offset \in Nat
      BY <2>1, <2>2, <2>4 DEF Known
    <3>2. \A m \in 1 .. offset - 1 : Known(capabilities[m]) /\ capabilities[m] # kind
      BY <2>2, <2>4, <3>1 DEF Before
    <3>3. \A m \in 1 .. offset : Known(capabilities[m])
      BY <2>4, <3>1, <3>2
    <3>4. Listed(kind) = offset
      BY <2>2, <3>1, <3>2, <3>3, ListedHere
    <3>. QED BY <2>2, <2>4, <3>1, <3>4, SearchEnds
  <2>5. CASE /\ Known(kind) /\ kind # Searches[sought] /\ offset' = Following(offset)
             /\ UNCHANGED <<capabilities, sought, held, msix, opening>>
    <3>1. offset \in 1 .. n /\ capabilities[offset] = kind
      BY <2>2, <2>5 DEF Known
    <3>2. offset' = IF offset = n THEN 0 ELSE offset + 1
      BY <2>1, <2>5 DEF Following
    <3>3. \A m \in Before' : m \in Before \/ m = offset
      BY <2>1, <2>2, <2>5, <3>1, <3>2 DEF Before
    <3>4. CapTypes'
      BY <2>1, <2>2, <2>5, <3>1, <3>2 DEF CapTypes
    <3>5. \A k : Listed(k)' = Listed(k)
      BY <2>5 DEF Listed
    <3>6. Searching'
      BY <2>2, <2>5, <3>1, <3>3, <3>5 DEF CapInv, Searching
    <3>7. OpenedAsListed'
      BY <2>2, <2>5 DEF OpenedAsListed
    <3>. QED BY <3>4, <3>6, <3>7 DEF CapInv
  <2>. QED BY <1>2, <2>1, <2>3, <2>4, <2>5 DEF Visit, Matches
<1>. QED BY <1>1, <1>2 DEF CapNext

\* A virtio device is opened exactly if its list has what is needed ahead of every
\* capability that is not known, and with the first structure of each kind.
THEOREM DeviceOpened == CapSpec => []OpenedAsListed
<1>1. CapInv => OpenedAsListed
  BY DEF CapInv
<1>. QED BY <1>1, CapStarts, CapKept, PTL DEF CapSpec

-----------------------------------------------------------------------------
(* Pci.  The position of the iterator: it has returned what the nested loops  *)
(* would up to there, but for the functions that are left of the last device. *)

Reached(d) == d.bus < bus \/ (d.bus = bus /\ d.id < id)
Awaiting(d) ==
  multi.function > 0 /\ d.bus = multi.bus /\ d.id = multi.id /\ d.function >= multi.function
Visited == {d \in Meant : Reached(d) /\ ~Awaiting(d)}

PciTypes ==
  /\ bus \in 0 .. LastBus /\ id \in 0 .. LastId + 1
  /\ multi \in [bus : Nat, id : Nat, function : Nat] /\ found \in Seq(Nested)
LastDevice ==
  multi.function > 0 =>
    /\ multi.bus = bus /\ id = multi.id + 1
    /\ MultipleFunctions(multi.bus, multi.id) /\ Open0(multi.bus, multi.id, 0)
Returned(list, devices) ==
  /\ \A m, n \in 1 .. Len(list) : list[m] = list[n] => m = n
  /\ \A n \in 1 .. Len(list) : list[n] \in devices
  /\ \A d \in devices : \E n \in 1 .. Len(list) : list[n] = d
PciInv ==
  /\ PciTypes /\ LastDevice /\ scan \in {"scanning", "scanned", "panicked"}
  /\ Returned(found, IF scan = "scanned" THEN Meant ELSE Visited)

\* A set of numbers has a least one, and Min is it.
LEMMA MinIsLeast ==
  ASSUME NEW S, S \subseteq Nat, S # {}
  PROVE  Min(S) \in S /\ \A n \in S : Min(S) <= n
<1>. DEFINE R == {ij \in Nat \X Nat : ij[1] < ij[2]}
<1>1. IsWellFoundedOn(R, Nat)
  BY NatLessThanWellFounded DEF OpToRel
<1>. HIDE DEF R
<1>2. PICK x \in S : \A y \in S : ~(<<y, x>> \in R)
  BY <1>1, WFMin, Zenon
<1>3. \A y \in S : ~(y < x)
  BY <1>2, Zenon DEF R
<1>4. \A y \in S : x <= y
  BY <1>3
<1>. QED BY <1>4, Zenon DEF Min

\* What is returned once a device more is.
LEMMA ReturnedMore ==
  ASSUME NEW list \in Seq(Nested), NEW devices, Returned(list, devices),
         NEW d \in Nested, d \notin devices
  PROVE  Append(list, d) \in Seq(Nested) /\ Returned(Append(list, d), devices \union {d})
<1>1. PICK n, more : n = Len(list) /\ more = Append(list, d)
  BY Zenon
<1>2. /\ n \in Nat /\ more \in Seq(Nested) /\ Len(more) = n + 1
      /\ more[n + 1] = d /\ \A m \in 1 .. n : more[m] = list[m]
  BY <1>1
<1>3. /\ \A k, m \in 1 .. n : list[k] = list[m] => k = m
      /\ \A m \in 1 .. n : list[m] \in devices
      /\ \A e \in devices : \E m \in 1 .. n : list[m] = e
  BY <1>1 DEF Returned
<1>4. 1 .. n + 1 = 1 .. n \union {n + 1}
  BY <1>2
<1>5. \A k, m \in 1 .. n + 1 : more[k] = more[m] => k = m
  BY <1>2, <1>3, <1>4
<1>6. \A m \in 1 .. n + 1 : more[m] \in devices \union {d}
  BY <1>2, <1>3, <1>4
<1>7. \A e \in devices \union {d} : \E m \in 1 .. n + 1 : more[m] = e
  BY <1>2, <1>3, <1>4
<1>. QED BY <1>1, <1>2, <1>5, <1>6, <1>7 DEF Returned

\* A device of the nested loops, and what it is made of.
LEMMA NestedParts ==
  ASSUME NEW d \in Nested
  PROVE  /\ d.bus \in 0 .. LastBus /\ d.id \in 0 .. LastId /\ d.function \in 0 .. LastFunction
         /\ d = [bus |-> d.bus, id |-> d.id, function |-> d.function]
BY DEF Nested

\* An address within the bounds of the loops is a device of theirs.
LEMMA NestedMade ==
  ASSUME NEW b \in 0 .. LastBus, NEW i \in 0 .. LastId, NEW f \in 0 .. LastFunction
  PROVE  [bus |-> b, id |-> i, function |-> f] \in Nested
BY DEF Nested

\* The next step of the iterator: a device that is not visited, and nothing else
\* comes between.
LEMMA PciYields ==
  ASSUME PciInv, scan = "scanning", NEW d \in Meant, d \notin Visited,
         found' = Append(found, d), scan' = scan, machine' = machine,
         PciTypes' \/ found' \notin Seq(Nested), LastDevice',
         \A e \in Meant : (Reached(e) /\ ~Awaiting(e))' <=> ((Reached(e) /\ ~Awaiting(e)) \/ e = d)
  PROVE  PciInv'
<1>1. /\ found \in Seq(Nested) /\ Returned(found, Visited) /\ d \in Nested
  BY DEF PciInv, PciTypes, Meant
<1>2. found' \in Seq(Nested) /\ Returned(found', Visited \union {d})
  BY <1>1, ReturnedMore
<1>3. Meant' = Meant
  BY Zenon DEF Meant, Open0, MultipleFunctions
<1>4. Visited' = Visited \union {d}
  BY <1>3, Zenon DEF Visited
<1>5. Returned(found, IF scan = "scanned" THEN Meant ELSE Visited)'
  BY <1>2, <1>4, Zenon DEF Returned
<1>. QED BY <1>2, <1>5 DEF PciInv

\* A device with several functions: the one that follows.
LEMMA NextFunctionInv ==
  ASSUME PciInv, scan = "scanning", NextFunction
  PROVE  PciInv'
<1>1. PICK f : f = Min(FunctionsLeft)
  OBVIOUS
<1>2. /\ bus \in 0 .. LastBus /\ id \in 0 .. LastId + 1 /\ LastFunction \in Nat
      /\ LastBus \in Nat /\ LastId \in Nat
      /\ multi.bus \in Nat /\ multi.id \in Nat /\ multi.function \in Nat
      /\ multi \in [bus : Nat, id : Nat, function : Nat]
  BY PciAssumption DEF PciInv, PciTypes
<1>3. /\ multi.function > 0
      /\ FunctionsLeft = {g \in multi.function .. LastFunction : Open0(multi.bus, multi.id, g)}
  BY <1>2 DEF NextFunction, FunctionsLeft
<1>4. f \in FunctionsLeft /\ \A g \in FunctionsLeft : f <= g
  <2>1. FunctionsLeft \subseteq Nat /\ FunctionsLeft # {}
    BY <1>2, <1>3 DEF NextFunction
  <2>. QED BY <1>1, <2>1, MinIsLeast, Zenon
<1>5. f \in Nat /\ multi.function <= f /\ f <= LastFunction /\ Open0(multi.bus, multi.id, f)
  BY <1>2, <1>3, <1>4
<1>6. /\ multi.bus = bus /\ id = multi.id + 1
      /\ MultipleFunctions(multi.bus, multi.id) /\ Open0(multi.bus, multi.id, 0)
  BY <1>3 DEF PciInv, LastDevice
<1>7. PICK d : d = [bus |-> multi.bus, id |-> multi.id, function |-> f]
  BY Zenon
<1>8. /\ found' = Append(found, d) /\ machine' = machine /\ bus' = bus /\ id' = id /\ scan' = scan
      /\ multi' = IF f < LastFunction THEN [multi EXCEPT !.function = f + 1] ELSE NoFunction
  BY <1>1, <1>7, Zenon DEF NextFunction, Yield, MoreFunctions
<1>9. d.bus = multi.bus /\ d.id = multi.id /\ d.function = f
  BY <1>7
<1>10. d \in Meant
  <2>1. d \in Nested
    BY <1>2, <1>5, <1>6, <1>7, NestedMade
  <2>. QED BY <2>1, <1>5, <1>6, <1>9 DEF Meant
<1>11. d \notin Visited
  BY <1>3, <1>5, <1>9 DEF Visited, Awaiting
<1>12. /\ multi' \in [bus : Nat, id : Nat, function : Nat]
       /\ f < LastFunction => /\ multi'.bus = multi.bus /\ multi'.id = multi.id
                              /\ multi'.function = f + 1
       /\ f >= LastFunction => multi'.function = 0
  <2>1. CASE f < LastFunction
    <3>1. multi' = [multi EXCEPT !.function = f + 1]
      BY <2>1, <1>8, Zenon
    <3>2. f + 1 \in Nat
      BY <1>5
    <3>3. ~(f >= LastFunction)
      BY <2>1, <1>2, <1>5
    <3>. QED BY <3>1, <3>2, <3>3, <1>2
  <2>2. CASE ~(f < LastFunction)
    BY <2>2, <1>8 DEF NoFunction
  <2>. QED BY <2>1, <2>2, Zenon
<1>13. LastDevice'
  <2>1. multi'.function > 0 => multi'.bus = multi.bus /\ multi'.id = multi.id
    BY <1>2, <1>5, <1>12
  <2>. QED BY <2>1, <1>6, <1>8, Zenon DEF LastDevice, MultipleFunctions, Open0
<1>14. ASSUME NEW e \in Meant
       PROVE  (Reached(e) /\ ~Awaiting(e))' <=> ((Reached(e) /\ ~Awaiting(e)) \/ e = d)
  <2>1. /\ e.function \in 0 .. LastFunction /\ e.bus \in Nat /\ e.id \in Nat
        /\ e = [bus |-> e.bus, id |-> e.id, function |-> e.function]
        /\ Open0(e.bus, e.id, e.function)
    BY <1>2, NestedParts DEF Meant
  <2>2. Reached(e)' <=> Reached(e)
    BY <1>8 DEF Reached
  <2>3. CASE e.bus = multi.bus /\ e.id = multi.id
    <3>1. Reached(e)
      BY <1>2, <1>6, <2>3 DEF Reached
    <3>2. e = d <=> e.function = f
      BY <1>7, <1>9, <2>1, <2>3
    <3>3. Awaiting(e) <=> e.function >= multi.function
      BY <1>3, <2>3 DEF Awaiting
    <3>4. Awaiting(e)' <=> e.function > f
      BY <1>2, <1>5, <1>12, <2>1, <2>3 DEF Awaiting
    <3>5. e.function < multi.function \/ e.function >= f
      <4>1. SUFFICES ASSUME e.function >= multi.function PROVE e.function >= f
        BY <1>2, <2>1
      <4>2. e.function \in FunctionsLeft
        BY <4>1, <1>2, <1>3, <2>1, <2>3
      <4>. QED BY <4>2, <1>4, <1>5, <2>1
    <3>. QED BY <3>1, <3>2, <3>3, <3>4, <3>5, <2>1, <2>2, <1>2, <1>5
  <2>4. CASE ~(e.bus = multi.bus /\ e.id = multi.id)
    <3>1. ~Awaiting(e) /\ ~Awaiting(e)' /\ e # d
      BY <1>2, <1>5, <1>9, <1>12, <2>4 DEF Awaiting
    <3>. QED BY <3>1, <2>2
  <2>. QED BY <2>3, <2>4
<1>15. PciTypes' \/ found' \notin Seq(Nested)
  BY <1>2, <1>8, <1>12 DEF PciTypes
<1>. QED BY <1>8, <1>10, <1>11, <1>13, <1>14, <1>15, PciYields

\* No device of the nested loops waits once no function is left.
LEMMA NoneAwaiting ==
  ASSUME PciInv, FunctionsLeft = {}, NEW e \in Meant
  PROVE  ~Awaiting(e)
<1>. SUFFICES ASSUME Awaiting(e) PROVE FALSE
  OBVIOUS
<1>1. /\ multi.function > 0 /\ e.bus = multi.bus /\ e.id = multi.id
      /\ e.function >= multi.function /\ multi.function \in Nat
  BY DEF Awaiting, PciInv, PciTypes
<1>2. e.function \in 0 .. LastFunction /\ Open0(multi.bus, multi.id, e.function)
  BY <1>1, NestedParts DEF Meant
<1>3. e.function \in FunctionsLeft
  BY <1>1, <1>2, PciAssumption DEF FunctionsLeft
<1>. QED BY <1>3

\* The next device: nothing that is open is between the position and its address.
LEMMA YieldFirstInv ==
  ASSUME PciInv, scan = "scanning", FunctionsLeft = {},
         NEW b \in 0 .. LastBus, NEW i \in 0 .. LastId, Open0(b, i, 0), YieldFirst(b, i),
         bus < b \/ (bus = b /\ id <= i),
         \A e \in Meant : e.bus < b \/ (e.bus = b /\ e.id < i) => Reached(e)
  PROVE  PciInv'
<1>1. PICK d : d = [bus |-> b, id |-> i, function |-> 0]
  BY Zenon
<1>2. d.bus = b /\ d.id = i /\ d.function = 0
  BY <1>1
<1>3. /\ found' = Append(found, d) /\ machine' = machine /\ bus' = b /\ id' = i + 1 /\ scan' = scan
      /\ multi' = IF MultipleFunctions(b, i) THEN [bus |-> b, id |-> i, function |-> 1]
                  ELSE NoFunction
  BY <1>1, Zenon DEF YieldFirst, Yield, FirstFunctions
<1>4. /\ bus \in 0 .. LastBus /\ id \in 0 .. LastId + 1 /\ LastFunction \in Nat
      /\ LastBus \in Nat /\ LastId \in Nat
  BY PciAssumption DEF PciInv, PciTypes
<1>5. d \in Meant
  <2>1. d \in Nested
    BY <1>1, <1>4, NestedMade
  <2>. QED BY <2>1, <1>2 DEF Meant
<1>6. d \notin Visited
  BY <1>2, <1>4 DEF Visited, Reached
<1>7. /\ multi' \in [bus : Nat, id : Nat, function : Nat]
      /\ MultipleFunctions(b, i) => multi'.bus = b /\ multi'.id = i /\ multi'.function = 1
      /\ ~MultipleFunctions(b, i) => multi'.function = 0
  BY <1>3, <1>4 DEF NoFunction
<1>8. LastDevice'
  <2>1. multi'.function > 0 => multi'.bus = b /\ multi'.id = i /\ MultipleFunctions(b, i)
    BY <1>7
  <2>. QED BY <2>1, <1>3, Zenon DEF LastDevice, MultipleFunctions, Open0
<1>9. ASSUME NEW e \in Meant
      PROVE  (Reached(e) /\ ~Awaiting(e))' <=> ((Reached(e) /\ ~Awaiting(e)) \/ e = d)
  <2>1. /\ e.function \in 0 .. LastFunction /\ e.bus \in Nat /\ e.id \in Nat
        /\ e = [bus |-> e.bus, id |-> e.id, function |-> e.function]
        /\ e.function > 0 => MultipleFunctions(e.bus, e.id)
    BY <1>4, NestedParts DEF Meant
  <2>2. ~Awaiting(e)
    BY NoneAwaiting
  <2>3. Reached(e)' <=> (e.bus < b \/ (e.bus = b /\ e.id < i) \/ (e.bus = b /\ e.id = i))
    <3>1. Reached(e)' <=> (e.bus < b \/ (e.bus = b /\ e.id < i + 1))
      BY <1>3, Zenon DEF Reached
    <3>2. \A x, y \in Nat : x < y + 1 <=> x < y \/ x = y
      OBVIOUS
    <3>3. i \in Nat
      BY <1>4
    <3>. QED BY <3>1, <3>2, <3>3, <2>1, Zenon
  <2>4. Reached(e) <=> (e.bus < b \/ (e.bus = b /\ e.id < i))
    <3>1. Reached(e) <=> (e.bus < bus \/ (e.bus = bus /\ e.id < id))
      BY Zenon DEF Reached
    <3>2. PICK x \in Nat, y \in Nat : x = e.bus /\ y = e.id
      BY <2>1, Zenon
    <3>3. x < b \/ (x = b /\ y < i) => Reached(e)
      BY <3>2, Zenon
    <3>4. x < bus \/ (x = bus /\ y < id) => x < b \/ (x = b /\ y < i)
      BY <1>4, <3>2
    <3>. QED BY <3>1, <3>2, <3>3, <3>4, Zenon
  <2>5. CASE e.bus = b /\ e.id = i
    <3>1. e = d <=> e.function = 0
      BY <1>1, <1>2, <2>1, <2>5
    <3>2. Awaiting(e)' <=> e.function > 0
      BY <1>7, <2>1, <2>5 DEF Awaiting
    <3>. QED BY <3>1, <3>2, <2>1, <2>2, <2>3, <2>4, <2>5, <1>4
  <2>6. CASE ~(e.bus = b /\ e.id = i)
    <3>1. ~Awaiting(e)' /\ e # d
      BY <1>2, <1>7, <2>6 DEF Awaiting
    <3>. QED BY <3>1, <2>2, <2>3, <2>4, <2>6
  <2>. QED BY <2>5, <2>6
<1>10. PciTypes' \/ found' \notin Seq(Nested)
  BY <1>3, <1>4, <1>7 DEF PciTypes
<1>. QED BY <1>3, <1>5, <1>6, <1>8, <1>9, <1>10, PciYields

\* The next device of the bus the iterator is on.
LEMMA NextOnBusInv ==
  ASSUME PciInv, scan = "scanning", NextOnBus
  PROVE  PciInv'
<1>1. PICK i : i = Min(IdsLeft)
  OBVIOUS
<1>2. /\ bus \in 0 .. LastBus /\ id \in 0 .. LastId + 1 /\ LastBus \in Nat /\ LastId \in Nat
  BY PciAssumption DEF PciInv, PciTypes
<1>3. i \in IdsLeft /\ \A n \in IdsLeft : i <= n
  <2>1. IdsLeft \subseteq Nat /\ IdsLeft # {}
    BY <1>2 DEF NextOnBus, IdsLeft
  <2>. QED BY <1>1, <2>1, MinIsLeast, Zenon
<1>4. i \in 0 .. LastId /\ id <= i /\ Open0(bus, i, 0)
  BY <1>2, <1>3 DEF IdsLeft
<1>5. ASSUME NEW e \in Meant, e.bus < bus \/ (e.bus = bus /\ e.id < i)
      PROVE  Reached(e)
  <2>1. e.id \in 0 .. LastId /\ Open0(e.bus, e.id, 0)
    BY NestedParts DEF Meant
  <2>2. CASE e.bus = bus /\ e.id < i
    <3>1. e.id \notin IdsLeft
      BY <1>3, <1>4, <2>1, <2>2
    <3>2. e.id < id
      BY <3>1, <1>2, <2>1, <2>2 DEF IdsLeft
    <3>. QED BY <3>2, <2>2 DEF Reached
  <2>. QED BY <2>2, <1>5 DEF Reached
<1>6. FunctionsLeft = {} /\ YieldFirst(bus, i)
  BY <1>1, Zenon DEF NextOnBus
<1>. QED BY <1>2, <1>4, <1>5, <1>6, YieldFirstInv

\* The first device of a bus that follows, past buses without any.
LEMMA NextBusInv ==
  ASSUME PciInv, scan = "scanning", NextBus
  PROVE  PciInv'
<1>1. PICK b : b = Min(BusesLeft)
  OBVIOUS
<1>2. PICK i : i = Min(Later(b))
  OBVIOUS
<1>3. /\ bus \in 0 .. LastBus /\ id \in 0 .. LastId + 1 /\ LastBus \in Nat /\ LastId \in Nat
  BY PciAssumption DEF PciInv, PciTypes
<1>4. b \in BusesLeft /\ \A c \in BusesLeft : b <= c
  <2>1. BusesLeft \subseteq Nat /\ BusesLeft # {}
    BY <1>3 DEF NextBus, BusesLeft
  <2>. QED BY <1>1, <2>1, MinIsLeast, Zenon
<1>5. b \in 0 .. LastBus /\ bus < b /\ Later(b) # {}
  BY <1>3, <1>4 DEF BusesLeft
<1>6. i \in Later(b) /\ \A n \in Later(b) : i <= n
  <2>1. Later(b) \subseteq Nat
    BY <1>3 DEF Later
  <2>. QED BY <1>2, <1>5, <2>1, MinIsLeast
<1>7. i \in 0 .. LastId /\ Open0(b, i, 0)
  BY <1>6 DEF Later
<1>8. ASSUME NEW e \in Meant, e.bus < b \/ (e.bus = b /\ e.id < i)
      PROVE  Reached(e)
  <2>1. e.bus \in 0 .. LastBus /\ e.id \in 0 .. LastId /\ Open0(e.bus, e.id, 0)
    BY NestedParts DEF Meant
  <2>2. ~(e.bus = b /\ e.id < i)
    <3>1. e.bus = b => e.id \in Later(b)
      BY <2>1 DEF Later
    <3>. QED BY <3>1, <1>3, <1>6, <1>7, <2>1
  <2>3. e.bus < b
    BY <1>8, <2>2
  <2>4. e.id \in Later(e.bus)
    BY <2>1 DEF Later
  <2>5. e.bus \notin BusesLeft
    BY <1>4, <1>5, <2>1, <2>3
  <2>6. ~(bus < e.bus)
    BY <2>1, <2>4, <2>5, <1>3 DEF BusesLeft
  <2>7. e.bus = bus => e.id < id
    <3>1. SUFFICES ASSUME e.bus = bus, id <= e.id PROVE FALSE
      BY <1>3, <2>1
    <3>2. e.id \in IdsLeft
      BY <3>1, <2>1, <1>3 DEF IdsLeft
    <3>. QED BY <3>2 DEF NextBus
  <2>. QED BY <2>1, <2>6, <2>7, <1>3 DEF Reached
<1>9. FunctionsLeft = {} /\ YieldFirst(b, i)
  BY <1>1, <1>2, Zenon DEF NextBus
<1>. QED BY <1>3, <1>5, <1>7, <1>8, <1>9, YieldFirstInv

\* The end of the scan: every device of the nested loops was returned.
LEMMA NoMoreDevicesInv ==
  ASSUME PciInv, scan = "scanning", NoMoreDevices
  PROVE  PciInv'
<1>1. /\ bus \in 0 .. LastBus /\ id \in 0 .. LastId + 1 /\ LastBus \in Nat /\ LastId \in Nat
  BY PciAssumption DEF PciInv, PciTypes
<1>2. ASSUME NEW e \in Meant PROVE e \in Visited
  <2>1. e.bus \in 0 .. LastBus /\ e.id \in 0 .. LastId /\ Open0(e.bus, e.id, 0)
    BY NestedParts DEF Meant
  <2>2. ~(bus < e.bus)
    <3>1. e.id \in Later(e.bus)
      BY <2>1 DEF Later
    <3>2. e.bus \notin BusesLeft
      BY DEF NoMoreDevices
    <3>. QED BY <2>1, <3>1, <3>2, <1>1 DEF BusesLeft
  <2>3. e.bus = bus => e.id < id
    <3>1. SUFFICES ASSUME e.bus = bus, id <= e.id PROVE FALSE
      BY <1>1, <2>1
    <3>2. e.id \in IdsLeft
      BY <3>1, <2>1, <1>1 DEF IdsLeft
    <3>. QED BY <3>2 DEF NoMoreDevices
  <2>4. Reached(e)
    BY <2>1, <2>2, <2>3, <1>1 DEF Reached
  <2>5. ~Awaiting(e)
    BY NoneAwaiting DEF NoMoreDevices
  <2>. QED BY <2>4, <2>5 DEF Visited
<1>3. Visited = Meant
  BY <1>2, Zenon DEF Visited
<1>4. /\ found' = found /\ machine' = machine /\ multi' = NoFunction /\ scan' = "scanned"
      /\ bus' = (IF bus < LastBus THEN bus + 1 ELSE bus) /\ id' = id
  BY DEF NoMoreDevices
<1>5. Meant' = Meant
  BY <1>4 DEF Meant, Open0, MultipleFunctions
<1>6. Returned(found, Meant)
  BY <1>3 DEF PciInv
<1>7. Returned(found, IF scan = "scanned" THEN Meant ELSE Visited)'
  BY <1>4, <1>5, <1>6 DEF Returned
<1>8. PciTypes' /\ LastDevice'
  BY <1>1, <1>4 DEF PciInv, PciTypes, LastDevice, NoFunction
<1>. QED BY <1>4, <1>7, <1>8 DEF PciInv

\* A step that is not one of the iterator, as reading a register, at which the scan
\* may end in a panic.
LEMMA PciRestsInv ==
  ASSUME PciInv, UNCHANGED <<machine, bus, id, multi, found>>,
         scan' = scan \/ (scan = "scanning" /\ scan' = "panicked")
  PROVE  PciInv'
<1>1. /\ machine' = machine /\ bus' = bus /\ id' = id /\ multi' = multi /\ found' = found
  OBVIOUS
<1>2. Meant' = Meant /\ LastDevice'
  BY <1>1, Zenon DEF Meant, Open0, MultipleFunctions, PciInv, LastDevice
<1>3. Visited' = Visited
  BY <1>1, <1>2 DEF Visited, Reached, Awaiting
<1>4. scan' \in {"scanning", "scanned", "panicked"} /\ (scan' = "scanned" <=> scan = "scanned")
  BY DEF PciInv
<1>5. Returned(found, IF scan = "scanned" THEN Meant ELSE Visited)'
  BY <1>1, <1>2, <1>3, <1>4 DEF PciInv, Returned
<1>6. PciTypes'
  BY <1>1 DEF PciInv, PciTypes
<1>. QED BY <1>2, <1>4, <1>5, <1>6 DEF PciInv

\* At the start the iterator is before the first address.
LEMMA PciStarts == PciInit => PciInv
<1>. SUFFICES ASSUME PciInit PROVE PciInv
  OBVIOUS
<1>1. bus = 0 /\ id = 0 /\ multi = NoFunction /\ found = <<>> /\ scan = "scanning"
  BY Zenon DEF PciInit
<1>2. PciTypes /\ LastDevice
  BY <1>1, PciAssumption DEF PciTypes, LastDevice, NoFunction
<1>3. Visited = {}
  <2>1. \A d \in Meant : ~Reached(d)
    BY <1>1, NestedParts, PciAssumption DEF Meant, Reached
  <2>. QED BY <2>1 DEF Visited
<1>4. Returned(found, Visited)
  BY <1>1, <1>3 DEF Returned
<1>. QED BY <1>1, <1>2, <1>4 DEF PciInv

\* Every call of next, and every register read in between, keeps the invariant.
LEMMA PciKept == PciInv /\ [PciNext]_pciVars => PciInv'
<1>. SUFFICES ASSUME PciInv, [PciNext]_pciVars PROVE PciInv'
  OBVIOUS
<1>1. CASE NextDevice
  BY <1>1, NextFunctionInv, NextOnBusInv, NextBusInv, NoMoreDevicesInv DEF NextDevice
<1>2. CASE ReadSlot
  <2>. DEFINE Rests == UNCHANGED <<machine, bus, id, multi, found>>
  <2>1. \A is64 : Skip(is64) => Rests /\ scan' = scan
    BY DEF Skip
  <2>2. \A address, size, is64, written : Track(address, size, is64, written) => Rests /\ scan' = scan
    BY DEF Track
  <2>3. UnknownType => Rests /\ scan' = "panicked"
    BY DEF UnknownType
  <2>. HIDE DEF Rests
  <2>4. \A address : Mem32(address) => Rests /\ scan' = scan
    BY <2>1, <2>2, Zenon DEF Mem32
  <2>5. \A address : Mem64(address) => Rests /\ scan' = scan
    BY <2>2, Zenon DEF Mem64
  <2>6. ASSUME NEW word, Bar(word) PROVE Rests /\ (scan' = scan \/ scan' = "panicked")
    <3>1. \/ Skip(FALSE) \/ Mem32(ClearType(word)) \/ Mem64(ClearType(word)) \/ UnknownType
      BY <2>6 DEF Bar
    <3>. QED BY <3>1, <2>1, <2>3, <2>4, <2>5, Zenon
  <2>7. scan = "scanning" /\ (Skip(FALSE) \/ Bar(words[slot]))
    BY <1>2, Zenon DEF ReadSlot
  <2>8. Rests /\ (scan' = scan \/ scan' = "panicked")
    BY <2>1, <2>6, <2>7, Zenon
  <2>. QED BY <2>7, <2>8, PciRestsInv DEF Rests
<1>3. CASE UNCHANGED pciVars
  <2>1. UNCHANGED <<machine, bus, id, multi, found, scan>>
    BY <1>3 DEF pciVars
  <2>. QED BY <2>1, PciRestsInv
<1>. QED BY <1>1, <1>2, <1>3 DEF PciNext

\* The iterator over the PCI devices, which keeps its position between the calls of
\* next, returns each device that the nested loops of its comment would, and once.
THEOREM PciDevices == PciSpec => []DevicesEachOnce
<1>1. PciInv => DevicesEachOnce
  <2>. SUFFICES ASSUME PciInv PROVE DevicesEachOnce
    OBVIOUS
  <2>1. DOMAIN found = 1 .. Len(found)
    BY DEF PciInv, PciTypes
  <2>2. Visited \subseteq Meant
    BY DEF Visited
  <2>. QED BY <2>1, <2>2 DEF PciInv, Returned, DevicesEachOnce
<1>. QED BY <1>1, PciStarts, PciKept, PTL DEF PciSpec

-----------------------------------------------------------------------------
(* Rtc.  What was read of time_1 was shown no later, and what was read of     *)
(* time_2 no earlier, than the check between them; if the two are the same,   *)
(* and less than a minute passes, both are the time of the check.             *)

Shown(k, t) == IF k = 3 THEN HourRegister(Fields(t)[k]) ELSE Encode(Fields(t)[k])
Latest == IF updated > 0 THEN clock + 1 ELSE clock

RtcTypes ==
  /\ format \in [bcd : BOOLEAN, hours : {12, 24}]
  /\ began \in Nat /\ clock \in Nat /\ updated \in 0 .. 5
  /\ began <= clock /\ Latest <= began + MaxTicks
  /\ where \in {"wait", "first", "check", "second", "done"}
  /\ time1 \in Seq(Nat) /\ time2 \in Seq(Nat)
ReadingFirst ==
  where \in {"first", "check"} =>
    /\ IF where = "first" THEN Len(time1) < 4 ELSE Len(time1) = 4
    /\ \A k \in 1 .. Len(time1) : \E t \in began .. Latest : time1[k] = Shown(k, t)
ReadAround(c, second) ==
  /\ \A k \in 1 .. 4 : \E t \in began .. c : time1[k] = Shown(k, t)
  /\ \A k \in 1 .. Len(second) : \E t \in c .. Latest : second[k] = Shown(k, t)
ReadingSecond ==
  where = "second" =>
    Len(time1) = 4 /\ Len(time2) < 4 /\ \E c \in began .. clock : ReadAround(c, time2)
RtcInv == RtcTypes /\ ReadingFirst /\ ReadingSecond /\ TimeWasShown

\* The fields of a time, and their ranges.
LEMMA FieldsParts ==
  ASSUME NEW t \in Nat
  PROVE  /\ Fields(t)[1] = t % 60 /\ Fields(t)[2] = (t \div 60) % 60
         /\ Fields(t)[3] = (t \div 3600) % 24 /\ Fields(t)[4] = 1 + (t \div 86400)
         /\ Fields(t) = [k \in 1 .. 4 |-> Fields(t)[k]]
         /\ \A k \in 1 .. 4 : Fields(t)[k] \in Nat
         /\ Fields(t)[3] < 24
<1>1. /\ Fields(t)[1] = t % 60 /\ Fields(t)[2] = (t \div 60) % 60
      /\ Fields(t)[3] = (t \div 3600) % 24 /\ Fields(t)[4] = 1 + (t \div 86400)
  BY DEF Fields
<1>2. Fields(t) = [k \in 1 .. 4 |-> Fields(t)[k]]
  BY DEF Fields
<1>3. 1 .. 4 = {1, 2, 3, 4}
  OBVIOUS
<1>4. /\ t % 60 \in Nat /\ (t \div 60) % 60 \in Nat /\ (t \div 3600) % 24 \in 0 .. 23
      /\ 1 + (t \div 86400) \in Nat
  OBVIOUS
<1>. QED BY <1>1, <1>2, <1>3, <1>4

\* A register holds a number, and its conversion gives back the field it shows.
LEMMA Decoded ==
  ASSUME RtcTypes, NEW k \in 1 .. 4, NEW t \in Nat
  PROVE  /\ Shown(k, t) \in Nat
         /\ format.hours = 24 =>
              (IF k = 3 THEN DecodeHour(Shown(k, t)) ELSE Decode(Shown(k, t))) = Fields(t)[k]
<1>1. PICK v : v = Fields(t)[k]
  OBVIOUS
<1>2. v \in Nat /\ (k = 3 => v < 24)
  BY <1>1, FieldsParts
<1>3. format.bcd \in BOOLEAN /\ format.hours \in {12, 24}
  BY DEF RtcTypes
<1>4. \A n \in Nat : Encode(n) \in Nat
  BY <1>3 DEF Encode
<1>5. \A n \in Nat : Decode(Encode(n)) = n
  BY <1>3 DEF Encode, Decode, ConvertBcd
<1>6. CASE k = 3
  <2>1. HourRegister(v) \in Nat
    <3>1. 1 + ((v + 11) % 12) \in Nat
      BY <1>2
    <3>. QED BY <1>2, <1>3, <1>4, <3>1 DEF HourRegister
  <2>2. ASSUME format.hours = 24 PROVE DecodeHour(Encode(v)) = v
    <3>1. Encode(v) \in 0 .. 127
      BY <1>2, <1>3, <1>6 DEF Encode
    <3>2. Encode(v) % 128 = Encode(v) /\ Encode(v) \div 128 = 0
      BY <3>1
    <3>3. Decode(Encode(v) % 128) + 128 * (Encode(v) \div 128) = v
      BY <3>2, <1>2, <1>5
    <3>. QED BY <3>3, <1>2, <1>6 DEF DecodeHour
  <2>. QED BY <1>1, <1>6, <2>1, <2>2, Zenon DEF Shown, HourRegister
<1>7. CASE k # 3
  BY <1>1, <1>2, <1>4, <1>5, <1>7 DEF Shown
<1>. QED BY <1>6, <1>7

\* A register shows a time from the clock's on.
LEMMA RegisterShows ==
  ASSUME RtcTypes, NEW k \in 1 .. 4
  PROVE  \E t \in clock .. Latest : Register(k) = Shown(k, t)
<1>1. PICK t : t = IF k < updated THEN clock + 1 ELSE clock
  OBVIOUS
<1>2. t \in clock .. Latest
  BY <1>1 DEF RtcTypes, Latest
<1>3. Register(k) = Shown(k, t)
  BY <1>1, Zenon DEF Register, Shown
<1>. QED BY <1>2, <1>3

\* Three times in order, the last less than a minute after the first.
WithinMinute(b, c, d) ==
  /\ b \in Nat /\ c \in Nat /\ d \in Nat
  /\ b <= c /\ c <= d /\ d - b < 60

\* A field that is the same at two times less than a minute apart is so between them.
LEMMA SameBetween ==
  ASSUME NEW b, NEW c, NEW d, WithinMinute(b, c, d),
         NEW k \in 1 .. 4, Fields(b)[k] = Fields(d)[k]
  PROVE  Fields(b)[k] = Fields(c)[k]
<1>. b \in Nat /\ c \in Nat /\ d \in Nat /\ b <= c /\ c <= d /\ d - b < 60
  BY DEF WithinMinute
<1>1. CASE k = 1
  <2>1. b % 60 = d % 60
    BY <1>1, FieldsParts
  <2>2. b = d
    BY <2>1
  <2>. QED BY <2>2
<1>2. CASE k = 2
  <2>1. (b \div 60) % 60 = (d \div 60) % 60
    BY <1>2, FieldsParts
  <2>2. PICK x, y, z : x = b \div 60 /\ y = c \div 60 /\ z = d \div 60
    OBVIOUS
  <2>3. x \in Nat /\ y \in Nat /\ z \in Nat /\ x <= y /\ y <= z /\ z <= x + 1
    BY <2>2
  <2>4. x = z
    BY <2>1, <2>2, <2>3
  <2>. QED BY <2>2, <2>3, <2>4, <1>2, FieldsParts
<1>3. CASE k = 3
  <2>1. (b \div 3600) % 24 = (d \div 3600) % 24
    BY <1>3, FieldsParts
  <2>2. PICK x, y, z : x = b \div 3600 /\ y = c \div 3600 /\ z = d \div 3600
    OBVIOUS
  <2>3. x \in Nat /\ y \in Nat /\ z \in Nat /\ x <= y /\ y <= z /\ z <= x + 1
    BY <2>2
  <2>4. x = z
    BY <2>1, <2>2, <2>3
  <2>. QED BY <2>2, <2>3, <2>4, <1>3, FieldsParts
<1>4. CASE k = 4
  BY <1>4, FieldsParts
<1>. QED BY <1>1, <1>2, <1>3, <1>4

\* The format of the registers stays, and with it what they show and what is read.
LEMMA SameFormat ==
  ASSUME format' = format
  PROVE  /\ \A k, t : Shown(k, t)' = Shown(k, t)
         /\ time1' = time1 => Converted(time1)' = Converted(time1)
<1>1. ASSUME NEW v PROVE Encode(v)' = Encode(v) /\ Decode(v)' = Decode(v)
  BY Zenon DEF Encode, Decode
<1>2. ASSUME NEW v PROVE HourRegister(v)' = HourRegister(v)
  <2>1. PICK w : w = 1 + ((v + 11) % 12)
    BY Zenon
  <2>2. Encode(v)' = Encode(v) /\ Encode(w)' = Encode(w)
    BY <1>1, Zenon
  <2>. QED BY <2>1, <2>2, Zenon DEF HourRegister
<1>3. ASSUME NEW v PROVE DecodeHour(v)' = DecodeHour(v)
  <2>. DEFINE OfHour(h) == IF (h \div 2) % 2 = 1 /\ h >= 128 THEN ((h % 128) + 12) % 24 ELSE h
  <2>1. DecodeHour(v) = OfHour(Decode(v % 128) + 128 * (v \div 128))
    BY Zenon DEF DecodeHour
  <2>2. DecodeHour(v)' = OfHour(Decode(v % 128)' + 128 * (v \div 128))
    BY Zenon DEF DecodeHour
  <2>3. Decode(v % 128)' = Decode(v % 128)
    BY <1>1, Zenon
  <2>. HIDE DEF OfHour
  <2>. QED BY <2>1, <2>2, <2>3, Zenon
<1>4. ASSUME NEW k, NEW t PROVE Shown(k, t)' = Shown(k, t)
  <2>1. /\ Encode(Fields(t)[k])' = Encode(Fields(t)[k])
        /\ HourRegister(Fields(t)[k])' = HourRegister(Fields(t)[k])
    BY <1>1, <1>2, Zenon
  <2>. QED BY <2>1, Zenon DEF Shown
<1>5. ASSUME time1' = time1 PROVE Converted(time1)' = Converted(time1)
  <2>1. ASSUME NEW k PROVE /\ Decode(time1[k])' = Decode(time1[k])
                           /\ DecodeHour(time1[k])' = DecodeHour(time1[k])
    BY <1>5, <1>1, <1>3, Zenon
  <2>. QED BY <2>1, Zenon DEF Converted
<1>. QED BY <1>4, <1>5, Zenon

\* The clock goes on: what was read stays what was shown.
LEMMA ClockInv ==
  ASSUME RtcInv, UpdateBegins \/ UpdateRegister \/ UpdateEnds
  PROVE  RtcInv'
<1>1. /\ format' = format /\ began' = began /\ where' = where /\ time1' = time1 /\ time2' = time2
  BY DEF UpdateBegins, UpdateRegister, UpdateEnds
<1>2. /\ clock' \in Nat /\ updated' \in 0 .. 5 /\ clock <= clock' /\ Latest <= Latest'
      /\ Latest' <= began + MaxTicks /\ Latest' \in Nat /\ Latest \in Nat
  <2>1. /\ began \in Nat /\ clock \in Nat /\ updated \in 0 .. 5 /\ MaxTicks \in Nat
        /\ Latest <= began + MaxTicks
    BY RtcAssumption DEF RtcInv, RtcTypes
  <2>2. CASE UpdateBegins
    <3>1. updated = 0 /\ clock < began + MaxTicks /\ updated' = 1 /\ clock' = clock
      BY <2>2, Zenon DEF UpdateBegins
    <3>. QED BY <2>1, <3>1 DEF Latest
  <2>3. CASE UpdateRegister
    <3>1. updated \in 1 .. 4 /\ updated' = updated + 1 /\ clock' = clock
      BY <2>3, Zenon DEF UpdateRegister, Registers
    <3>. QED BY <2>1, <3>1 DEF Latest
  <2>4. CASE UpdateEnds
    <3>1. updated = 5 /\ updated' = 0 /\ clock' = clock + 1
      BY <2>4 DEF UpdateEnds, Registers
    <3>. QED BY <2>1, <3>1 DEF Latest
  <2>. QED BY <2>2, <2>3, <2>4, Zenon
<1>3. RtcTypes'
  BY <1>1, <1>2 DEF RtcInv, RtcTypes
<1>4. \A k, t : Shown(k, t)' = Shown(k, t)
  BY <1>1, SameFormat, Zenon
<1>5. began \in Nat /\ clock \in Nat
  BY DEF RtcInv, RtcTypes
<1>6. ReadingFirst'
  BY <1>1, <1>2, <1>4, <1>5 DEF RtcInv, ReadingFirst
<1>7. ReadingSecond'
  <2>1. \A c \in began .. clock : ReadAround(c, time2) => ReadAround(c, time2)'
    <3>. TAKE c \in began .. clock
    <3>. HAVE ReadAround(c, time2)
    <3>1. c .. Latest \subseteq c .. Latest'
      BY <1>2, <1>5
    <3>2. \A k \in 1 .. 4 : \E t \in began .. c : time1[k] = Shown(k, t)
      BY Zenon DEF ReadAround
    <3>3. ASSUME NEW k \in 1 .. Len(time2) PROVE \E t \in c .. Latest' : time2[k] = Shown(k, t)
      BY <3>1, Zenon DEF ReadAround
    <3>. QED BY <3>2, <3>3, <1>1, <1>4, Zenon DEF ReadAround
  <2>2. began .. clock \subseteq began' .. clock'
    BY <1>1, <1>2, <1>5
  <2>. QED BY <1>1, <2>1, <2>2 DEF RtcInv, ReadingSecond
<1>8. TimeWasShown'
  <2>1. began .. clock \subseteq began' .. clock'
    BY <1>1, <1>2, <1>5
  <2>2. Converted(time1)' = Converted(time1)
    BY <1>1, SameFormat, Zenon
  <2>. QED BY <1>1, <2>1, <2>2 DEF RtcInv, TimeWasShown
<1>. QED BY <1>3, <1>6, <1>7, <1>8 DEF RtcInv

\* The steps of now but the last reading.
LEMMA FirstReadingInv ==
  ASSUME RtcInv, AwaitUpdate \/ ReadFirst \/ Check
  PROVE  RtcInv'
<1>1. /\ format' = format /\ began' = began /\ clock' = clock /\ updated' = updated
  BY DEF AwaitUpdate, ReadFirst, Check
<1>2. \A k, t : Shown(k, t)' = Shown(k, t)
  BY <1>1, SameFormat, Zenon
<1>3. /\ Latest' = Latest /\ began \in Nat /\ clock \in Nat /\ Latest \in Nat /\ clock <= Latest
      /\ began <= clock
  BY <1>1 DEF RtcInv, RtcTypes, Latest
<1>4. CASE AwaitUpdate
  <2>1. where' = "first" /\ time1' = <<>> /\ time2' = time2
    BY <1>4 DEF AwaitUpdate
  <2>2. RtcTypes'
    BY <1>1, <1>3, <2>1 DEF RtcInv, RtcTypes
  <2>3. ReadingFirst' /\ ReadingSecond' /\ TimeWasShown'
    BY <2>1 DEF ReadingFirst, ReadingSecond, TimeWasShown
  <2>. QED BY <2>2, <2>3 DEF RtcInv
<1>5. CASE ReadFirst
  <2>1. PICK n, value : n = Len(time1) /\ value = Register(n + 1)
    BY Zenon
  <2>2. /\ n \in 0 .. 3 /\ time1 \in Seq(Nat) /\ time2 \in Seq(Nat)
        /\ \A k \in 1 .. n : \E t \in began .. Latest : time1[k] = Shown(k, t)
    <3>1. where = "first" /\ time1 \in Seq(Nat) /\ time2 \in Seq(Nat)
      BY <1>5 DEF ReadFirst, RtcInv, RtcTypes
    <3>2. Len(time1) < 4 /\ \A k \in 1 .. n : \E t \in began .. Latest : time1[k] = Shown(k, t)
      BY <3>1, <2>1 DEF RtcInv, ReadingFirst
    <3>3. Len(time1) \in Nat
      BY <3>1
    <3>4. n \in 0 .. 3
      BY <3>2, <3>3, <2>1
    <3>. QED BY <3>1, <3>2, <3>4, Zenon
  <2>3. PICK t \in clock .. Latest : value = Shown(n + 1, t)
    <3>1. PICK k : k = n + 1
      OBVIOUS
    <3>2. k \in 1 .. 4
      BY <3>1, <2>2
    <3>3. value = Register(k) /\ RtcTypes
      BY <3>1, <2>1, Zenon DEF RtcInv
    <3>. QED BY <3>1, <3>2, <3>3, RegisterShows, Zenon
  <2>4. value \in Nat
    <3>1. n + 1 \in 1 .. 4 /\ t \in Nat
      BY <2>2, <1>3
    <3>. QED BY <2>3, <3>1, Decoded DEF RtcInv
  <2>5. time1' = Append(time1, value) /\ time2' = time2
    BY <1>5, <2>1 DEF ReadFirst
  <2>6. /\ time1' \in Seq(Nat) /\ Len(time1') = n + 1 /\ time1'[n + 1] = value
        /\ \A k \in 1 .. n : time1'[k] = time1[k]
    BY <2>1, <2>2, <2>4, <2>5
  <2>7. where' = IF n + 1 = 4 THEN "check" ELSE "first"
    BY <1>5, <2>6 DEF ReadFirst, Registers
  <2>8. RtcTypes'
    BY <1>1, <1>3, <2>2, <2>5, <2>6, <2>7 DEF RtcInv, RtcTypes
  <2>9. ReadingFirst'
    <3>1. ASSUME NEW k \in 1 .. n + 1
          PROVE  \E s \in began .. Latest : time1'[k] = Shown(k, s)
      <4>1. CASE k = n + 1
        <5>1. t \in began .. Latest
          BY <1>3
        <5>. QED BY <4>1, <5>1, <2>3, <2>6
      <4>2. CASE k \in 1 .. n
        BY <4>2, <2>2, <2>6
      <4>. QED BY <4>1, <4>2, <2>2
    <3>. QED BY <3>1, <1>1, <1>2, <1>3, <2>2, <2>6, <2>7 DEF ReadingFirst
  <2>10. ReadingSecond' /\ TimeWasShown'
    BY <2>7 DEF ReadingSecond, TimeWasShown
  <2>. QED BY <2>8, <2>9, <2>10 DEF RtcInv
<1>6. CASE Check
  <2>1. /\ time2' = <<>> /\ time1' = time1 /\ where = "check"
        /\ where' = IF updated > 0 THEN "wait" ELSE "second"
    BY <1>6 DEF Check
  <2>2. RtcTypes'
    BY <1>1, <1>3, <2>1 DEF RtcInv, RtcTypes
  <2>3. ReadingFirst' /\ TimeWasShown'
    BY <2>1 DEF ReadingFirst, TimeWasShown
  <2>4. ReadingSecond'
    <3>1. SUFFICES ASSUME updated = 0 PROVE ReadingSecond'
      BY <2>1 DEF ReadingSecond, RtcInv, RtcTypes
    <3>2. Latest = clock
      BY <3>1 DEF Latest
    <3>3. Len(time1) = 4 /\ \A k \in 1 .. 4 : \E t \in began .. clock : time1[k] = Shown(k, t)
      BY <2>1, <3>2 DEF RtcInv, ReadingFirst
    <3>4. ReadAround(clock, time2)'
      BY <1>1, <1>2, <2>1, <3>3 DEF ReadAround
    <3>5. clock \in began .. clock
      BY <1>3
    <3>. QED BY <1>1, <2>1, <3>3, <3>4, <3>5 DEF ReadingSecond
  <2>. QED BY <2>2, <2>3, <2>4 DEF RtcInv
<1>. QED BY <1>4, <1>5, <1>6

\* One field of a converted reading.
LEMMA ConvertedField ==
  ASSUME NEW read, NEW k \in 1 .. 4
  PROVE  Converted(read)[k] = IF k = 3 THEN DecodeHour(read[k]) ELSE Decode(read[k])
BY Zenon DEF Converted, Registers

\* Two readings that are the same give the time of the check between them.
LEMMA SameReadings ==
  ASSUME RtcTypes, MaxTicks < 60, format.hours = 24, NEW c \in began .. clock,
         NEW second, Len(second) = 4, ReadAround(c, second), Converted(time1) = Converted(second)
  PROVE  Converted(time1) = Fields(c)
<1>1. began \in Nat /\ c \in Nat /\ Latest \in Nat /\ Latest - began < 60
  BY RtcAssumption DEF RtcTypes, Latest
<1>2. ASSUME NEW k \in 1 .. 4
      PROVE  Converted(time1)[k] = Fields(c)[k]
  <2>1. PICK b \in began .. c : time1[k] = Shown(k, b)
    BY DEF ReadAround
  <2>2. PICK d \in c .. Latest : second[k] = Shown(k, d)
    BY DEF ReadAround
  <2>3. b \in Nat /\ d \in Nat /\ b <= c /\ c <= d /\ d - b < 60
    BY <1>1
  <2>4. Converted(time1)[k] = Fields(b)[k]
    <3>1. Converted(time1)[k] = IF k = 3 THEN DecodeHour(time1[k]) ELSE Decode(time1[k])
      BY ConvertedField, Zenon
    <3>2. (IF k = 3 THEN DecodeHour(Shown(k, b)) ELSE Decode(Shown(k, b))) = Fields(b)[k]
      BY <2>3, Decoded, Zenon
    <3>. QED BY <3>1, <3>2, <2>1, Zenon
  <2>5. Converted(second)[k] = Fields(d)[k]
    <3>1. Converted(second)[k] = IF k = 3 THEN DecodeHour(second[k]) ELSE Decode(second[k])
      BY ConvertedField, Zenon
    <3>2. (IF k = 3 THEN DecodeHour(Shown(k, d)) ELSE Decode(Shown(k, d))) = Fields(d)[k]
      BY <2>3, Decoded, Zenon
    <3>. QED BY <3>1, <3>2, <2>2, Zenon
  <2>6. Fields(b)[k] = Fields(d)[k]
    BY <2>4, <2>5, Zenon
  <2>7. Fields(b)[k] = Fields(c)[k]
    <3>1. WithinMinute(b, c, d)
      BY <1>1, <2>3, Zenon DEF WithinMinute
    <3>. QED BY <2>6, <3>1, SameBetween
  <2>. QED BY <2>4, <2>7, Zenon
<1>3. Converted(time1) = [k \in 1 .. 4 |-> Converted(time1)[k]]
  BY Zenon DEF Converted, Registers
<1>4. Fields(c) = [k \in 1 .. 4 |-> Fields(c)[k]]
  BY <1>1, FieldsParts
<1>. QED BY <1>2, <1>3, <1>4, Zenon

\* The second reading, and its comparison with the first.
LEMMA SecondReadingInv ==
  ASSUME RtcInv, MaxTicks < 60, ReadSecond
  PROVE  RtcInv'
<1>1. /\ format' = format /\ began' = began /\ clock' = clock /\ updated' = updated
      /\ time1' = time1
  BY DEF ReadSecond
<1>2. \A k, t : Shown(k, t)' = Shown(k, t)
  BY <1>1, SameFormat, Zenon
<1>3. /\ Latest' = Latest /\ began \in Nat /\ clock \in Nat /\ Latest \in Nat /\ clock <= Latest
      /\ began <= clock
  BY <1>1 DEF RtcInv, RtcTypes, Latest
<1>4. PICK n, value : n = Len(time2) /\ value = Register(n + 1)
  BY Zenon
<1>5. n \in 0 .. 3 /\ time1 \in Seq(Nat) /\ time2 \in Seq(Nat) /\ Len(time1) = 4
  <2>1. where = "second" /\ time1 \in Seq(Nat) /\ time2 \in Seq(Nat)
    BY DEF ReadSecond, RtcInv, RtcTypes
  <2>2. Len(time1) = 4 /\ Len(time2) < 4
    BY <2>1 DEF RtcInv, ReadingSecond
  <2>3. n = Len(time2)
    BY <1>4
  <2>4. n \in Nat /\ n < 4
    BY <2>1, <2>2, <2>3
  <2>5. n \in 0 .. 3
    BY <2>4
  <2>. QED BY <2>1, <2>2, <2>5, Zenon
<1>6. PICK c \in began .. clock : ReadAround(c, time2)
  BY DEF ReadSecond, RtcInv, ReadingSecond
<1>7. PICK t \in clock .. Latest : value = Shown(n + 1, t)
  <2>1. PICK k : k = n + 1
    OBVIOUS
  <2>2. k \in 1 .. 4
    BY <2>1, <1>5
  <2>3. value = Register(k) /\ RtcTypes
    BY <2>1, <1>4, Zenon DEF RtcInv
  <2>. QED BY <2>1, <2>2, <2>3, RegisterShows, Zenon
<1>8. value \in Nat
  <2>1. n + 1 \in 1 .. 4 /\ t \in Nat
    BY <1>3, <1>5
  <2>. QED BY <1>7, <2>1, Decoded, Zenon DEF RtcInv
<1>9. PICK second : second = Append(time2, value)
  BY Zenon
<1>10. time2' = second
  BY <1>4, <1>9 DEF ReadSecond
<1>11. /\ second \in Seq(Nat) /\ Len(second) = n + 1 /\ second[n + 1] = value
       /\ \A k \in 1 .. n : second[k] = time2[k]
  BY <1>4, <1>5, <1>8, <1>9
<1>12. ReadAround(c, second)
  <2>1. ASSUME NEW k \in 1 .. n + 1
        PROVE  \E s \in c .. Latest : second[k] = Shown(k, s)
    <3>1. CASE k = n + 1
      <4>1. t \in c .. Latest
        BY <1>3
      <4>. QED BY <3>1, <4>1, <1>7, <1>11
    <3>2. CASE k \in 1 .. n
      BY <3>2, <1>4, <1>6, <1>11, Zenon DEF ReadAround
    <3>. QED BY <3>1, <3>2, <1>5
  <2>. QED BY <2>1, <1>6, <1>11, Zenon DEF ReadAround
<1>13. where' = IF n + 1 < 4 THEN "second"
                ELSE IF Converted(time1) = Converted(second) THEN "done" ELSE "wait"
  BY <1>10, <1>11, Zenon DEF ReadSecond, Registers, Same
<1>14. RtcTypes'
  BY <1>1, <1>3, <1>5, <1>10, <1>11, <1>13, Zenon DEF RtcInv, RtcTypes
<1>15. ReadingFirst'
  BY <1>13 DEF ReadingFirst
<1>16. ReadingSecond'
  <2>1. ReadAround(c, time2)'
    BY <1>1, <1>2, <1>3, <1>10, <1>12, Zenon DEF ReadAround
  <2>2. where' = "second" => Len(time2') < 4
    BY <1>5, <1>10, <1>11, <1>13, Zenon
  <2>. QED BY <2>1, <2>2, <1>1, <1>5 DEF ReadingSecond
<1>17. TimeWasShown'
  <2>1. SUFFICES ASSUME where' = "done", format.hours = 24
                 PROVE  Converted(time1)' = Fields(c)
    BY <1>1 DEF TimeWasShown
  <2>2. Len(second) = 4 /\ Converted(time1) = Converted(second)
    BY <1>5, <1>11, <1>13, <2>1
  <2>3. Converted(time1) = Fields(c)
    BY <1>12, <2>1, <2>2, SameReadings DEF RtcInv
  <2>4. Converted(time1)' = Converted(time1)
    BY <1>1, SameFormat, Zenon
  <2>. QED BY <2>3, <2>4, Zenon
<1>. QED BY <1>14, <1>15, <1>16, <1>17 DEF RtcInv

\* At the start nothing was read.
LEMMA RtcStarts == RtcInit => RtcInv
BY RtcAssumption DEF RtcInit, RtcInv, RtcTypes, Latest, ReadingFirst, ReadingSecond, TimeWasShown

\* Every step of the clock and of now keeps the invariant.
LEMMA RtcKept == ASSUME MaxTicks < 60 PROVE RtcInv /\ [RtcNext]_rtcVars => RtcInv'
<1>. SUFFICES ASSUME RtcInv, [RtcNext]_rtcVars PROVE RtcInv'
  OBVIOUS
<1>1. CASE RtcNext
  BY <1>1, ClockInv, FirstReadingInv, SecondReadingInv DEF RtcNext
<1>2. CASE UNCHANGED rtcVars
  <2>1. /\ format' = format /\ began' = began /\ clock' = clock /\ updated' = updated
        /\ where' = where /\ time1' = time1 /\ time2' = time2
    BY <1>2 DEF rtcVars
  <2>2. \A k, t : Shown(k, t)' = Shown(k, t)
    BY <2>1, SameFormat, Zenon
  <2>3. Converted(time1)' = Converted(time1) /\ Latest' = Latest
    BY <2>1, SameFormat, Zenon DEF Latest
  <2>4. RtcTypes' /\ TimeWasShown'
    BY <2>1, <2>3 DEF RtcInv, RtcTypes, TimeWasShown
  <2>5. ReadingFirst'
    BY <2>1, <2>2, <2>3, Zenon DEF RtcInv, ReadingFirst
  <2>6. \A c : ReadAround(c, time2) => ReadAround(c, time2)'
    BY <2>1, <2>2, <2>3, Zenon DEF ReadAround
  <2>7. ReadingSecond'
    BY <2>1, <2>6, Zenon DEF RtcInv, ReadingSecond
  <2>. QED BY <2>4, <2>5, <2>7 DEF RtcInv
<1>. QED BY <1>1, <1>2

\* Time::now gives a time that a clock of 24 hours showed during the call, and no
\* mixture of two, whatever the time it is called at, if the call takes less than a
\* minute (past that the seconds come round, and two readings may agree by chance).
THEOREM RtcTime == ASSUME MaxTicks < 60 PROVE RtcSpec => []TimeWasShown
<1>1. RtcInv => TimeWasShown
  BY DEF RtcInv
<1>2. RtcInv /\ [RtcNext]_rtcVars => RtcInv'
  BY RtcKept
<1>. QED BY <1>1, <1>2, RtcStarts, PTL DEF RtcSpec
=============================================================================
