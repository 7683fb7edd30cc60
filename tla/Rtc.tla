-------------------------------- MODULE Rtc --------------------------------
(***************************************************************************)
(* Reading the real-time clock (drivers/rtc/src/rtc.rs) while it runs.  A  *)
(* time is a number of seconds; the clock shows it in registers that are   *)
(* read one by one and that it updates one by one.  Month and year do not  *)
(* change here and are left out.                                           *)
(***************************************************************************)
EXTENDS Integers, Sequences

CONSTANTS StartTimes,  \* times at which Time::now is called
          MaxTicks     \* bound: updates of the clock during the call

ASSUME RtcAssumption == StartTimes \subseteq Nat /\ MaxTicks \in Nat

Registers == 4  \* second, minute, hour, day

VARIABLES
  format,    \* status register B: BCD or binary, 12 or 24 hours
  began,     \* the time at which now was called
  clock,     \* the time that the clock keeps
  updated,   \* 0, or one more than the number of registers updated so far
  where,     \* where now is: "wait", "first", "check", "second" or "done"
  time1,     \* what was read of time_1
  time2      \* what was read of time_2

rtcVars == <<format, began, clock, updated, where, time1, time2>>

RtcInit ==
  /\ format \in [bcd : BOOLEAN, hours : {12, 24}]
  /\ began \in StartTimes /\ clock = began /\ updated = 0
  /\ where = "wait" /\ time1 = <<>> /\ time2 = <<>>

-----------------------------------------------------------------------------
(* The clock: the update-in-progress flag is up while the registers change.   *)
Fields(t) == <<t % 60, (t \div 60) % 60, (t \div 3600) % 24, 1 + (t \div 86400)>>
Encode(value) == IF format.bcd THEN 16 * (value \div 10) + (value % 10) ELSE value
HourRegister(hour) ==
  IF format.hours = 24 THEN Encode(hour)
  ELSE Encode(1 + ((hour + 11) % 12)) + IF hour >= 12 THEN 128 ELSE 0
Register(k) ==
  LET value == Fields(IF k < updated THEN clock + 1 ELSE clock)[k]
  IN  IF k = 3 THEN HourRegister(value) ELSE Encode(value)

UpdateBegins ==
  /\ updated = 0 /\ clock < began + MaxTicks /\ updated' = 1
  /\ UNCHANGED <<format, began, clock, where, time1, time2>>
UpdateRegister ==
  /\ updated \in 1 .. Registers /\ updated' = updated + 1
  /\ UNCHANGED <<format, began, clock, where, time1, time2>>
UpdateEnds ==
  /\ updated = Registers + 1 /\ updated' = 0 /\ clock' = clock + 1
  /\ UNCHANGED <<format, began, where, time1, time2>>

-----------------------------------------------------------------------------
(* now_unsynced: one register after the other, then the conversion.           *)
ConvertBcd(value) == (value % 16) + 10 * (value \div 16)
Decode(value) == IF format.bcd THEN ConvertBcd(value) ELSE value
DecodeHour(value) ==
  LET hour == Decode(value % 128) + 128 * (value \div 128)
      afterNoon == hour >= 128
      format24 == (hour \div 2) % 2 = 1   \* the hour is tested, not status register B
  IN  IF format24 /\ afterNoon THEN ((hour % 128) + 12) % 24 ELSE hour
Converted(read) ==
  [k \in 1 .. Registers |-> IF k = 3 THEN DecodeHour(read[k]) ELSE Decode(read[k])]

AwaitUpdate ==
  /\ where = "wait" /\ updated = 0 /\ where' = "first" /\ time1' = <<>>
  /\ UNCHANGED <<format, began, clock, updated, time2>>

ReadFirst ==
  /\ where = "first" /\ time1' = Append(time1, Register(Len(time1) + 1))
  /\ where' = IF Len(time1') = Registers THEN "check" ELSE "first"
  /\ UNCHANGED <<format, began, clock, updated, time2>>

(* If the clock is updating the time again, retry.                            *)
Check ==
  /\ where = "check" /\ time2' = <<>>
  /\ where' = IF updated > 0 THEN "wait" ELSE "second"
  /\ UNCHANGED <<format, began, clock, updated, time1>>

\* Mutant: the two readings are not compared.
SameUnchecked == TRUE

Same == Converted(time1) = Converted(time2')

ReadSecond ==
  /\ where = "second" /\ time2' = Append(time2, Register(Len(time2) + 1))
  /\ where' = IF Len(time2') < Registers THEN "second" ELSE IF Same THEN "done" ELSE "wait"
  /\ UNCHANGED <<format, began, clock, updated, time1>>

RtcNext ==
  \/ UpdateBegins \/ UpdateRegister \/ UpdateEnds
  \/ AwaitUpdate \/ ReadFirst \/ Check \/ ReadSecond

RtcSpec == RtcInit /\ [][RtcNext]_rtcVars

-----------------------------------------------------------------------------
(* now returns a time that the clock showed during the call, never a mixture  *)
(* of two; for a clock that counts 24 hours.                                  *)
TimeWasShown ==
  where = "done" /\ format.hours = 24 =>
    \E t \in began .. clock : Converted(time1) = Fields(t)
=============================================================================
