----------------------------- MODULE MCDrivers -----------------------------
(***************************************************************************)
(* Instances of the drivers: each behaviour is about one of them.          *)
(***************************************************************************)
EXTENDS Ata, Rtc, Pci, Framebuffer, Capabilities, Virtio

VARIABLE unit  \* the driver this behaviour is about

-----------------------------------------------------------------------------
(* The last block below the bit of the drive, and two in a row across it      *)
MCBlocks == {0, 2^28 - 1}

(* Two seconds before the hour, and before midnight                           *)
MCStartTimes == {35998, 86398}

(* Function 0 missing, alone, or with other functions, announced or not       *)
MCSlots ==
  {[functions |-> {}, multiple |-> FALSE], [functions |-> {1}, multiple |-> FALSE],
   [functions |-> {0, 1}, multiple |-> FALSE]}
    \union {[functions |-> {0} \union f, multiple |-> TRUE] : f \in SUBSET {1, 2}}
OneDevice == [address \in {0, 1} \X {0, 1} |->
                [functions |-> IF address = <<0, 1>> THEN {0, 1} ELSE {}, multiple |-> FALSE]]

(* Sizes at both ends of a word and above it                                  *)
MCBars ==
  {[kind |-> "none", exponent |-> 0], [kind |-> "io", exponent |-> 2],
   [kind |-> "mem32", exponent |-> 4], [kind |-> "mem32", exponent |-> 7],
   [kind |-> "mem64", exponent |-> 5], [kind |-> "mem64", exponent |-> 7],
   [kind |-> "mem64", exponent |-> 10], [kind |-> "upper", exponent |-> 0],
   [kind |-> "mem20", exponent |-> 4]}
Is(bar, k) == bar.kind = k
MCLayouts ==
  {[bars |-> b, bridge |-> g] :
     b \in {c \in [0 .. 3 -> MCBars] :
              /\ ~Is(c[0], "upper") /\ ~Is(c[3], "mem64")
              /\ \A s \in 1 .. 3 : Is(c[s], "upper") <=> Is(c[s - 1], "mem64")},
     g \in {"no", "host", "pci"}}
NoBars == [bars |-> [s \in 0 .. 3 |-> [kind |-> "none", exponent |-> 0]], bridge |-> "no"]

(* All lists of up to four capabilities                                      *)
MCCapabilityLists == UNION {[1 .. n -> CapabilityKinds] : n \in 0 .. 4}

(* Two characters, and a panel and a text inside the display, over its edges  *)
(* and beyond them, also between two pixels                                   *)
MCText == <<"R", "v">>
MCFont == [c \in {"R", "v"} |-> IF c = "R" THEN {<<0, 0>>, <<0, 1>>, <<1, 0>>} ELSE {<<1, 1>>}]
Inner == [panel |-> Area(Pt(5, 3), Pt(8, 6)), text |-> Pt(2, 1)]
MCPlacements ==
  {Inner, [panel |-> Area(Pt(2, 2), Pt(20, 20)), text |-> Pt(3, -2)],
   [panel |-> Area(Pt(20, 2), Pt(3, 20)), text |-> Pt(10, 9)]}
MCDeltas == {Pt(x, y) : x \in {-3, -1, 0, 2}, y \in {-4, -1, 0, 2}}

-----------------------------------------------------------------------------
(* A unit that the behaviour is not about stays in a state it can start in.   *)
AtaRests == kinds = [d \in Drives |-> "absent"] /\ register = 0 /\ AtaInit
RtcRests == format = [bcd |-> TRUE, hours |-> 24] /\ began = 35998 /\ RtcInit
PciRests == machine = OneDevice /\ layout = NoBars /\ PciInit
FbRests == placement = Inner /\ FbInit
CapRests == capabilities = <<>> /\ CapInit
VirtioRests == driver = "input" /\ Init

(* The PCI devices are enumerated without BARs, and the BARs are read on one. *)
PciUnit == (layout = NoBars \/ machine = OneDevice) /\ PciInit

MCInit ==
  /\ unit \in {"ata", "rtc", "pci", "framebuffer", "capabilities", "virtio"}
  /\ IF unit = "ata" THEN AtaInit ELSE AtaRests
  /\ IF unit = "rtc" THEN RtcInit ELSE RtcRests
  /\ IF unit = "pci" THEN PciUnit ELSE PciRests
  /\ IF unit = "framebuffer" THEN FbInit ELSE FbRests
  /\ IF unit = "capabilities" THEN CapInit ELSE CapRests
  /\ IF unit = "virtio" THEN Init ELSE VirtioRests

OnlyAta == unit = "ata" /\ UNCHANGED <<unit, rtcVars, pciVars, fbVars, capVars, vars>>
OnlyVirtio == unit = "virtio" /\ UNCHANGED <<unit, ataVars, rtcVars, pciVars, fbVars, capVars>>

MCNext ==
  \/ AtaNext /\ OnlyAta
  \/ unit = "rtc" /\ RtcNext /\ UNCHANGED <<unit, ataVars, pciVars, fbVars, capVars, vars>>
  \/ unit = "pci" /\ PciNext /\ UNCHANGED <<unit, ataVars, rtcVars, fbVars, capVars, vars>>
  \/ unit = "framebuffer" /\ FbNext /\ UNCHANGED <<unit, ataVars, rtcVars, pciVars, capVars, vars>>
  \/ unit = "capabilities" /\ CapNext /\ UNCHANGED <<unit, ataVars, rtcVars, pciVars, fbVars, vars>>
  \/ Next /\ OnlyVirtio

allVars == <<unit, ataVars, rtcVars, pciVars, fbVars, capVars, vars>>

(* The ATA driver goes on: it waits in no other way than by polling.  A       *)
(* virtio driver and its device go on as in Virtio.                           *)
MCSpec ==
  /\ MCInit /\ [][MCNext]_allVars
  /\ WF_allVars(Driver /\ OnlyAta)
  /\ WF_allVars(DriverStep /\ OnlyVirtio) /\ WF_allVars(Drain /\ OnlyVirtio)
  /\ WF_allVars(DeviceFetch /\ notified /\ OnlyVirtio)
  /\ WF_allVars(DeviceComplete /\ OnlyVirtio)
  /\ WF_allVars(DevicePublish /\ OnlyVirtio)
=============================================================================
