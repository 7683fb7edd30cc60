---------------------------- MODULE Capabilities ----------------------------
(***************************************************************************)
(* Opening a virtio device (drivers/virtio/src/virtio.rs) on a PCI device: *)
(* each of its configuration structures is looked for in the list of the   *)
(* device's capabilities (CapabilityIter in drivers/pci/src/pci.rs), and   *)
(* MSI-X is turned off.  The iterator ends at the first capability with an *)
(* id it does not know; past the list it reads the header of the device,   *)
(* where the id of a virtio device's vendor is none it knows.  Where a     *)
(* structure lies in its BAR is left out.                                  *)
(***************************************************************************)
EXTENDS Integers, Sequences, FiniteSetsExt

CONSTANT CapabilityLists  \* lists that a device may have, of CapabilityKinds

CapabilityKinds == {"common", "notify", "device", "msix", "other", "unknown"}

ASSUME CapabilitiesAssumption == CapabilityLists \subseteq Seq(CapabilityKinds)

VARIABLES
  capabilities, \* the list in the configuration space
  sought,       \* which search this is, of Searches
  offset,       \* CapabilityIter::offset: a place in the list, 0 for the header
  held,         \* for each search the place it found, 0 for None
  msix,         \* whether MSI-X is on
  opening       \* "opening", "failed" or "opened"

capVars == <<capabilities, sought, offset, held, msix, opening>>

Searches == <<"common", "notify", "device", "msix">>

(* CapabilityIter::new                                                        *)
FirstOffset(list) == IF list = <<>> THEN 0 ELSE 1

CapInit ==
  /\ capabilities \in CapabilityLists /\ sought = 1 /\ offset = FirstOffset(capabilities)
  /\ held = [n \in DOMAIN Searches |-> 0] /\ msix = TRUE /\ opening = "opening"

(* CapabilityIter::next, and Capability::from_raw                             *)
KindAt(n) == IF n = 0 THEN "unknown" ELSE capabilities[n]
Following(n) == IF n = Len(capabilities) THEN 0 ELSE n + 1
Known(kind) == kind # "unknown"

\* Mutant: any structure of the vendor is taken.
MatchesVendor(kind, wanted) == kind = wanted \/ {kind, wanted} \subseteq {"common", "notify", "device"}

(* The capability is the vendor's and has the type that is looked for.        *)
Matches(kind, wanted) == kind = wanted

(* set_msix: the last search, by initialize; nothing is done if it found none *)
MsixAfter(place) == IF sought = Len(Searches) /\ place # 0 THEN FALSE ELSE msix

(* After a search: new fails without the first two structures                 *)
Searched(place) ==
  /\ held' = [held EXCEPT ![sought] = place]
  /\ offset' = FirstOffset(capabilities)
  /\ opening' = IF place = 0 /\ sought <= 2 THEN "failed"
                ELSE IF sought = Len(Searches) THEN "opened" ELSE opening
  /\ sought' = IF opening' = "opening" THEN sought + 1 ELSE sought
  /\ msix' = MsixAfter(place)
  /\ UNCHANGED capabilities

Visit ==
  /\ opening = "opening"
  /\ LET kind == KindAt(offset)
     IN  IF ~Known(kind) THEN Searched(0)
         ELSE IF Matches(kind, Searches[sought]) THEN Searched(offset)
         ELSE /\ offset' = Following(offset)
              /\ UNCHANGED <<capabilities, sought, held, msix, opening>>

CapNext == Visit

CapSpec == CapInit /\ [][CapNext]_capVars

-----------------------------------------------------------------------------
(* Where a kind is listed ahead of every capability that is not known         *)
Listed(kind) ==
  LET places == {n \in DOMAIN capabilities :
                   capabilities[n] = kind /\ \A m \in 1 .. n : Known(capabilities[m])}
  IN  IF places = {} THEN 0 ELSE Min(places)

(* A device is opened exactly if both structures it cannot do without are     *)
(* listed, with the first listed structure of each kind, and with MSI-X off   *)
(* if it is listed.                                                           *)
OpenedAsListed ==
  /\ opening = "failed" => Listed("common") = 0 \/ Listed("notify") = 0
  /\ opening = "opened" => /\ Listed("common") # 0 /\ Listed("notify") # 0
                           /\ \A n \in DOMAIN Searches : held[n] = Listed(Searches[n])
                           /\ msix <=> Listed("msix") = 0
=============================================================================
