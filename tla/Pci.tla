-------------------------------- MODULE Pci --------------------------------
(***************************************************************************)
(* The PCI driver (drivers/pci/src/pci.rs) as memory::init uses it: the    *)
(* iterator over the devices, a position kept between two calls of next,   *)
(* and for each device the base address registers (BARs), whose sizes are  *)
(* found by writing ones and reading back.                                 *)
(***************************************************************************)
EXTENDS Integers, Sequences, FiniteSetsExt

CONSTANTS LastBus, LastId, LastFunction,  \* 255, 31 and 7 in the code
          LastSlot,                       \* 5 in the code
          WordBits,                       \* 32 in the code
          Slots,      \* what may be at an address: see Machine
          Layouts     \* BARs a device may have: see Bars

ASSUME PciAssumption ==
  /\ {LastBus, LastId, LastFunction, LastSlot} \subseteq Nat /\ WordBits \in Nat \ {0}

VARIABLES
  machine,   \* what is at each bus and id
  layout,    \* the BARs of the devices, and whether they are bridges
  bus, id,   \* DeviceIter::bus and id
  multi,     \* DeviceIter::multi_function; function 0 for None
  found,     \* devices that next has returned
  slot,      \* next slot of the last device; LastSlot + 1 when there is none
  previous64,\* prev_was_64
  words,     \* the BAR registers of the last device
  tracked,   \* what was registered for the last device
  scan       \* "scanning", "scanned" or "panicked"

pciVars == <<machine, layout, bus, id, multi, found, slot, previous64, words, tracked, scan>>

NoFunction == [bus |-> 0, id |-> 0, function |-> 0]

-----------------------------------------------------------------------------
(* The machine: at each address a set of functions with a class that is known *)
(* (open skips the others), and whether function 0 says there are more.       *)
Open0(b, i, f) == f \in machine[b, i].functions
MultipleFunctions(b, i) == machine[b, i].multiple

(* The BARs: kind "none", "io", "mem32", "mem64", "upper", the second half of *)
(* a mem64, or "mem20", a memory type that bar does not know; and for memory  *)
(* the exponent of its size.  A register keeps the bits above the size and    *)
(* has fixed type bits.                                                       *)
Low(value) == value % 2^WordBits
High(value) == value \div 2^WordBits
TypeBits(k) == CASE k = "io" -> 1 [] k = "mem64" -> 4 [] k = "mem20" -> 2 [] OTHER -> 0
Size(s) == 2^layout.bars[s].exponent
Base(s) ==
  LET k == layout.bars[s].exponent
  IN  IF layout.bars[s].kind = "mem64"
      THEN 2^(2 * WordBits - 2) + IF k < WordBits THEN 2^(WordBits - 1) ELSE 0
      ELSE 2^(WordBits - 1)
Kept(s, value) ==
  LET k == layout.bars[s].kind
  IN  CASE k = "none" -> 0
        [] k = "upper" -> LET size == Size(s - 1)
                          IN  IF size >= 2^WordBits THEN value - (value % High(size)) ELSE value
        [] OTHER -> (IF Size(s) >= 2^WordBits THEN 0 ELSE value - (value % Size(s))) + TypeBits(k)
InitialWord(s) ==
  CASE layout.bars[s].kind = "none" -> 0
    [] layout.bars[s].kind = "upper" -> High(Base(s - 1))
    [] OTHER -> Kept(s, Low(Base(s)))
InitialWords == [s \in 0 .. LastSlot |-> InitialWord(s)]

PciInit ==
  /\ machine \in [(0 .. LastBus) \X (0 .. LastId) -> Slots]
  /\ layout \in Layouts
  /\ bus = 0 /\ id = 0 /\ multi = NoFunction /\ found = <<>>
  /\ slot = LastSlot + 1 /\ previous64 = FALSE /\ words = InitialWords /\ tracked = {}
  /\ scan = "scanning"

-----------------------------------------------------------------------------
(* DeviceIter::next                                                           *)
Yield(b, i, f) ==
  /\ found' = Append(found, [bus |-> b, id |-> i, function |-> f])
  /\ slot' = 0 /\ previous64' = FALSE /\ words' = InitialWords /\ tracked' = {}

(* The functions that are left of a device that has several                   *)
FunctionsLeft == IF multi.function = 0 THEN {}
                 ELSE {f \in multi.function .. LastFunction : Open0(multi.bus, multi.id, f)}
MoreFunctions(f) ==
  IF f < LastFunction THEN [multi EXCEPT !.function = f + 1] ELSE NoFunction
NextFunction ==
  /\ FunctionsLeft # {}
  /\ LET f == Min(FunctionsLeft)
     IN  Yield(multi.bus, multi.id, f) /\ multi' = MoreFunctions(f)
  /\ UNCHANGED <<machine, layout, bus, id, scan>>

FirstFunctions(b, i) ==
  IF MultipleFunctions(b, i) THEN [bus |-> b, id |-> i, function |-> 1] ELSE NoFunction

YieldFirst(b, i) ==
  /\ Yield(b, i, 0) /\ bus' = b /\ id' = i + 1 /\ multi' = FirstFunctions(b, i)
  /\ UNCHANGED <<machine, layout, scan>>

(* The rest of the current bus                                                *)
IdsLeft == {i \in id .. LastId : Open0(bus, i, 0)}
NextOnBus == FunctionsLeft = {} /\ IdsLeft # {} /\ YieldFirst(bus, Min(IdsLeft))

\* Mutant: the position within the bus is kept for the buses that follow.
LaterSameId(b) == {i \in id .. LastId : Open0(b, i, 0)}

(* The buses that follow, from their first address                            *)
Later(b) == {i \in 0 .. LastId : Open0(b, i, 0)}
BusesLeft == {b \in bus + 1 .. LastBus : Later(b) # {}}
NextBus ==
  /\ FunctionsLeft = {} /\ IdsLeft = {} /\ BusesLeft # {}
  /\ LET b == Min(BusesLeft) IN YieldFirst(b, Min(Later(b)))

NoMoreDevices ==
  /\ FunctionsLeft = {} /\ IdsLeft = {} /\ BusesLeft = {}
  /\ bus' = IF bus < LastBus THEN bus + 1 ELSE bus
  /\ multi' = NoFunction /\ scan' = "scanned"
  /\ UNCHANGED <<machine, layout, id, found, slot, previous64, words, tracked>>

NextDevice ==
  /\ scan = "scanning" /\ slot = LastSlot + 1
  /\ NextFunction \/ NextOnBus \/ NextBus \/ NoMoreDevices

-----------------------------------------------------------------------------
(* Device::bar                                                                *)
Ones == 2^WordBits - 1
NoBar == layout.bridge = "host" \/ (layout.bridge = "pci" /\ slot >= 2)
IsIo(word) == word % 2 = 1
MemType(word) == (word \div 2) % 4
ClearType(word) == word - (word % 16)
TrailingZeros(word) ==
  IF word = 0 THEN WordBits ELSE Max({n \in 0 .. WordBits - 1 : word % 2^n = 0})

(* A size in the low word is computed as a signed word and then widened.      *)
LowSize(word) ==
  LET n == TrailingZeros(word)
  IN  IF n = WordBits - 1 THEN 2^(2 * WordBits) - 2^n ELSE 2^n
Size64(low, high) ==
  IF ClearType(low) # 0 THEN LowSize(ClearType(low)) ELSE 2^(TrailingZeros(high) + WordBits)

Skip(is64) ==
  /\ slot' = slot + 1 /\ previous64' = is64
  /\ UNCHANGED <<machine, layout, bus, id, multi, found, words, tracked, scan>>
Track(address, size, is64, written) ==
  /\ tracked' = tracked \union {[slot |-> slot, address |-> address, size |-> size]}
  /\ words' = written /\ slot' = slot + 1 /\ previous64' = is64
  /\ UNCHANGED <<machine, layout, bus, id, multi, found, scan>>

\* Mutant: a 64-bit register is written back like a 32-bit one.
Restored64Low(low, high) == [words EXCEPT ![slot] = Kept(slot, low), ![slot + 1] = Kept(slot + 1, Ones)]

Restored64(low, high) ==
  [words EXCEPT ![slot] = Kept(slot, low), ![slot + 1] = Kept(slot + 1, high)]

Mem32(address) ==
  LET readback == Kept(slot, Ones)
      restored == [words EXCEPT ![slot] = Kept(slot, address)]
  IN  IF readback = 0 THEN Skip(FALSE)
      ELSE Track(address, 2^TrailingZeros(ClearType(readback)), FALSE, restored)
Mem64(address) ==
  LET high == words[slot + 1]
      size == Size64(Kept(slot, Ones), Kept(slot + 1, Ones))
  IN  Track(address + 2^WordBits * high, size, TRUE, Restored64(address, high))

(* "unknown PCI BAR memory type"                                              *)
UnknownType ==
  /\ scan' = "panicked"
  /\ UNCHANGED <<machine, layout, bus, id, multi, found, slot, previous64, words, tracked>>

Bar(word) ==
  IF NoBar \/ IsIo(word) THEN Skip(FALSE)
  ELSE CASE MemType(word) = 0 -> Mem32(ClearType(word))
         [] MemType(word) = 2 -> IF slot >= LastSlot THEN Skip(FALSE) ELSE Mem64(ClearType(word))
         [] OTHER -> UnknownType

(* The loop of memory::init over the slots of a device                        *)
ReadSlot ==
  /\ scan = "scanning" /\ slot <= LastSlot
  /\ IF previous64 THEN Skip(FALSE) ELSE Bar(words[slot])

PciNext == NextDevice \/ ReadSlot

PciSpec == PciInit /\ [][PciNext]_pciVars

-----------------------------------------------------------------------------
(* The loops that a comment in next gives as its meaning                      *)
Nested ==
  {[bus |-> b, id |-> i, function |-> f] : b \in 0 .. LastBus, i \in 0 .. LastId, f \in 0 .. LastFunction}
Meant == {d \in Nested : /\ Open0(d.bus, d.id, 0) /\ Open0(d.bus, d.id, d.function)
                         /\ d.function > 0 => MultipleFunctions(d.bus, d.id)}

(* The iterator returns each device that the nested loops would, once.        *)
DevicesEachOnce ==
  /\ \A m, n \in DOMAIN found : found[m] = found[n] => m = n
  /\ \A n \in DOMAIN found : found[n] \in Meant
  /\ scan = "scanned" => \A d \in Meant : \E n \in DOMAIN found : found[n] = d

(* Once the slots of a device were read, its registers are as before, and the *)
(* tracker has each memory BAR with its address and size, and nothing else;   *)
(* except for the size of a 64-bit BAR of half the range of a word.  The scan *)
(* ends in a panic only at a BAR of a type it does not know: the upper half   *)
(* of a 64-bit address is never read as a register of its own.                *)
MemorySlots ==
  {s \in 0 .. LastSlot : /\ layout.bars[s].kind \in {"mem32", "mem64"}
                         /\ layout.bridge = "no" \/ (layout.bridge = "pci" /\ s < 2)}
HalfRange(s) == layout.bars[s].kind = "mem64" /\ layout.bars[s].exponent = WordBits - 1
BarsAsTheyAre ==
  /\ slot > LastSlot /\ found # <<>> =>
       /\ words = InitialWords
       /\ {t.slot : t \in tracked} = MemorySlots
       /\ \A t \in tracked : /\ t.address = Base(t.slot)
                             /\ t.size = Size(t.slot) \/ HalfRange(t.slot)
  /\ scan = "panicked" => layout.bars[slot].kind = "mem20"
=============================================================================
