SPECIFICATION MCSpec
CONSTANTS
  Blocks <- MCBlocks
  MaxCount = 2
  MaxCalls = 4
  StartTimes <- MCStartTimes
  MaxTicks = 3
  LastBus = 1
  LastId = 1
  LastFunction = 2
  LastSlot = 3
  WordBits = 8
  Slots <- MCSlots
  Layouts <- MCLayouts
  Width = 7
  Height = 5
  Unit = 2
  PointerWidth = 2
  PointerHeight = 2
  PointerHoles = {1}
  CharWidth = 3
  CharHeight = 2
  Text <- MCText
  Font <- MCFont
  Placements <- MCPlacements
  Deltas <- MCDeltas
  MaxEvents = 3
  CapabilityLists <- MCCapabilityLists
  QUEUE_SIZE = 2
  IndexModulus = 6
  InputQueueSize = 2
  MaxUsed = 4
  MaxPops = 5
INVARIANTS
  AnswersAreOwn
  TimeWasShown
  DevicesEachOnce
  BarsAsTheyAre
  ScreenIsComposed
  OpenedAsListed
  DescriptorsAccounted
  EventsInOrder
  InitializedIsShown
PROPERTIES
  CallsReturn
  PopsWhatWasUsed
  Served
CHECK_DEADLOCK FALSE
