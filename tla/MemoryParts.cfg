SPECIFICATION MCSpec
CONSTANTS
  WORD = 3
  BITMAP_LEN = 2
  PAGE_SIZE = 2
  MEBIBYTE = 2
  BootInfos <- MCBootInfos
  ENTRIES = 2
  Root = 0
  Firmware <- MCFirmware
  Pool = {11, 12, 13, 14}
  DataFrames = {50}
  MapPages <- MCMapPages
  Flags <- MCFlags
  Ranges <- MCRanges
  Nothing = Nothing
  ALIGN = 2
  MIN_ALLOC_SIZE = 4
  None = None
  Bottom = 3
  Size = 35
  Layouts <- MCLayouts
INVARIANTS
  AllocatorInv
  HandsOutOnlyFreeMemory
  TablesAreATree
  LeafDecides
  HeapInv
  NoPlaceMissed
PROPERTIES
  AllocatesLowest
  MappingsStay
  MapToIsLocal
