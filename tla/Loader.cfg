SPECIFICATION MCSpec
CONSTANTS
  Objects <- MCObjects
  Globals <- MCGlobals
  Locals <- MCLocals
  Graphs <- MCGraphs
  Crates <- MCCrates
  StandIns <- MCStandIns
  Ignorable <- MCIgnorable
  Boot <- MCBoot
  Programs = {"driver"}
  MaxObjects = 10
  Sheets <- MCSheets
  FileSize = 9
  Bytes <- MCBytes
  Lengths = {0, 4, 16}
INVARIANTS
  RelocatedWhenIdle
  UsesAreOwned
  SectionsFit
  DecodedLength
PROPERTY
  LoadsEnd
CHECK_DEADLOCK FALSE
