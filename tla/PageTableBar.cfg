SPECIFICATION TableSpec
CONSTANTS
  ENTRIES = 2
  Root = 0
  Firmware <- MCHugeFirmware
  Pool = {11, 12, 13, 14}
  DataFrames = {50}
  MapPages = {8, 15}
  Flags <- MCFlags
  Ranges <- MCBar
  Nothing = Nothing
INVARIANTS
  SetFlagsCoversRange
