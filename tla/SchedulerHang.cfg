SPECIFICATION FairSpec
CONSTANTS
  SIZE = 2
  None = None
  NumApps = 1
  Answers = {"AllowModuleAccess"}
  MaxEvents = 1
  BadAccess = FALSE
PROPERTIES
  ReadyRuns
CHECK_DEADLOCK FALSE
