SPECIFICATION Spec
CONSTANTS
  SIZE = 2
  None = None
  NumApps = 1
  Answers = {"AllowModuleAccess"}
  MaxEvents = 1
  BadAccess = TRUE
INVARIANTS
  FaultKillsProcess
CHECK_DEADLOCK FALSE
