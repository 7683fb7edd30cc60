SPECIFICATION FairSpec
CONSTANTS
  SIZE = 2
  None = None
  NumApps = 1
  Answers = {"AllowModuleAccess"}
  MaxEvents = 2
  BadAccess = FALSE
PROPERTIES
  ReadyRunsUnlessHang
  AnsweredUnlessStuck
CHECK_DEADLOCK FALSE
