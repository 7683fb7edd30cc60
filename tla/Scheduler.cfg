SPECIFICATION Spec
CONSTANTS
  SIZE = 2
  None = None
  NumApps = 2
  Answers = {"AllowModuleAccess", "ExitProcess"}
  MaxEvents = 2
  BadAccess = TRUE
INVARIANTS
  SchedulerInv
  ActiveSpaceIsLive
  GrantMatchesFault
PROPERTIES
  IdleOnlyWhenNothingReady
  NormalGainsOnlyWhenBlocked
  ImplementsProtocol
CHECK_DEADLOCK FALSE
