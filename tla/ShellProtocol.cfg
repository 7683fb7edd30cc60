SPECIFICATION Spec
CONSTANTS
  SIZE = 3
  None = None
  NumApps = 3
  Answers = {"AllowModuleAccess", "ExitProcess"}
INVARIANTS
  AnswerMatchesFront
  NoOverwrite
CHECK_DEADLOCK FALSE
