SPECIFICATION Spec
CONSTANTS
  Main = "main"
  Others = {"other"}
  Limit = 2
  HasTimeout = TRUE
  ExitCodes <- LikeAnswers
  MaxOutput = 2
INVARIANTS OutputComplete VerdictRight
PROPERTY Returns
CHECK_DEADLOCK FALSE
