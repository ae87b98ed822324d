SPECIFICATION Spec
CONSTANTS
  Files <- MCFiles
  Images <- MCImages
  MaxRuns = 5
  MaxOwn = 1
  EvalFromNative = FALSE
INVARIANTS FailureHeard HandlerReached
PROPERTY CallerUntouched
CHECK_DEADLOCK FALSE
