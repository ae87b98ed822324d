SPECIFICATION Spec
CONSTANTS
  Files <- MCFiles
  Images <- MCImages
  MaxRuns = 4
  MaxOwn = 1
  EvalFromNative = TRUE
INVARIANT ArgumentsInPlace
CHECK_DEADLOCK FALSE
