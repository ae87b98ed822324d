\* Up to four of five arguments; the fourth long name makes a table of four
\* slots grow, the third argument the vector.
SPECIFICATION Spec
CONSTANTS
  HashValue <- MCHash
  InitialTableSize = 4
  RehashShift = 1
  MinSize = 2
  Options <- MCOptions
  Code <- MCCode
  FinalMin = 0
  FinalMax = 1
  Texts <- MCTexts
  Finals <- MCFinals
  MaxDefined = 4
  MaxWords = 3
INVARIANTS NamesFound ParseRight HelpComplete
CHECK_DEADLOCK FALSE
