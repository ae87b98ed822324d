\* Wide divisions anywhere: one that is an argument of a call claims RDX
\* although an earlier argument is in it.  The two other shapes that Tame leaves
\* out: Ops = {"add", "shift"} and MaxArgs = 2, the shift that is an argument;
\* Ops = {"add", "subscript"}, MaxNodes = 7, MaxArgs = 1 and NoAssertFails in
\* place of OperandsInPlace, the subscript read by an addition with a call.
SPECIFICATION Spec
CHECK_DEADLOCK FALSE
CONSTANTS
  LongMask = {1, 3, 4, 9, 10, 11, 12}
  Ops = {"add", "div", "rem"}
  MaxNodes = 6
  MaxArgs = 3
  Kept <- Everything
  Exprs <- AllExprs
INVARIANT OperandsInPlace
