\* The expressions the allocator handles, of up to 7 nodes (Tame in
\* MCRegisterState): additions, shifts, 8-bit divisions, subscripts and calls,
\* and a wide division or remainder as the whole expression.  LongMask is
\* longMask: RAX, RCX, RDX, R8, R9, R10, R11.  The compiler stops when the
\* statement is compiled, so a terminal state is no deadlock.
SPECIFICATION Spec
CHECK_DEADLOCK FALSE
CONSTANTS
  LongMask = {1, 3, 4, 9, 10, 11, 12}
  Ops = {"add", "shift", "bytediv", "subscript"}
  MaxNodes = 7
  MaxArgs = 3
  Kept <- Tame
  Exprs <- DivisionOnTop
INVARIANTS
  OperandsInPlace
  RegistersAccounted
  SpillsNest
  SpillsEmitted
PROPERTY
  Completes
