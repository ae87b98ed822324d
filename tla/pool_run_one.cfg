CONSTANTS
  Workers = {1, 2}
  Clients = {o, c}
  Owner = o
  Jobs = {j1, j2, j3}
  Callers = {c, j1}
  Helpers = {c, j1}
  Flushers = {o}
  Interrupts = {c}
  DrainFirst = FALSE
  Stop = stop
  Null = null
SPECIFICATION Spec
\* Either of the two; the other one fails, too.
PROPERTIES RunOneTrueMeansRan
\* INVARIANTS RunOneFalseMeansQuiet
\* The pool may be destroyed, or every caller may have had its turn.
CHECK_DEADLOCK FALSE
