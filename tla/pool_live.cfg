CONSTANTS
  Workers = {1, 2}
  Clients = {o, c}
  Owner = o
  Jobs = {j1, j2, j3}
  Callers = {c, j1}
  Helpers = {}
  Flushers = {}
  Interrupts = {}
  DrainFirst = TRUE
  Stop = stop
  Null = null
SPECIFICATION FairSpec
PROPERTIES AcceptedIsServed DestroyEnds
CHECK_DEADLOCK FALSE
