\* A handler fires its own event again.
SPECIFICATION Spec
CHECK_DEADLOCK FALSE
CONSTANTS
  Handler = {h1, h2}
  Null = Null
  MaxDepth = 2
  MaxFires = 2
INVARIANT BusyWhileCalled
