\* Four handlers that add, remove and remove themselves while an event is fired
\* three times.  No handler is left to add or fire in the end.
SPECIFICATION Spec
CHECK_DEADLOCK FALSE
CONSTANTS
  Handler = {h1, h2, h3, h4}
  Null = Null
  MaxDepth = 2
  MaxFires = 3
INVARIANTS CalledAlive LivesWhileNeeded
PROPERTY FireVisits
