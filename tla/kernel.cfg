\* Three processes and one unit: two may wait while the third is disturbed.
SPECIFICATION Spec
CONSTANTS
  Procs = {p1, p2, p3}
  Units = 1
  MaxKills = 1
SYMMETRY ProcsAlike
INVARIANT UnitsAccounted
PROPERTY ToldRight
CHECK_DEADLOCK FALSE
