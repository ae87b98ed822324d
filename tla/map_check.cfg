\* Four keys, three of which collide and whose probes wrap around the end; a
\* table of 4 slots that is rehashed for the fourth entry.
SPECIFICATION Spec
CONSTANTS
  Key = {1, 2, 3, 4}
  Value = {v1, v2}
  NoValue = NoValue
  Vacant = Vacant
  Hash <- HashOfKey
  InitialTableSize = 4
  RehashShift = 2
  MaxTableSize = 8
INVARIANTS TypeOK ProbeFinds CountExact RoomLeft IteratesAll ElementStays
PROPERTY MapSpec
SYMMETRY ValuesAlike
