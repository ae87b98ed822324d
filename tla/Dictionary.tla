------------------------------ MODULE Dictionary ------------------------------
(* dictionary<A> of dictionary.h as operators on a value: open addressing with   *)
(* linear probing in a table whose size is a power of two.  Nothing is ever       *)
(* removed from one.  A key is a sequence, a value a pointer, 0 for null.         *)
EXTENDS Integers, FiniteSetsExt

CONSTANTS
  HashValue(_),      \* key.hashValue()
  InitialTableSize,  \* INITIAL_TABLE_SIZE (64 in the code)
  RehashShift        \* REHASH_SHIFT (3 in the code)

ASSUME DictionaryAssumption ==
  /\ InitialTableSize \in Nat /\ InitialTableSize % 2 = 0
  /\ RehashShift \in Nat /\ 2 ^ RehashShift \in Nat \ {0}
  /\ InitialTableSize > 2 ^ RehashShift

Vacant == [key |-> <<>>, value |-> 0, valid |-> FALSE]

Probe(d, key, n) == (HashValue(key) + n) % d.allocated

FindEntry(d, key) ==
  LET stops == {n \in 0 .. d.allocated - 1 :
                  LET e == d.entries[Probe(d, key, n)] IN e.valid => e.key = key}
  IN  Probe(d, key, Min(stops))

Get(d, key) == d.entries[FindEntry(d, key)].value
Has(d, key) == d.entries[FindEntry(d, key)].valid

(* Defect: the entry about to be added is not counted.                        *)
TooFullLate(d) == d.count > d.threshold + 1

TooFull(d) == d.count > d.threshold

Place(d, key, value) ==
  [d EXCEPT !.entries[FindEntry(d, key)] = [key |-> key, value |-> value, valid |-> TRUE],
            !.count = @ + 1]

Threshold(size) == (size * (2 ^ RehashShift - 1)) \div 2 ^ RehashShift

(* Each entry is inserted again under the old threshold, which the count of the  *)
(* entries inserted before it never exceeds.                                     *)
Rehash(d) ==
  LET size == 2 * d.allocated
      moved[n \in 0 .. d.allocated] ==
        IF n = 0 THEN [d EXCEPT !.entries = [i \in 0 .. size - 1 |-> Vacant],
                                !.allocated = size, !.count = 0]
        ELSE LET e == d.entries[n - 1]
             IN  IF e.valid THEN Place(moved[n - 1], e.key, e.value) ELSE moved[n - 1]
  IN  [moved[d.allocated] EXCEPT !.threshold = Threshold(size)]

Cleared ==
  LET size == InitialTableSize \div 2
  IN  Rehash([entries |-> [i \in 0 .. size - 1 |-> Vacant],
              allocated |-> size, count |-> 0, threshold |-> 0])

Put(d, key, value) ==
  IF Has(d, key) THEN [d EXCEPT !.entries[FindEntry(d, key)].value = value]
                 ELSE Place(IF TooFull(d) THEN Rehash(d) ELSE d, key, value)

=============================================================================
