-------------------------------- MODULE Vector --------------------------------
(* vector<A> of vector.h as operators on a value: an array whose size is doubled *)
(* when it is full, and the quicksort in place.  An element is a positive number, *)
(* 0 stands for what new A[] leaves in an element nobody has written.  Positions  *)
(* count from 1 here.                                                             *)
EXTENDS Integers, SequencesExt

CONSTANT MinSize   \* MIN_SIZE (16 in the code)

ASSUME VectorAssumption == MinSize \in Nat \ {0}

NoElements == [data |-> <<>>, count |-> 0]

Elements(v) == SubSeq(v.data, 1, v.count)

ReservedSize(length) ==
  LET size[k \in 0 .. length] ==
        IF k = 0 THEN MinSize ELSE IF size[k - 1] < length THEN 2 * size[k - 1] ELSE size[k - 1]
  IN  size[length]

Resize(v, length) ==
  IF length = 0 THEN NoElements
  ELSE IF Len(v.data) >= length THEN [v EXCEPT !.count = length]
  ELSE [data |-> [i \in 1 .. ReservedSize(length) |-> IF i <= v.count THEN v.data[i] ELSE 0],
        count |-> length]

PushBack(v, a) ==
  LET room == Resize(v, v.count + 1)
  IN  [room EXCEPT !.data[room.count] = a]

(* One pass over min .. max - 1: what is greater than the first element goes to  *)
(* the end, the rest moves one place down.  relation[a][b] is a->compare(b).     *)
Look(s, pivot, relation) ==
  IF relation[pivot][s.data[s.i]] < 0
  THEN [data |-> [s.data EXCEPT ![s.greater - 1] = s.data[s.i],
                                ![s.i] = s.data[s.greater - 1]],
        i |-> s.i, greater |-> s.greater - 1]
  ELSE [s EXCEPT !.data[s.i - 1] = s.data[s.i], !.i = @ + 1]

Pass(data, min, max, relation) ==
  LET after[n \in 0 .. max - min - 1] ==
        IF n = 0 THEN [data |-> data, i |-> min + 1, greater |-> max]
        ELSE Look(after[n - 1], data[min], relation)
  IN  after[max - min - 1]

(* Defect: the first element is not put back.                                  *)
PartitionUnfilled(data, min, max, relation) ==
  LET end == Pass(data, min, max, relation) IN [data |-> end.data, at |-> end.i]

Partition(data, min, max, relation) ==
  LET end == Pass(data, min, max, relation)
  IN  [data |-> [end.data EXCEPT ![end.i - 1] = data[min]], at |-> end.i]

(* A part of an array: the elements from min to max - 1.                       *)
Parts == [data : Seq(Nat), min : Nat, max : Nat]

(* sort() of a part: it calls itself for the two it splits it in.             *)
SortPart(s, sort, relation) ==
  LET split == Partition(s.data, s.min, s.max, relation)
      low == sort[[data |-> split.data, min |-> s.min, max |-> split.at - 1]]
  IN  IF s.min >= s.max THEN s.data
      ELSE sort[[data |-> low, min |-> split.at, max |-> s.max]]

(* Each has fewer elements than the part: k bounds them, and the recursion.     *)
Sort(v, relation) ==
  LET sort[k \in 0 .. v.count] ==
        IF k = 0 THEN [s \in Parts |-> s.data]
        ELSE [s \in Parts |-> SortPart(s, sort[k - 1], relation)]
  IN  [v EXCEPT !.data = sort[v.count][[data |-> v.data, min |-> 1, max |-> v.count + 1]]]
=============================================================================
