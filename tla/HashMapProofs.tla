---------------------------- MODULE HashMapProofs ----------------------------
(***************************************************************************)
(* Proofs about the hash table, for any keys, values, hash function and    *)
(* table sizes.                                                            *)
(***************************************************************************)
EXTENDS HashMapProps, FiniteSetTheorems, WellFoundedInduction, TLAPS

Part == 2 ^ RehashShift

EntryTable(n) == [Slots(n) -> Entry \cup {Vacant}]

(* ProbeFinds for any table of n slots.                                    *)
Probed(t, n) ==
    \A x \in Occupied(t) : \A y \in Slots(n) :
        Distance(Home(t[x].key, n), y, n) < Distance(Home(t[x].key, n), x, n) =>
            t[y] # Vacant /\ t[y].key # t[x].key

(* Between two rehashes nothing is left of the last one, the threshold is  *)
(* that of the table in use, and a table has at least Part slots.          *)
Settled ==
    Idle =>
    /\ oldE = NoTable /\ i = 0 /\ e = 0
    /\ allocatedEntries = 0 => rehashThreshold = 0 /\ entriesCount = 0
    /\ allocatedEntries # 0 => /\ allocatedEntries >= Part
                               /\ rehashThreshold = Threshold(allocatedEntries)

(* During a rehash the new table is twice as large as the old one, under   *)
(* whose threshold it runs; no key is twice in the old table, the key to   *)
(* be written is not in it, the new table has the entries of the slots      *)
(* before i, and nobody has an address into the old one.                   *)
FromTable(n) ==
    /\ n >= Part /\ allocatedEntries = 2 * n
    /\ oldE \in EntryTable(n)
    /\ rehashThreshold = Threshold(n) /\ entriesCount + e = rehashThreshold
    /\ call.key \notin KeysOf(oldE)
    /\ \A x, y \in Occupied(oldE) : oldE[x].key = oldE[y].key => x = y
    /\ \A x \in Occupied(entries) : \E y \in Occupied(oldE) : oldE[y] = entries[x]
    /\ \A y \in Occupied(oldE) :
         y < i => \E x \in Occupied(entries) : entries[x] = oldE[y]

Rehashing == ~Idle => element = NoElement /\ \E n \in Nat \ {0} : FromTable(n)

IInv ==
    /\ TypeOK /\ ProbeFinds /\ CountExact /\ RoomLeft /\ ElementStays
    /\ Settled /\ Rehashing

(* What an iterator was at: the keys up to its index.                      *)
Visited ==
    /\ ~Idle => iterator.disturbed
    /\ ~iterator.disturbed =>
         iterator.seen = {entries[x].key : x \in {y \in Occupied(entries) : y <= iterator.index}}

-----------------------------------------------------------------------------
(* The least element, of the chain of intervals from 0 the smallest one.   *)
LEMMA Least ==
  ASSUME NEW T, T \subseteq Nat, T # {}
  PROVE  \E m \in T : \A x \in T : m <= x
<1> DEFINE Chain == {0 .. m : m \in T}
<1>1. Chain \subseteq FiniteSubsetsOf(Nat) /\ Chain # {}
  <2>1. \A m \in T : m \in Int /\ 0 .. m \in SUBSET Nat
    OBVIOUS
  <2>2. \A m \in T : IsFiniteSet(0 .. m)
    <3> TAKE m \in T
    <3> HIDE DEF Chain
    <3> QED
      BY <2>1, FS_Interval, 0 \in Int
  <2> QED
    BY <2>1, <2>2 DEF FiniteSubsetsOf
<1>2. \E c \in Chain : \A d \in Chain : <<d, c>> \notin StrictSubsetOrdering(Nat)
  <2> HIDE DEF Chain
  <2> QED
    BY <1>1, FS_StrictSubsetOrderingWellFounded, WFMin
<1>3. PICK m \in T : \A x \in T : <<0 .. x, 0 .. m>> \notin StrictSubsetOrdering(Nat)
  BY <1>2
<1>4. ASSUME NEW x \in T, x < m
      PROVE  <<0 .. x, 0 .. m>> \in StrictSubsetOrdering(Nat)
  <2>1. m \in Nat /\ x \in Nat
    OBVIOUS
  <2>2. 0 .. x \in SUBSET Nat /\ 0 .. m \in SUBSET Nat /\ 0 .. x \subseteq 0 .. m
    BY <2>1, <1>4
  <2>3. m \in 0 .. m /\ m \notin 0 .. x
    BY <2>1, <1>4
  <2> QED
    BY <2>2, <2>3 DEF StrictSubsetOrdering
<1>5. \A x \in T : ~ (x < m)
  BY <1>3, <1>4
<1>6. \A x \in T : x \in Nat /\ m \in Nat
  OBVIOUS
<1> HIDE DEF Chain
<1> QED
  BY <1>5, <1>6

LEMMA Thresholds ==
  ASSUME NEW n \in Nat, n >= Part
  PROVE  /\ Threshold(n) \in Nat /\ 1 <= Threshold(n) /\ Threshold(n) < n
         /\ Threshold(n) + 1 <= Threshold(2 * n)
<1> DEFINE P == Part
<1> USE DEF Part
<1>1. P \in Nat /\ P >= 2
  BY MapAssumption
<1> HIDE DEF P
<1> SUFFICES /\ (n * (P - 1)) \div P \in Nat /\ 1 <= (n * (P - 1)) \div P
             /\ (n * (P - 1)) \div P < n
             /\ (n * (P - 1)) \div P + 1 <= ((2 * n) * (P - 1)) \div P
  BY DEF Threshold, P
<1>2. n >= P
  BY DEF P
<1> QED
  BY <1>1, <1>2

-----------------------------------------------------------------------------
(* The probe.                                                              *)
LEMMA HomeType ==
  ASSUME NEW n \in Nat \ {0}, NEW k \in Key
  PROVE  Home(k, n) \in Slots(n)
BY MapAssumption DEF Home, Slots

LEMMA DistanceInjective ==
  ASSUME NEW n \in Nat \ {0}, NEW h \in Slots(n), NEW x \in Slots(n)
  PROVE  /\ Distance(h, x, n) \in Slots(n)
         /\ \A y \in Slots(n) : Distance(h, x, n) = Distance(h, y, n) => x = y
BY DEF Distance, Slots

(* findEntry() ends at the first slot at which the probe stops.            *)
LEMMA Probe ==
  ASSUME NEW n \in Nat \ {0}, NEW t, NEW k \in Key,
         \E x \in Slots(n) : Stops(t, k, x)
  PROVE  /\ findEntry(t, n, k) \in Slots(n)
         /\ Stops(t, k, findEntry(t, n, k))
         /\ \A y \in Slots(n) :
              Stops(t, k, y) =>
                Distance(Home(k, n), findEntry(t, n, k), n) <= Distance(Home(k, n), y, n)
<1> DEFINE D(x) == Distance(Home(k, n), x, n)
<1> DEFINE T == {D(x) : x \in {y \in Slots(n) : Stops(t, k, y)}}
<1>1. \A x \in Slots(n) : D(x) \in Nat
  BY HomeType, DistanceInjective DEF Slots
<1>2. T \subseteq Nat /\ T # {}
  BY <1>1
<1>3. PICK m \in T : \A x \in T : m <= x
  <2> HIDE DEF T
  <2> QED
    BY <1>2, Least
<1>4. PICK x \in Slots(n) : Stops(t, k, x) /\ D(x) = m
  OBVIOUS
<1>5. \A y \in Slots(n) : Stops(t, k, y) => D(x) <= D(y)
  BY <1>3, <1>4
<1> QED
  BY <1>4, <1>5 DEF findEntry

LEMMA OccupiedType ==
  ASSUME NEW n \in Nat, NEW t \in EntryTable(n)
  PROVE  /\ DOMAIN t = Slots(n) /\ Occupied(t) \subseteq Slots(n)
         /\ IsFiniteSet(Slots(n)) /\ Cardinality(Slots(n)) = n
         /\ IsFiniteSet(Occupied(t)) /\ Cardinality(Occupied(t)) \in Nat
         /\ \A x \in Occupied(t) : t[x] \in Entry /\ t[x].key \in Key /\ t[x].value \in Value
<1>1. DOMAIN t = Slots(n) /\ Occupied(t) \subseteq Slots(n)
  BY DEF EntryTable, Occupied
<1>2. IsFiniteSet(Slots(n)) /\ Cardinality(Slots(n)) = n
  BY FS_Interval DEF Slots
<1>3. IsFiniteSet(Occupied(t)) /\ Cardinality(Occupied(t)) \in Nat
  BY <1>1, <1>2, FS_Subset, FS_CardinalityType
<1>4. \A x \in Occupied(t) : t[x] \in Entry
  BY <1>1 DEF EntryTable, Occupied
<1>5. \A x \in Occupied(t) : t[x].key \in Key /\ t[x].value \in Value
  BY <1>4 DEF Entry
<1> QED
  BY <1>1, <1>2, <1>3, <1>4, <1>5

(* A table with fewer entries than slots has a vacant slot.                *)
LEMMA Vacancy ==
  ASSUME NEW n \in Nat, NEW t \in EntryTable(n), Cardinality(Occupied(t)) < n
  PROVE  \E x \in Slots(n) : t[x] = Vacant
<1>1. Occupied(t) # Slots(n)
  BY OccupiedType
<1> QED
  BY <1>1, OccupiedType DEF Occupied

(* The slot of a key's entry is the one the probe for the key finds.       *)
LEMMA FoundWhereItIs ==
  ASSUME NEW n \in Nat \ {0}, NEW t \in EntryTable(n), Probed(t, n),
         NEW x \in Occupied(t)
  PROVE  findEntry(t, n, t[x].key) = x
<1> DEFINE k == t[x].key
           f == findEntry(t, n, k)
           h == Home(k, n)
<1>1. x \in Slots(n) /\ k \in Key /\ Stops(t, k, x)
  BY OccupiedType DEF Stops
<1>2. f \in Slots(n) /\ Stops(t, k, f) /\ Distance(h, f, n) <= Distance(h, x, n)
  <2> HIDE DEF k
  <2> QED
    BY <1>1, Probe
<1>3. h \in Slots(n)
  BY <1>1, HomeType
<1>4. ~ (Distance(h, f, n) < Distance(h, x, n))
  <2>1. SUFFICES ASSUME Distance(h, f, n) < Distance(h, x, n) PROVE FALSE
    OBVIOUS
  <2>2. t[f] # Vacant /\ t[f].key # k
    BY <2>1, <1>2 DEF Probed
  <2> QED
    BY <2>2, <1>2 DEF Stops
<1>5. Distance(h, f, n) = Distance(h, x, n)
  <2>1. Distance(h, f, n) \in Nat /\ Distance(h, x, n) \in Nat
    BY <1>1, <1>2, <1>3, DistanceInjective DEF Slots
  <2> QED
    BY <2>1, <1>2, <1>4
<1> QED
  BY <1>1, <1>2, <1>3, <1>5, DistanceInjective

(* ... so no key has two entries, and where it ends at a vacant slot the   *)
(* key has none.                                                           *)
LEMMA KeysOnce ==
  ASSUME NEW n \in Nat \ {0}, NEW t \in EntryTable(n), Probed(t, n)
  PROVE  /\ \A x, y \in Occupied(t) : t[x].key = t[y].key => x = y
         /\ \A k \in Key : t[findEntry(t, n, k)] = Vacant => k \notin KeysOf(t)
<1>1. ASSUME NEW x \in Occupied(t), NEW y \in Occupied(t), t[x].key = t[y].key
      PROVE  x = y
  BY <1>1, FoundWhereItIs
<1>2. ASSUME NEW k \in Key, t[findEntry(t, n, k)] = Vacant, k \in KeysOf(t)
      PROVE  FALSE
  <2>1. PICK x \in Occupied(t) : t[x].key = k
    BY <1>2 DEF KeysOf
  <2>2. findEntry(t, n, k) = x
    BY <2>1, FoundWhereItIs
  <2> QED
    BY <2>2, <1>2 DEF Occupied
<1> QED
  BY <1>1, <1>2

(* Table u is t with one more entry in slot f, or with another value there. *)
Adds(u, t, f, ent, n) ==
    /\ u \in EntryTable(n) /\ Probed(u, n)
    /\ f \in Slots(n) /\ f \notin Occupied(t) /\ Occupied(u) = Occupied(t) \cup {f}
    /\ Cardinality(Occupied(u)) = Cardinality(Occupied(t)) + 1
    /\ u[f] = ent /\ \A x \in Occupied(t) : u[x] = t[x]
    /\ KeysOf(u) = KeysOf(t) \cup {ent.key}
    /\ ent.key \notin KeysOf(t)

Changes(u, t, f, ent, n) ==
    /\ u \in EntryTable(n) /\ Probed(u, n) /\ Occupied(u) = Occupied(t)
    /\ \A x \in Occupied(t) : u[x].key = t[x].key
    /\ u[f] = ent /\ \A x \in Occupied(t) : x # f => u[x] = t[x]
    /\ KeysOf(u) = KeysOf(t)

(* A new entry in the vacant slot where the probe for its key ends.        *)
LEMMA Inserted ==
  ASSUME NEW n \in Nat \ {0}, NEW t \in EntryTable(n), Probed(t, n),
         Cardinality(Occupied(t)) < n, NEW ent \in Entry,
         NEW f, f = findEntry(t, n, ent.key), t[f] = Vacant,
         NEW u, u = [t EXCEPT ![f] = ent]
  PROVE  Adds(u, t, f, ent, n)
<1> DEFINE k == ent.key
           h == Home(k, n)
<1>1. k \in Key /\ ent # Vacant /\ f = findEntry(t, n, k)
  BY MapAssumption DEF Entry
<1>2. \E x \in Slots(n) : Stops(t, k, x)
  BY Vacancy DEF Stops
<1>3. /\ f \in Slots(n)
      /\ \A y \in Slots(n) : Stops(t, k, y) => Distance(h, f, n) <= Distance(h, y, n)
  <2> HIDE DEF k
  <2> QED
    BY <1>1, <1>2, Probe
<1>4. t[f] = Vacant
  OBVIOUS
<1>5. k \notin KeysOf(t)
  BY <1>1, <1>4, KeysOnce
<1>6. u \in EntryTable(n) /\ u[f] = ent /\ \A x \in Slots(n) : x # f => u[x] = t[x]
  BY <1>3 DEF EntryTable
<1>7. f \notin Occupied(t) /\ Occupied(u) = Occupied(t) \cup {f}
  BY <1>1, <1>3, <1>4, <1>6 DEF Occupied, EntryTable
<1>8. \A x \in Occupied(t) : u[x] = t[x]
  BY <1>6, <1>7, OccupiedType
<1>9. Cardinality(Occupied(u)) = Cardinality(Occupied(t)) + 1
  <2>1. IsFiniteSet(Occupied(t))
    BY OccupiedType
  <2>2. Cardinality(Occupied(t) \cup {f}) = Cardinality(Occupied(t)) + 1
    BY <2>1, <1>7, FS_AddElement
  <2> QED
    BY <2>2, <1>7
<1>10. KeysOf(u) = KeysOf(t) \cup {k}
  <2>1. KeysOf(u) = {u[x].key : x \in Occupied(t)} \cup {u[f].key}
    <3> QED
      BY <1>7 DEF KeysOf
  <2>2. {u[x].key : x \in Occupied(t)} = KeysOf(t)
    <3> QED
      BY <1>8 DEF KeysOf
  <2> QED
    BY <2>1, <2>2, <1>6
<1>11. Probed(u, n)
  <2> SUFFICES ASSUME NEW x \in Occupied(u), NEW y \in Slots(n),
                      Distance(Home(u[x].key, n), y, n) < Distance(Home(u[x].key, n), x, n)
               PROVE  u[y] # Vacant /\ u[y].key # u[x].key
    BY DEF Probed
  <2>1. CASE x = f
    <3>1. u[x].key = k
      BY <2>1, <1>6
    <3>2. Distance(h, y, n) < Distance(h, f, n)
      BY <3>1, <2>1
    <3>3. Distance(h, y, n) \in Nat /\ Distance(h, f, n) \in Nat
      BY <1>1, <1>3, HomeType, DistanceInjective DEF Slots
    <3>4. ~ Stops(t, k, y)
      BY <3>2, <3>3, <1>3
    <3>5. y # f
      BY <3>4, <1>4 DEF Stops
    <3> QED
      BY <3>1, <3>4, <3>5, <1>6 DEF Stops
  <2>2. CASE x # f
    <3>1. x \in Occupied(t) /\ u[x] = t[x]
      BY <2>2, <1>7, <1>8
    <3>2. t[y] # Vacant /\ t[y].key # t[x].key
      BY <3>1 DEF Probed
    <3>3. u[y] = t[y]
      BY <3>2, <1>4, <1>6
    <3> QED
      BY <3>1, <3>2, <3>3
  <2> QED
    BY <2>1, <2>2
<1> QED
  BY <1>3, <1>5, <1>6, <1>7, <1>8, <1>9, <1>10, <1>11 DEF Adds

(* Another value in the entry of a key.                                    *)
LEMMA Overwritten ==
  ASSUME NEW n \in Nat \ {0}, NEW t \in EntryTable(n), Probed(t, n),
         NEW s \in Occupied(t), NEW ent \in Entry, ent.key = t[s].key,
         NEW u, u = [t EXCEPT ![s] = ent]
  PROVE  Changes(u, t, s, ent, n)
<1>1. ent # Vacant /\ s \in Slots(n)
  BY MapAssumption, OccupiedType
<1>2. u \in EntryTable(n) /\ u[s] = ent /\ \A x \in Slots(n) : x # s => u[x] = t[x]
  BY <1>1 DEF EntryTable
<1>3. Occupied(u) = Occupied(t)
  BY <1>1, <1>2 DEF Occupied, EntryTable
<1>4. \A x \in Occupied(t) : u[x].key = t[x].key /\ (x # s => u[x] = t[x])
  BY <1>2, OccupiedType
<1>5. KeysOf(u) = KeysOf(t)
  BY <1>3, <1>4 DEF KeysOf
<1>6. \A y \in Slots(n) : t[y] # Vacant => u[y] # Vacant /\ u[y].key = t[y].key
  BY <1>1, <1>2, <1>4
<1>7. Probed(u, n)
  <2> SUFFICES ASSUME NEW x \in Occupied(u), NEW y \in Slots(n),
                      Distance(Home(u[x].key, n), y, n) < Distance(Home(u[x].key, n), x, n)
               PROVE  u[y] # Vacant /\ u[y].key # u[x].key
    BY DEF Probed
  <2>1. x \in Occupied(t) /\ u[x].key = t[x].key
    BY <1>3, <1>4
  <2>2. t[y] # Vacant /\ t[y].key # t[x].key
    BY <2>1 DEF Probed
  <2> QED
    BY <2>1, <2>2, <1>6
<1> QED
  BY <1>2, <1>3, <1>4, <1>5, <1>7 DEF Changes

-----------------------------------------------------------------------------
(* The table an operation works on, between two rehashes.                  *)
LEMMA InTable ==
  ASSUME IInv, Idle
  PROVE  /\ Size \in Nat \ {0} /\ Size >= Part
         /\ Table \in EntryTable(Size) /\ Probed(Table, Size)
         /\ entriesCount = Cardinality(Occupied(Table)) /\ entriesCount \in Nat
         /\ entriesCount <= Threshold(Size) /\ entriesCount < Size
         /\ Occupied(Table) = Occupied(entries) /\ KeysOf(Table) = KeysOf(entries)
         /\ \A x \in Occupied(entries) : Table[x] = entries[x]
         /\ allocatedEntries # 0 => Table = entries /\ Size = allocatedEntries
<1>1. Part \in Nat /\ Part >= 2 /\ InitialTableSize >= Part /\ InitialTableSize \in Nat
  BY MapAssumption DEF Part
<1>2. /\ allocatedEntries \in Nat /\ entriesCount \in Nat
      /\ entries \in EntryTable(allocatedEntries)
  BY DEF IInv, TypeOK, EntryTable
<1>3. Size \in Nat \ {0} /\ Size >= Part
  BY <1>1, <1>2 DEF Size, IInv, Settled
<1>4. CASE allocatedEntries # 0
  <2>1. Table = entries /\ Size = allocatedEntries
    BY <1>4 DEF Table, Size
  <2>2. Probed(entries, Size)
    BY <2>1 DEF IInv, ProbeFinds, Probed
  <2>3. entriesCount = Cardinality(Occupied(entries)) /\ entriesCount <= rehashThreshold
    BY DEF IInv, CountExact, RoomLeft
  <2>4. rehashThreshold = Threshold(Size) /\ Threshold(Size) \in Nat /\ Threshold(Size) < Size
    BY <1>3, <1>4, <2>1, Thresholds DEF IInv, Settled
  <2> QED
    BY <1>2, <1>3, <2>1, <2>2, <2>3, <2>4
<1>5. CASE allocatedEntries = 0
  <2>1. Table = EmptyTable(Size)
    BY <1>5 DEF Table
  <2>2. Table \in EntryTable(Size) /\ Occupied(Table) = {}
    BY <2>1 DEF EmptyTable, EntryTable, Occupied
  <2>3. Occupied(entries) = {}
    <3>1. Occupied(entries) \subseteq Slots(0)
      BY <1>2, <1>5, OccupiedType
    <3> QED
      BY <3>1 DEF Slots
  <2>4. Probed(Table, Size) /\ KeysOf(Table) = {} /\ KeysOf(entries) = {}
    BY <2>2, <2>3 DEF Probed, KeysOf
  <2>5. entriesCount = 0 /\ Cardinality(Occupied(Table)) = 0
    BY <1>5, <2>2, FS_EmptySet DEF IInv, Settled
  <2>6. Threshold(Size) \in Nat
    BY <1>3, Thresholds
  <2> QED
    BY <1>3, <1>5, <2>2, <2>3, <2>4, <2>5, <2>6
<1> QED
  BY <1>4, <1>5

Iterators == [index : Nat, seen : SUBSET Key, disturbed : BOOLEAN]
Elements(n) == [slot : Slots(n), key : Key] \cup {NoElement}
KeyAt(t, elem) == elem.slot \in Occupied(t) /\ t[elem.slot].key = elem.key

(* What has to be shown of a step that leaves or returns to a settled      *)
(* table of n slots.                                                       *)
LEMMA SettledAgain ==
  ASSUME NEW n \in Nat, n >= Part, allocatedEntries' = n,
         call' = NoCall, oldE' = NoTable, i' = 0, e' = 0,
         entries' \in EntryTable(n), Probed(entries', n),
         entriesCount' = Cardinality(Occupied(entries')),
         entriesCount' <= Threshold(n), rehashThreshold' = Threshold(n),
         answer' \in Answers, iterator' \in Iterators, element' \in Elements(n),
         element' # NoElement => KeyAt(entries', element')
  PROVE  IInv'
<1>1. /\ n # 0 /\ entriesCount' \in Nat /\ Threshold(n) \in Nat
      /\ entriesCount' < n
  <2>1. Threshold(n) \in Nat /\ Threshold(n) < n
    BY Thresholds
  <2>2. entriesCount' \in Nat
    BY OccupiedType
  <2> QED
    BY <2>1, <2>2
<1>2. oldE' \in [Slots(0) -> Entry \cup {Vacant}] /\ Occupied(oldE') = {}
  BY DEF NoTable, Slots, Occupied
<1>3. ToMove' = {} /\ Cardinality(ToMove') = 0
  BY <1>2, FS_EmptySet DEF ToMove
<1>4. TypeOK'
  BY <1>1, <1>2 DEF TypeOK, EntryTable, Iterators, Elements, Calls
<1>5. ProbeFinds' /\ CountExact' /\ RoomLeft' /\ ElementStays'
  <2>1. Idle'
    BY DEF Idle
  <2>2. ProbeFinds'
    BY DEF ProbeFinds, Probed
  <2>3. CountExact'
    BY <2>1, <1>3 DEF CountExact
  <2>4. RoomLeft'
    BY <2>1, <1>1 DEF RoomLeft
  <2>5. ElementStays'
    BY DEF ElementStays, KeyAt, Occupied
  <2> QED
    BY <2>2, <2>3, <2>4, <2>5
<1>6. Settled' /\ Rehashing'
  BY <1>1 DEF Settled, Rehashing, Idle
<1> QED
  BY <1>4, <1>5, <1>6 DEF IInv

LEMMA InitIInv == Init => IInv
<1> SUFFICES ASSUME Init PROVE IInv
  OBVIOUS
<1> USE DEF Init
<1>1. entries \in [Slots(0) -> Entry \cup {Vacant}] /\ Occupied(entries) = {}
  BY DEF NoTable, Slots, Occupied
<1>2. oldE \in [Slots(0) -> Entry \cup {Vacant}] /\ ToMove = {}
  BY DEF NoTable, Slots, Occupied, ToMove
<1>3. Cardinality(Occupied(entries)) = 0 /\ Cardinality(ToMove) = 0
  BY <1>1, <1>2, FS_EmptySet
<1>4. TypeOK
  BY <1>1, <1>2 DEF TypeOK, Calls, Answers
<1>5. ProbeFinds /\ CountExact /\ RoomLeft /\ ElementStays /\ Settled /\ Rehashing
  BY <1>1, <1>2, <1>3
     DEF ProbeFinds, CountExact, RoomLeft, ElementStays, Settled, Rehashing, Idle
<1> QED
  BY <1>4, <1>5 DEF IInv

-----------------------------------------------------------------------------
(* One lemma per action, the first ones about what several have in common. *)
LEMMA AbsentIsVacant ==
  ASSUME NEW n \in Nat \ {0}, NEW t \in EntryTable(n), Cardinality(Occupied(t)) < n,
         NEW k \in Key
  PROVE  /\ findEntry(t, n, k) \in Slots(n)
         /\ t[findEntry(t, n, k)] = Vacant
              \/ (findEntry(t, n, k) \in Occupied(t) /\ t[findEntry(t, n, k)].key = k)
         /\ k \notin KeysOf(t) => t[findEntry(t, n, k)] = Vacant
<1>1. \E x \in Slots(n) : Stops(t, k, x)
  BY Vacancy DEF Stops
<1>2. findEntry(t, n, k) \in Slots(n) /\ Stops(t, k, findEntry(t, n, k))
  BY <1>1, Probe
<1> DEFINE f == findEntry(t, n, k)
<1> HIDE DEF f
<1>3. f \in Slots(n) /\ (t[f] = Vacant \/ t[f].key = k)
  BY <1>2 DEF Stops, f
<1>4. t[f] # Vacant => f \in Occupied(t)
  BY <1>3, OccupiedType DEF Occupied
<1>5. f \in Occupied(t) => t[f].key \in KeysOf(t)
  BY DEF KeysOf
<1>6. /\ f \in Slots(n)
      /\ t[f] = Vacant \/ (f \in Occupied(t) /\ t[f].key = k)
      /\ k \notin KeysOf(t) => t[f] = Vacant
  BY <1>3, <1>4, <1>5
<1> QED
  BY <1>6 DEF f

LEMMA Searched ==
  ASSUME IInv, Idle, NEW k \in Key
  PROVE  /\ Found(k) \in Slots(Size)
         /\ Table[Found(k)] = Vacant
              \/ (Found(k) \in Occupied(Table) /\ Table[Found(k)].key = k)
         /\ Table[Found(k)] = Vacant => k \notin KeysOf(Table)
         /\ Table[Found(k)] # Vacant => Table[Found(k)] \in Entry
         /\ ValueAt(Table, Found(k)) \in Value \cup {NoValue}
<1>1. /\ Size \in Nat \ {0} /\ Table \in EntryTable(Size) /\ Probed(Table, Size)
      /\ Cardinality(Occupied(Table)) < Size
  BY InTable
<1>2. Found(k) = findEntry(Table, Size, k)
  BY DEF Found
<1>3. /\ Found(k) \in Slots(Size)
      /\ Table[Found(k)] = Vacant
              \/ (Found(k) \in Occupied(Table) /\ Table[Found(k)].key = k)
  BY <1>1, <1>2, AbsentIsVacant
<1>4. Table[Found(k)] = Vacant => k \notin KeysOf(Table)
  BY <1>1, <1>2, KeysOnce
<1>5. Table[Found(k)] # Vacant => Table[Found(k)] \in Entry /\ Table[Found(k)].value \in Value
  BY <1>1, <1>3, OccupiedType
<1> QED
  BY <1>3, <1>4, <1>5 DEF ValueAt

LEMMA Allocated ==
  ASSUME IInv, Idle, Allocate
  PROVE  /\ allocatedEntries' = Size /\ rehashThreshold' = Threshold(Size)
         /\ oldE = NoTable /\ i = 0 /\ e = 0 /\ call = NoCall
         /\ answer \in Answers /\ iterator \in Iterators /\ element \in Elements(Size)
         /\ element # NoElement => KeyAt(Table, element)
<1>1. allocatedEntries' = Size /\ rehashThreshold' = Threshold(Size)
  BY DEF Allocate, IInv, Settled, Size
<1>2. element \in Elements(allocatedEntries)
  BY DEF IInv, TypeOK, Elements
<1>3. element \in Elements(Size)
  <2>1. CASE allocatedEntries = 0
    BY <1>2, <2>1 DEF Elements, Slots
  <2>2. CASE allocatedEntries # 0
    BY <1>2, <2>2, InTable
  <2> QED
    BY <2>1, <2>2
<1>4. ASSUME element # NoElement
      PROVE  KeyAt(Table, element)
  <2>1. element.slot \in Slots(allocatedEntries) /\ allocatedEntries # 0
    BY <1>2, <1>4 DEF Elements, Slots
  <2>2. Table = entries /\ Table \in EntryTable(Size) /\ Size = allocatedEntries
    BY <2>1, InTable
  <2>3. entries[element.slot] # Vacant /\ entries[element.slot].key = element.key
    BY <1>4 DEF IInv, ElementStays
  <2>4. entries \in EntryTable(allocatedEntries) /\ DOMAIN entries = Slots(allocatedEntries)
    BY <2>2, OccupiedType DEF EntryTable
  <2>5. element.slot \in Occupied(entries)
    BY <2>1, <2>3, <2>4 DEF Occupied
  <2> QED
    BY <2>2, <2>3, <2>5 DEF KeyAt
<1> QED
  BY <1>1, <1>3, <1>4 DEF IInv, TypeOK, Settled, Idle, Iterators, Elements

LEMMA GetStep ==
  ASSUME IInv, NEW k \in Key, Get(k)
  PROVE  IInv'
<1>1. Idle /\ Allocate /\ entries' = Table
  BY DEF Get
<1>2. answer' \in Answers
  BY <1>1, Searched DEF Get, Answers
<1> QED
  BY <1>1, <1>2, InTable, Allocated, SettledAgain DEF Get, rehash

LEMMA ElementAddressStep ==
  ASSUME IInv, NEW k \in Key, ElementAddress(k)
  PROVE  IInv'
<1>1. Idle /\ Allocate /\ entries' = Table
  BY DEF ElementAddress
<1>2. /\ element' \in Elements(Size)
      /\ element' # NoElement => KeyAt(Table, element')
  BY <1>1, Searched DEF ElementAddress, Elements, KeyAt
<1> QED
  BY <1>1, <1>2, InTable, Allocated, SettledAgain DEF ElementAddress, rehash

LEMMA WritePresentStep ==
  ASSUME IInv, NEW op \in Writes, NEW k \in Key, NEW v \in Value, WritePresent(op, k, v)
  PROVE  IInv'
<1> DEFINE x == Found(k)
           ent == [key |-> k, value |-> v]
<1>1. Idle /\ Allocate /\ Table[x] # Vacant
  BY DEF WritePresent
<1>2. /\ Size \in Nat \ {0} /\ Size >= Part /\ Table \in EntryTable(Size)
      /\ Probed(Table, Size) /\ entriesCount = Cardinality(Occupied(Table))
      /\ entriesCount <= Threshold(Size)
  BY <1>1, InTable
<1>3. x \in Occupied(Table) /\ Table[x].key = k /\ Table[x].value \in Value
  BY <1>1, <1>2, Searched, OccupiedType
<1>4. ent \in Entry /\ ent.key = Table[x].key
  BY <1>3 DEF Entry
<1>5. entries' = Table \/ entries' = [Table EXCEPT ![x] = ent]
  BY DEF WritePresent
<1>6. /\ entries' \in EntryTable(Size) /\ Probed(entries', Size)
      /\ Occupied(entries') = Occupied(Table)
      /\ \A y \in Occupied(Table) : entries'[y].key = Table[y].key
  <2>1. CASE entries' = Table
    BY <2>1, <1>2
  <2>2. CASE entries' = [Table EXCEPT ![x] = ent]
    <3> HIDE DEF x, ent
    <3>1. Changes(entries', Table, x, ent, Size)
      BY <2>2, <1>2, <1>3, <1>4, Overwritten
    <3> QED
      BY <3>1 DEF Changes
  <2> QED
    BY <2>1, <2>2, <1>5
<1>7. answer' \in Answers
  BY <1>3 DEF WritePresent, Returns, Writes, Answers
<1>8. element # NoElement => KeyAt(entries', element)
  BY <1>1, <1>6, Allocated DEF KeyAt
<1> QED
  BY <1>1, <1>2, <1>6, <1>7, <1>8, Allocated, SettledAgain DEF WritePresent, rehash

LEMMA WriteAbsentStep ==
  ASSUME IInv, NEW op \in Writes, NEW k \in Key, NEW v \in Value, WriteAbsent(op, k, v)
  PROVE  IInv'
<1> DEFINE x == Found(k)
           ent == [key |-> k, value |-> v]
<1>1. Idle /\ Allocate /\ Table[x] = Vacant
  BY DEF WriteAbsent
<1>2. /\ Size \in Nat \ {0} /\ Size >= Part /\ Table \in EntryTable(Size)
      /\ Probed(Table, Size) /\ entriesCount = Cardinality(Occupied(Table))
      /\ entriesCount \in Nat /\ Cardinality(Occupied(Table)) < Size
  BY <1>1, InTable
<1>3. ent \in Entry /\ ent.key = k /\ x = findEntry(Table, Size, ent.key)
  BY DEF Entry, Found
<1>4. entries' = [Table EXCEPT ![x] = ent]
  BY DEF WriteAbsent
<1>5. /\ entries' \in EntryTable(Size) /\ Probed(entries', Size)
      /\ Cardinality(Occupied(entries')) = entriesCount + 1
      /\ Occupied(Table) \subseteq Occupied(entries')
      /\ \A y \in Occupied(Table) : entries'[y] = Table[y]
  <2> HIDE DEF x, ent
  <2>1. Adds(entries', Table, x, ent, Size)
    BY <1>1, <1>2, <1>3, <1>4, Inserted
  <2> QED
    BY <2>1, <1>2 DEF Adds
<1>6. answer' \in Answers
  BY DEF WriteAbsent, Returns, Writes, Answers
<1>7. iterator' \in Iterators
  BY <1>1, Allocated DEF WriteAbsent, Disturbed, Iterators
<1>8. rehashThreshold' = Threshold(Size) /\ Threshold(Size) \in Nat
  BY <1>1, <1>2, Allocated, Thresholds
<1>9. entriesCount' = entriesCount + 1 /\ entriesCount' <= Threshold(Size)
  BY <1>2, <1>8 DEF WriteAbsent
<1>10. element # NoElement => KeyAt(entries', element)
  BY <1>1, <1>5, Allocated DEF KeyAt
<1> QED
  BY <1>1, <1>2, <1>5, <1>6, <1>7, <1>8, <1>9, <1>10, Allocated, SettledAgain
     DEF WriteAbsent, rehash

LEMMA StoreChanges ==
  ASSUME IInv, NEW v \in Value, Store(v)
  PROVE  /\ element.slot \in Occupied(entries) /\ entries[element.slot].key = element.key
         /\ allocatedEntries \in Nat \ {0}
         /\ Changes(entries', entries, element.slot,
                    [entries[element.slot] EXCEPT !.value = v], allocatedEntries)
<1> DEFINE x == element.slot
           ent == [entries[x] EXCEPT !.value = v]
           n == allocatedEntries
<1>1. Idle /\ element # NoElement /\ entries' = [entries EXCEPT ![x] = ent]
  BY DEF Store
<1>2. x \in Slots(n) /\ n \in Nat \ {0} /\ entries \in EntryTable(n)
  <2>1. element \in Elements(n) /\ n \in Nat /\ entries \in EntryTable(n)
    BY DEF IInv, TypeOK, Elements, EntryTable
  <2> QED
    BY <1>1, <2>1 DEF Elements, Slots
<1>3. Probed(entries, n)
  BY <1>1, <1>2, InTable
<1>4. x \in Occupied(entries) /\ entries[x].key = element.key
  BY <1>1, <1>2, OccupiedType DEF IInv, ElementStays, Occupied
<1>5. ent \in Entry /\ ent.key = entries[x].key
  BY <1>2, <1>4, OccupiedType DEF Entry
<1>6. Changes(entries', entries, x, ent, n)
  <2> HIDE DEF x, ent, n
  <2> QED
    BY <1>1, <1>2, <1>3, <1>4, <1>5, Overwritten
<1> QED
  BY <1>2, <1>4, <1>6

LEMMA StoreStep ==
  ASSUME IInv, NEW v \in Value, Store(v)
  PROVE  IInv'
<1> DEFINE n == allocatedEntries
           ent == [entries[element.slot] EXCEPT !.value = v]
<1>1. /\ element.slot \in Occupied(entries) /\ entries[element.slot].key = element.key
      /\ n \in Nat \ {0} /\ Changes(entries', entries, element.slot, ent, n)
  BY StoreChanges
<1>2. Idle
  BY DEF Store
<1>3. /\ entries' \in EntryTable(n) /\ Probed(entries', n)
      /\ Occupied(entries') = Occupied(entries)
      /\ entries'[element.slot].key = entries[element.slot].key
  BY <1>1 DEF Changes
<1>4. /\ Table = entries /\ Size = n /\ n >= Part
      /\ entriesCount = Cardinality(Occupied(entries)) /\ entriesCount <= Threshold(n)
  BY <1>1, <1>2, InTable
<1>5. KeyAt(entries', element)
  BY <1>1, <1>3 DEF KeyAt
<1>6. /\ rehashThreshold = Threshold(n) /\ oldE = NoTable /\ i = 0 /\ e = 0
      /\ call = NoCall
  BY <1>1, <1>2 DEF IInv, Settled, Idle
<1>7. answer \in Answers /\ iterator \in Iterators /\ element \in Elements(n)
  BY DEF IInv, TypeOK, Iterators, Elements
<1> QED
  BY <1>1, <1>3, <1>4, <1>5, <1>6, <1>7, SettledAgain DEF Store, rehash

(* The only variable that an iterator's operations change is the iterator. *)
LEMMA NextValidType ==
  ASSUME allocatedEntries \in Nat, NEW x \in Nat
  PROVE  /\ NextValid(x) \in Nat
         /\ NextValid(x) # allocatedEntries =>
              /\ NextValid(x) \in Slots(allocatedEntries) /\ NextValid(x) >= x
              /\ entries[NextValid(x)] # Vacant
         /\ \A y \in Slots(allocatedEntries) :
              y >= x /\ entries[y] # Vacant => NextValid(x) <= y
<1> DEFINE valid == {y \in Slots(allocatedEntries) : y >= x /\ entries[y] # Vacant}
<1>1. valid \subseteq Nat
  BY DEF Slots
<1>2. CASE valid = {}
  <2>1. NextValid(x) = allocatedEntries
    BY <1>2 DEF NextValid
  <2> QED
    BY <2>1, <1>2
<1>3. CASE valid # {}
  <2>1. NextValid(x) = CHOOSE y \in valid : \A z \in valid : y <= z
    BY <1>3 DEF NextValid
  <2>2. \E y \in valid : \A z \in valid : y <= z
    <3> HIDE DEF valid
    <3> QED
      BY <1>1, <1>3, Least
  <2>3. NextValid(x) \in valid /\ \A z \in valid : NextValid(x) <= z
    BY <2>1, <2>2
  <2> QED
    BY <1>1, <2>3
<1> QED
  BY <1>2, <1>3

LEMMA SeenType ==
  ASSUME TypeOK, NEW x \in Nat, NEW y, y = NextValid(x)
  PROVE  y \in Nat /\ Seen(y) \in SUBSET Key
<1>1. allocatedEntries \in Nat /\ entries \in EntryTable(allocatedEntries)
  BY DEF TypeOK, EntryTable
<1>2. /\ y \in Nat
      /\ y # allocatedEntries => y \in Slots(allocatedEntries) /\ entries[y] # Vacant
  BY <1>1, NextValidType
<1>3. CASE y = allocatedEntries
  BY <1>1, <1>3 DEF Seen
<1>4. CASE y # allocatedEntries
  <2>1. y \in Occupied(entries)
    BY <1>1, <1>2, <1>4 DEF Occupied, EntryTable
  <2>2. entries[y].key \in Key
    BY <1>1, <2>1, OccupiedType
  <2> QED
    BY <1>2, <2>2 DEF Seen
<1> QED
  BY <1>2, <1>3, <1>4

LEMMA IteratorStep ==
  ASSUME IInv, Begin \/ IteratorNext
  PROVE  IInv'
<1>1. iterator \in Iterators /\ allocatedEntries \in Nat
  BY DEF IInv, TypeOK, Iterators
<1>2. iterator' \in Iterators
  <2>1. CASE Begin
    <3> DEFINE x == IF entriesCount = 0 THEN allocatedEntries ELSE NextValid(0)
    <3>1. iterator' = [index |-> x, seen |-> Seen(x), disturbed |-> FALSE]
      BY <2>1 DEF Begin
    <3>2. x \in Nat /\ Seen(x) \in SUBSET Key
      <4>1. Seen(allocatedEntries) = {}
        BY <1>1 DEF Seen
      <4>2. NextValid(0) \in Nat /\ Seen(NextValid(0)) \in SUBSET Key
        BY SeenType DEF IInv
      <4> QED
        BY <1>1, <4>1, <4>2
    <3> HIDE DEF x
    <3> QED
      BY <3>1, <3>2 DEF Iterators
  <2>2. CASE IteratorNext
    <3> DEFINE x == NextValid(iterator.index + 1)
    <3>1. x \in Nat /\ Seen(x) \in SUBSET Key
      <4>1. iterator.index + 1 \in Nat
        BY <1>1 DEF Iterators
      <4> QED
        BY <4>1, SeenType DEF IInv
    <3>2. iterator' = [iterator EXCEPT !.index = x,
                         !.seen = IF iterator.disturbed THEN {} ELSE @ \cup Seen(x)]
      BY <2>2 DEF IteratorNext
    <3> HIDE DEF x
    <3>3. iterator'.index = x /\ iterator'.disturbed = iterator.disturbed
      BY <1>1, <3>2 DEF Iterators
    <3> QED
      BY <1>1, <3>1, <3>2 DEF Iterators
  <2> QED
    BY <2>1, <2>2
<1>3. UNCHANGED <<table, call, rehash, answer, element>>
  BY DEF Begin, IteratorNext
<1>4. TypeOK'
  BY <1>2, <1>3 DEF IInv, TypeOK, Iterators, table, rehash
<1>5. /\ ProbeFinds' /\ RoomLeft' /\ ElementStays' /\ Settled'
  BY <1>3 DEF IInv, ProbeFinds, RoomLeft, ElementStays, Settled, Idle, table, rehash
<1>6. CountExact'
  BY <1>3 DEF IInv, CountExact, ToMove, Idle, table, rehash
<1>7. Rehashing'
  BY <1>3 DEF IInv, Rehashing, FromTable, Idle, table, rehash
<1> QED
  BY <1>4, <1>5, <1>6, <1>7 DEF IInv

-----------------------------------------------------------------------------
(* The rehash.                                                             *)
LEMMA RehashStep ==
  ASSUME IInv, NEW op \in Writes, NEW k \in Key, NEW v \in Value, Rehash(op, k, v)
  PROVE  IInv'
<1> PICK n \in Nat : n = allocatedEntries
  BY DEF IInv, TypeOK
<1>1. /\ Idle /\ n \in Nat \ {0} /\ Table[Found(k)] = Vacant
      /\ entriesCount >= rehashThreshold
  BY DEF Rehash, IInv, TypeOK
<1>2. /\ Table = entries /\ n >= Part /\ entries \in EntryTable(n) /\ Probed(entries, n)
      /\ entriesCount = Cardinality(Occupied(entries)) /\ entriesCount \in Nat
      /\ entriesCount <= Threshold(n) /\ rehashThreshold = Threshold(n)
      /\ Threshold(n) \in Nat /\ 1 <= Threshold(n)
  <2>1. /\ Table = entries /\ Size = n /\ n >= Part
        /\ entries \in EntryTable(n) /\ Probed(entries, n)
        /\ entriesCount = Cardinality(Occupied(entries)) /\ entriesCount \in Nat
        /\ entriesCount <= Threshold(n)
    BY <1>1, InTable
  <2>2. rehashThreshold = Threshold(n)
    BY <1>1 DEF IInv, Settled
  <2> QED
    BY <1>1, <2>1, <2>2, Thresholds
<1>3. k \notin KeysOf(entries)
  BY <1>1, <1>2, Searched
<1>4. /\ call' = [op |-> op, key |-> k, value |-> v] /\ call' # NoCall
      /\ oldE' = entries /\ i' = 0 /\ e' = entriesCount
      /\ allocatedEntries' = 2 * n /\ entries' = EmptyTable(2 * n) /\ entriesCount' = 0
      /\ element' = NoElement /\ iterator' = Disturbed
      /\ rehashThreshold' = rehashThreshold /\ answer' = answer
  BY DEF Rehash, Writes, NoCall
<1>5. /\ entries' \in EntryTable(2 * n) /\ Occupied(entries') = {}
      /\ KeysOf(entries') = {} /\ Cardinality(Occupied(entries')) = 0
  <2>1. entries' \in EntryTable(2 * n) /\ Occupied(entries') = {}
    BY <1>4 DEF EmptyTable, EntryTable, Occupied
  <2> QED
    BY <2>1, FS_EmptySet DEF KeysOf
<1>6. ToMove' = Occupied(entries)
  <2>1. Occupied(entries) \subseteq Slots(n) /\ \A x \in Slots(n) : x >= 0
    BY <1>2, OccupiedType DEF Slots
  <2> QED
    BY <1>4, <2>1 DEF ToMove
<1>7. TypeOK'
  <2>1. call' \in Calls
    BY <1>4 DEF Calls
  <2>2. \E m \in 0 .. allocatedEntries' : oldE' \in [Slots(m) -> Entry \cup {Vacant}]
    <3>1. n \in 0 .. allocatedEntries'
      BY <1>1, <1>4
    <3> QED
      BY <1>2, <1>4, <3>1 DEF EntryTable
  <2>3. iterator' \in Iterators
    BY <1>4 DEF IInv, TypeOK, Disturbed, Iterators
  <2>4. allocatedEntries' \in Nat /\ i' \in Nat /\ e' \in Nat /\ entriesCount' \in Nat
    BY <1>1, <1>2, <1>4
  <2>5. rehashThreshold' \in Nat /\ answer' \in Answers
    BY <1>4 DEF IInv, TypeOK
  <2> QED
    BY <1>4, <1>5, <2>1, <2>2, <2>3, <2>4, <2>5 DEF TypeOK, EntryTable, Iterators
<1>8. ProbeFinds' /\ ElementStays'
  BY <1>4, <1>5 DEF ProbeFinds, ElementStays
<1>9. CountExact'
  <2>1. KeysOf(oldE') = {oldE'[x].key : x \in ToMove'}
    BY <1>4, <1>6 DEF KeysOf
  <2> QED
    BY <1>2, <1>4, <1>5, <1>6, <2>1 DEF CountExact
<1>10. RoomLeft' /\ Settled'
  <2>1. ~ Idle'
    BY <1>4 DEF Idle
  <2> QED
    BY <1>1, <1>2, <1>4, <1>5, <2>1 DEF RoomLeft, Settled
<1>11. Rehashing'
  <2>1. rehashThreshold' = Threshold(n) /\ entriesCount' + e' = rehashThreshold'
    BY <1>1, <1>2, <1>4
  <2>2. \A x, y \in Occupied(entries) : entries[x].key = entries[y].key => x = y
    BY <1>1, <1>2, KeysOnce
  <2>3. \A y \in Occupied(oldE') : ~ (y < i')
    <3>1. Occupied(entries) \subseteq Slots(n) /\ \A y \in Slots(n) : ~ (y < 0)
      BY <1>2, OccupiedType DEF Slots
    <3> QED
      BY <1>4, <3>1
  <2>4. FromTable(n)'
    <3>1. n >= Part /\ allocatedEntries' = 2 * n /\ oldE' \in EntryTable(n)
      BY <1>2, <1>4
    <3>2. call'.key \notin KeysOf(oldE')
      BY <1>3, <1>4
    <3>3. \A x, y \in Occupied(oldE') : oldE'[x].key = oldE'[y].key => x = y
      BY <1>4, <2>2
    <3> QED
      BY <1>5, <2>1, <2>3, <3>1, <3>2, <3>3 DEF FromTable
  <2> QED
    BY <1>1, <1>4, <2>4 DEF Rehashing
<1> QED
  BY <1>7, <1>8, <1>9, <1>10, <1>11 DEF IInv

(* What a rehash relies on while it runs.                                  *)
LEMMA InRehash ==
  ASSUME IInv, ~Idle
  PROVE  \E n \in Nat \ {0} :
           /\ FromTable(n) /\ Size = 2 * n /\ Table = entries
           /\ entries \in EntryTable(2 * n) /\ Probed(entries, 2 * n)
           /\ entriesCount = Cardinality(Occupied(entries)) /\ entriesCount \in Nat
           /\ e = Cardinality(ToMove) /\ e \in Nat /\ i \in Nat
           /\ Threshold(n) \in Nat /\ Threshold(n) < n /\ entriesCount < 2 * n
           /\ Threshold(n) + 1 <= Threshold(2 * n) /\ 2 * n >= Part
           /\ element = NoElement
<1>1. element = NoElement /\ \E n \in Nat \ {0} : FromTable(n)
  BY DEF IInv, Rehashing
<1>2. PICK n \in Nat \ {0} : FromTable(n)
  BY <1>1
<1>3. allocatedEntries = 2 * n /\ n >= Part /\ entriesCount + e = Threshold(n)
  BY <1>2 DEF FromTable
<1>4. entriesCount \in Nat /\ e \in Nat /\ i \in Nat /\ entries \in EntryTable(2 * n)
  BY <1>3 DEF IInv, TypeOK, EntryTable
<1>5. Probed(entries, 2 * n)
  BY <1>3 DEF IInv, ProbeFinds, Probed
<1>6. entriesCount = Cardinality(Occupied(entries)) /\ e = Cardinality(ToMove)
  BY DEF IInv, CountExact
<1>7. /\ Threshold(n) \in Nat /\ Threshold(n) < n
      /\ Threshold(n) + 1 <= Threshold(2 * n)
  BY <1>3, Thresholds
<1>8. Part \in Nat
  BY MapAssumption DEF Part
<1>9. Size = 2 * n /\ Table = entries /\ entriesCount < 2 * n /\ 2 * n >= Part
  BY <1>3, <1>4, <1>7, <1>8 DEF Size, Table
<1> QED
  BY <1>1, <1>2, <1>4, <1>5, <1>6, <1>7, <1>9

LEMMA RehashMoveStep ==
  ASSUME IInv, RehashMove
  PROVE  IInv'
<1>1. ~Idle /\ e > 0 /\ i' = i + 1
  BY DEF RehashMove
<1>2. PICK n \in Nat \ {0} :
        /\ FromTable(n) /\ Size = 2 * n /\ Table = entries
        /\ entries \in EntryTable(2 * n) /\ Probed(entries, 2 * n)
        /\ entriesCount = Cardinality(Occupied(entries)) /\ entriesCount \in Nat
        /\ e = Cardinality(ToMove) /\ e \in Nat /\ i \in Nat
        /\ Threshold(n) \in Nat /\ Threshold(n) < n /\ entriesCount < 2 * n
        /\ Threshold(n) + 1 <= Threshold(2 * n) /\ 2 * n >= Part
        /\ element = NoElement
  BY <1>1, InRehash
<1>3. /\ allocatedEntries = 2 * n /\ n >= Part /\ rehashThreshold = Threshold(n)
      /\ entriesCount + e = rehashThreshold /\ oldE \in EntryTable(n)
      /\ call.key \notin KeysOf(oldE)
      /\ \A x, y \in Occupied(oldE) : oldE[x].key = oldE[y].key => x = y
      /\ \A x \in Occupied(entries) : \E y \in Occupied(oldE) : oldE[y] = entries[x]
      /\ \A y \in Occupied(oldE) :
           y < i => \E x \in Occupied(entries) : entries[x] = oldE[y]
  BY <1>2 DEF FromTable
<1>4. /\ allocatedEntries' = allocatedEntries /\ rehashThreshold' = rehashThreshold
      /\ call' = call /\ oldE' = oldE /\ answer' = answer /\ iterator' = iterator
      /\ element' = element /\ ~Idle'
  BY <1>1 DEF RehashMove, Idle
<1>5. ToMove \subseteq Occupied(oldE) /\ Occupied(oldE) \subseteq Slots(n)
  BY <1>3, OccupiedType DEF ToMove
<1>6. \A x \in Slots(n) : x \in Nat /\ (x >= i + 1 <=> x >= i /\ x # i)
  BY <1>2 DEF Slots
<1>7. ToMove' = ToMove \ {i}
  BY <1>1, <1>4, <1>5, <1>6 DEF ToMove
<1>8. /\ \A x \in ToMove : oldE[x].key \notin KeysOf(entries)
      /\ KeysOf(oldE) = KeysOf(entries) \cup {oldE[x].key : x \in ToMove}
  BY <1>1 DEF IInv, CountExact
<1>9. /\ entries' \in EntryTable(2 * n) /\ Probed(entries', 2 * n)
      /\ entriesCount' = Cardinality(Occupied(entries')) /\ entriesCount' \in Nat
      /\ e' = Cardinality(ToMove') /\ e' \in Nat /\ entriesCount' + e' = Threshold(n)
      /\ \A x \in ToMove' : oldE[x].key \notin KeysOf(entries')
      /\ KeysOf(oldE) = KeysOf(entries') \cup {oldE[x].key : x \in ToMove'}
      /\ \A x \in Occupied(entries') : \E y \in Occupied(oldE) : oldE[y] = entries'[x]
      /\ \A y \in Occupied(oldE) :
           y < i' => \E x \in Occupied(entries') : entries'[x] = oldE[y]
  <2>1. CASE oldE[i] = Vacant
    <3>1. entries' = entries /\ entriesCount' = entriesCount /\ e' = e
      BY <2>1 DEF RehashMove
    <3>2. i \notin Occupied(oldE)
      BY <2>1 DEF Occupied
    <3>3. ToMove' = ToMove
      BY <1>5, <1>7, <3>2
    <3>4. \A y \in Occupied(oldE) : y < i' => y < i
      BY <1>1, <1>2, <1>5, <1>6, <3>2
    <3> QED
      BY <1>2, <1>3, <1>8, <3>1, <3>3, <3>4
  <2>2. CASE oldE[i] # Vacant
    <3> DEFINE ent == oldE[i]
               f == findEntry(entries, Size, ent.key)
    <3>1. /\ entriesCount < rehashThreshold /\ entries' = [entries EXCEPT ![f] = ent]
          /\ entriesCount' = entriesCount + 1 /\ e' = e - 1
      BY <2>2 DEF RehashMove
    <3>2. i \in ToMove
      <4>1. ToMove # {}
        <5>1. Cardinality({}) = 0
          BY FS_EmptySet
        <5> QED
          BY <1>1, <1>2, <5>1
      <4>2. PICK x \in ToMove : TRUE
        BY <4>1
      <4>3. x \in Slots(n) /\ x >= i
        BY <1>5, <4>2 DEF ToMove
      <4>4. i \in Slots(n)
        BY <1>2, <4>3 DEF Slots
      <4>5. DOMAIN oldE = Slots(n)
        BY <1>3, OccupiedType
      <4>6. i \in Occupied(oldE)
        BY <2>2, <4>4, <4>5 DEF Occupied
      <4> QED
        BY <1>2, <4>6 DEF ToMove
    <3>3. i \in Occupied(oldE) /\ ent \in Entry /\ ent.key \in Key /\ ent.key \notin KeysOf(entries)
      BY <1>3, <1>5, <1>8, <3>2, OccupiedType
    <3>4. entries[f] = Vacant
      <4> HIDE DEF ent
      <4> QED
        BY <1>2, <3>3, AbsentIsVacant
    <3>5. Adds(entries', entries, f, ent, 2 * n)
      <4>1. f = findEntry(entries, 2 * n, ent.key)
        BY <1>2
      <4>2. 2 * n \in Nat \ {0} /\ Cardinality(Occupied(entries)) < 2 * n
        BY <1>2
      <4> HIDE DEF ent, f
      <4> QED
        BY <1>2, <3>1, <3>3, <3>4, <4>1, <4>2, Inserted
    <3> HIDE DEF f
    <3>6. /\ entries' \in EntryTable(2 * n) /\ Probed(entries', 2 * n)
          /\ Occupied(entries') = Occupied(entries) \cup {f}
          /\ Cardinality(Occupied(entries')) = entriesCount + 1
          /\ entries'[f] = ent /\ \A x \in Occupied(entries) : entries'[x] = entries[x]
          /\ KeysOf(entries') = KeysOf(entries) \cup {ent.key}
      BY <1>2, <3>5 DEF Adds
    <3>7. e' = Cardinality(ToMove')
      <4>1. IsFiniteSet(ToMove)
        BY <1>3, <1>5, OccupiedType, FS_Subset
      <4>2. Cardinality(ToMove \ {i}) = Cardinality(ToMove) - 1
        BY <3>2, <4>1, FS_RemoveElement
      <4> QED
        BY <1>2, <1>7, <3>1, <4>2
    <3>8. \A x \in ToMove' : oldE[x].key \notin KeysOf(entries')
      BY <1>3, <1>5, <1>7, <1>8, <3>3, <3>6
    <3>9. KeysOf(oldE) = KeysOf(entries') \cup {oldE[x].key : x \in ToMove'}
      <4>1. {oldE[x].key : x \in ToMove} = {oldE[x].key : x \in ToMove'} \cup {ent.key}
        BY <1>7, <3>2
      <4> HIDE DEF ent
      <4> QED
        BY <1>8, <3>6, <4>1
    <3>10. \A x \in Occupied(entries') : \E y \in Occupied(oldE) : oldE[y] = entries'[x]
      BY <1>3, <3>3, <3>6
    <3>11. \A y \in Occupied(oldE) :
             y < i' => \E x \in Occupied(entries') : entries'[x] = oldE[y]
      <4>1. \A y \in Occupied(oldE) : y < i' => y < i \/ y = i
        BY <1>1, <1>2, <1>5, <1>6
      <4> QED
        BY <1>3, <3>3, <3>6, <4>1
    <3>12. /\ entriesCount' \in Nat /\ e' \in Nat /\ entriesCount' + e' = Threshold(n)
           /\ entriesCount' = Cardinality(Occupied(entries'))
      BY <1>1, <1>2, <1>3, <3>1, <3>6
    <3> QED
      BY <3>6, <3>7, <3>8, <3>9, <3>10, <3>11, <3>12
  <2> QED
    BY <2>1, <2>2
<1>10. TypeOK'
  <2>1. /\ allocatedEntries' \in Nat /\ i' \in Nat
        /\ entries' \in EntryTable(allocatedEntries')
    BY <1>1, <1>2, <1>3, <1>4, <1>9
  <2> QED
    BY <1>4, <1>9, <2>1 DEF IInv, TypeOK, EntryTable
<1>11. ProbeFinds' /\ ElementStays' /\ Settled'
  BY <1>2, <1>3, <1>4, <1>9 DEF ProbeFinds, Probed, ElementStays, Settled
<1>12. CountExact'
  BY <1>4, <1>9 DEF CountExact
<1>13. RoomLeft'
  <2>1. Cardinality(Occupied(entries')) < allocatedEntries'
    BY <1>2, <1>3, <1>4, <1>9
  <2>2. e' > 0 => entriesCount' < rehashThreshold'
    BY <1>3, <1>4, <1>9
  <2> QED
    BY <1>4, <2>1, <2>2 DEF RoomLeft
<1>14. Rehashing'
  <2>1. FromTable(n)'
    BY <1>3, <1>4, <1>9 DEF FromTable
  <2> QED
    BY <1>2, <1>4, <2>1 DEF Rehashing
<1> QED
  BY <1>10, <1>11, <1>12, <1>13, <1>14 DEF IInv

LEMMA RehashEndsStep ==
  ASSUME IInv, RehashEnds
  PROVE  IInv'
<1> DEFINE f == findEntry(entries, Size, call.key)
           ent == [key |-> call.key, value |-> call.value]
<1>1. /\ ~Idle /\ e = 0 /\ rehashThreshold' = Threshold(allocatedEntries)
      /\ entries' = [entries EXCEPT ![f] = ent] /\ entriesCount' = entriesCount + 1
      /\ answer' = Returns(call.op, NoValue) /\ call' = NoCall
      /\ oldE' = NoTable /\ i' = 0 /\ e' = e
      /\ allocatedEntries' = allocatedEntries /\ iterator' = iterator /\ element' = element
  BY DEF RehashEnds
<1>2. PICK n \in Nat \ {0} :
        /\ FromTable(n) /\ Size = 2 * n /\ Table = entries
        /\ entries \in EntryTable(2 * n) /\ Probed(entries, 2 * n)
        /\ entriesCount = Cardinality(Occupied(entries)) /\ entriesCount \in Nat
        /\ e = Cardinality(ToMove) /\ e \in Nat /\ i \in Nat
        /\ Threshold(n) \in Nat /\ Threshold(n) < n /\ entriesCount < 2 * n
        /\ Threshold(n) + 1 <= Threshold(2 * n) /\ 2 * n >= Part
        /\ element = NoElement
  BY <1>1, InRehash
<1>3. /\ allocatedEntries = 2 * n /\ rehashThreshold = Threshold(n)
      /\ entriesCount + e = rehashThreshold /\ oldE \in EntryTable(n)
      /\ call.key \notin KeysOf(oldE)
  BY <1>2 DEF FromTable
<1>4. call.key \in Key /\ call.value \in Value /\ call.op \in Writes
  BY <1>1 DEF IInv, TypeOK, Calls, Idle
<1>5. call.key \notin KeysOf(entries)
  BY <1>1, <1>3 DEF IInv, CountExact
<1>6. ent \in Entry /\ ent.key = call.key
  BY <1>4 DEF Entry
<1>7. entries[f] = Vacant /\ f = findEntry(entries, 2 * n, ent.key)
  BY <1>2, <1>4, <1>5, <1>6, AbsentIsVacant
<1>8. Adds(entries', entries, f, ent, 2 * n)
  <2>1. 2 * n \in Nat \ {0} /\ Cardinality(Occupied(entries)) < 2 * n
    BY <1>2
  <2> HIDE DEF f, ent
  <2> QED
    BY <1>1, <1>2, <1>6, <1>7, <2>1, Inserted
<1>9. /\ entries' \in EntryTable(2 * n) /\ Probed(entries', 2 * n)
      /\ Cardinality(Occupied(entries')) = entriesCount + 1
  BY <1>2, <1>8 DEF Adds
<1>10. entriesCount' <= Threshold(2 * n) /\ 2 * n \in Nat
  <2>1. entriesCount = Threshold(n)
    BY <1>1, <1>2, <1>3
  <2> QED
    BY <1>1, <1>2, <2>1
<1>11. answer' \in Answers /\ iterator' \in Iterators
  <2>1. iterator \in Iterators
    BY DEF IInv, TypeOK, Iterators
  <2> QED
    BY <1>1, <1>4, <2>1 DEF Returns, Writes, Answers
<1>12. element' \in Elements(2 * n) /\ element' = NoElement
  BY <1>1, <1>2 DEF Elements
<1> HIDE DEF f, ent
<1> QED
  BY <1>1, <1>2, <1>3, <1>9, <1>10, <1>11, <1>12, SettledAgain

-----------------------------------------------------------------------------
LEMMA Inductive == IInv /\ [Next]_vars => IInv'
<1> SUFFICES ASSUME IInv, [Next]_vars PROVE IInv'
  OBVIOUS
<1>1. ASSUME NEW k \in Key, Get(k) PROVE IInv'
  BY <1>1, GetStep
<1>2. ASSUME NEW k \in Key, ElementAddress(k) PROVE IInv'
  BY <1>2, ElementAddressStep
<1>3. ASSUME NEW k \in Key, NEW op \in Writes, NEW v \in Value,
             WritePresent(op, k, v) \/ WriteAbsent(op, k, v) \/ Rehash(op, k, v)
      PROVE  IInv'
  BY <1>3, WritePresentStep, WriteAbsentStep, RehashStep
<1>4. ASSUME NEW v \in Value, Store(v) PROVE IInv'
  BY <1>4, StoreStep
<1>5. CASE RehashMove \/ RehashEnds
  BY <1>5, RehashMoveStep, RehashEndsStep
<1>6. CASE Begin \/ IteratorNext
  BY <1>6, IteratorStep
<1>7. CASE UNCHANGED vars
  BY <1>7 DEF IInv, TypeOK, ProbeFinds, CountExact, RoomLeft, ElementStays, Settled,
              Rehashing, FromTable, ToMove, Idle, vars, table, rehash
<1> QED
  BY <1>1, <1>2, <1>3, <1>4, <1>5, <1>6, <1>7 DEF Next

LEMMA Invariance == Spec => []IInv
BY InitIInv, Inductive, PTL DEF Spec

(* The fields of the map, the local variables of a rehash, the iterator    *)
(* and the element's address have their types.                             *)
THEOREM TableTypes == Spec => []TypeOK
BY Invariance, PTL DEF IInv

(* Whatever the hash function, findEntry() finds every entry, also in the  *)
(* half-filled table of a rehash.                                          *)
THEOREM ProbeCorrect == Spec => []ProbeFinds
BY Invariance, PTL DEF IInv

(* The count, and the loop counter of a rehash, are those of the entries.  *)
THEOREM CountsExact == Spec => []CountExact
BY Invariance, PTL DEF IInv

(* A slot is always vacant, so that every probe ends, and hadToRehash()    *)
(* never starts a rehash within a rehash, for any first size and any part  *)
(* of the table that is kept vacant.                                       *)
THEOREM RoomStays == Spec => []RoomLeft
BY Invariance, PTL DEF IInv

(* Only a rehash ends the validity of an element's address.                *)
THEOREM ElementsStay == Spec => []ElementStays
BY Invariance, PTL DEF IInv

-----------------------------------------------------------------------------
(* The iterator.                                                           *)
UpTo(t, x) == {t[y].key : y \in {z \in Occupied(t) : z <= x}}

(* A step that leaves the iterator and every key where they are.           *)
LEMMA VisitedKept ==
  ASSUME Visited, iterator' = iterator, Occupied(entries') = Occupied(entries),
         \A x \in Occupied(entries) : entries'[x].key = entries[x].key,
         ~Idle' => iterator.disturbed
  PROVE  Visited'
BY DEF Visited

LEMMA Kept ==
  ASSUME IInv, Idle, entries' = Table
  PROVE  /\ Occupied(entries') = Occupied(entries)
         /\ \A x \in Occupied(entries) : entries'[x] = entries[x]
BY InTable

LEMMA Overwrites ==
  ASSUME IInv,
         (\E op \in Writes, k \in Key, v \in Value : WritePresent(op, k, v))
           \/ \E v \in Value : Store(v)
  PROVE  /\ Occupied(entries') = Occupied(entries)
         /\ \A x \in Occupied(entries) : entries'[x].key = entries[x].key
<1>1. ASSUME NEW op \in Writes, NEW k \in Key, NEW v \in Value, WritePresent(op, k, v)
      PROVE  /\ Occupied(entries') = Occupied(entries)
             /\ \A x \in Occupied(entries) : entries'[x].key = entries[x].key
  <2> DEFINE x == Found(k)
             ent == [key |-> k, value |-> v]
  <2>1. /\ Idle /\ Table[x] # Vacant
        /\ entries' = Table \/ entries' = [Table EXCEPT ![x] = ent]
    BY <1>1 DEF WritePresent
  <2>2. /\ Size \in Nat \ {0} /\ Table \in EntryTable(Size) /\ Probed(Table, Size)
        /\ Occupied(Table) = Occupied(entries)
        /\ \A y \in Occupied(entries) : Table[y] = entries[y]
    BY <2>1, InTable
  <2>3. x \in Occupied(Table) /\ Table[x].key = k
    BY <2>1, Searched
  <2>4. ent \in Entry /\ ent.key = Table[x].key
    BY <2>3 DEF Entry
  <2>5. CASE entries' = Table
    BY <2>2, <2>5
  <2>6. CASE entries' = [Table EXCEPT ![x] = ent]
    <3> HIDE DEF x, ent
    <3>1. Changes(entries', Table, x, ent, Size)
      BY <2>2, <2>3, <2>4, <2>6, Overwritten
    <3> QED
      BY <2>2, <3>1 DEF Changes
  <2> QED
    BY <2>1, <2>5, <2>6
<1>2. ASSUME NEW v \in Value, Store(v)
      PROVE  /\ Occupied(entries') = Occupied(entries)
             /\ \A x \in Occupied(entries) : entries'[x].key = entries[x].key
  <2> DEFINE ent == [entries[element.slot] EXCEPT !.value = v]
  <2>1. Changes(entries', entries, element.slot, ent, allocatedEntries)
    BY <1>2, StoreChanges
  <2> QED
    BY <2>1 DEF Changes
<1> QED
  BY <1>1, <1>2

LEMMA BeginVisited ==
  ASSUME IInv, Begin
  PROVE  Visited'
<1> DEFINE x == IF entriesCount = 0 THEN allocatedEntries ELSE NextValid(0)
<1>1. /\ Idle /\ call' = call /\ entries' = entries
      /\ iterator' = [index |-> x, seen |-> Seen(x), disturbed |-> FALSE]
  BY DEF Begin, table
<1>2. /\ allocatedEntries \in Nat /\ entries \in EntryTable(allocatedEntries)
      /\ Occupied(entries) \subseteq Slots(allocatedEntries)
      /\ IsFiniteSet(Occupied(entries)) /\ entriesCount = Cardinality(Occupied(entries))
  <2>1. allocatedEntries \in Nat /\ entries \in EntryTable(allocatedEntries)
    BY DEF IInv, TypeOK, EntryTable
  <2> QED
    BY <2>1, OccupiedType DEF IInv, CountExact
<1>3. Seen(x) = UpTo(entries, x)
  <2>1. CASE entriesCount = 0
    <3>1. Occupied(entries) = {}
      BY <1>2, <2>1, FS_EmptySet
    <3> QED
      BY <1>2, <2>1, <3>1 DEF Seen, UpTo
  <2>2. CASE entriesCount # 0
    <3>1. /\ x = NextValid(0) /\ x \in Nat
          /\ x # allocatedEntries => x \in Slots(allocatedEntries) /\ entries[x] # Vacant
          /\ \A y \in Slots(allocatedEntries) : y >= 0 /\ entries[y] # Vacant => x <= y
      BY <1>2, <2>2, NextValidType
    <3> HIDE DEF x
    <3>2. \A y \in Occupied(entries) : y \in Nat /\ y < allocatedEntries /\ x <= y
      BY <1>2, <3>1 DEF Occupied, Slots
    <3>3. CASE x = allocatedEntries
      <4>1. {y \in Occupied(entries) : y <= x} = {}
        BY <1>2, <3>2, <3>3
      <4> QED
        BY <1>2, <3>3, <4>1 DEF Seen, UpTo
    <3>4. CASE x # allocatedEntries
      <4>1. x \in Occupied(entries) /\ x < allocatedEntries
        BY <1>2, <3>1, <3>4 DEF Occupied, EntryTable, Slots
      <4>2. {y \in Occupied(entries) : y <= x} = {x}
        <5>1. \A y \in Occupied(entries) : y <= x <=> y = x
          BY <3>1, <3>2
        <5> QED
          BY <4>1, <5>1
      <4> QED
        BY <4>1, <4>2 DEF Seen, UpTo
    <3> QED
      BY <3>3, <3>4
  <2> QED
    BY <2>1, <2>2
<1> HIDE DEF x
<1>4. iterator'.index = x /\ iterator'.seen = Seen(x) /\ Idle'
  BY <1>1 DEF Idle
<1> QED
  BY <1>1, <1>3, <1>4 DEF Visited, UpTo

LEMMA IteratorNextVisited ==
  ASSUME IInv, Visited, IteratorNext
  PROVE  Visited'
<1> DEFINE x == NextValid(iterator.index + 1)
<1>1. /\ Idle /\ hasNext /\ call' = call /\ entries' = entries
      /\ iterator' = [iterator EXCEPT !.index = x,
                        !.seen = IF iterator.disturbed THEN {} ELSE @ \cup Seen(x)]
  BY DEF IteratorNext, table
<1>2. /\ allocatedEntries \in Nat /\ entries \in EntryTable(allocatedEntries)
      /\ Occupied(entries) \subseteq Slots(allocatedEntries) /\ iterator \in Iterators
      /\ iterator.index \in Nat
  <2>1. /\ allocatedEntries \in Nat /\ entries \in EntryTable(allocatedEntries)
        /\ iterator \in Iterators
    BY DEF IInv, TypeOK, EntryTable, Iterators
  <2> QED
    BY <2>1, OccupiedType DEF Iterators
<1>3. /\ x \in Nat
      /\ x # allocatedEntries => /\ x \in Slots(allocatedEntries) /\ x >= iterator.index + 1
                                 /\ entries[x] # Vacant
      /\ \A y \in Slots(allocatedEntries) :
           y >= iterator.index + 1 /\ entries[y] # Vacant => x <= y
  BY <1>2, NextValidType
<1> HIDE DEF x
<1>4. \A y \in Occupied(entries) :
        /\ y \in Nat /\ y < allocatedEntries
        /\ y <= iterator.index \/ x <= y
  BY <1>2, <1>3 DEF Occupied, Slots
<1>5. UpTo(entries, x) = UpTo(entries, iterator.index) \cup Seen(x)
  <2>1. iterator.index < allocatedEntries
    BY <1>1 DEF hasNext
  <2>2. CASE x = allocatedEntries
    <3>1. {y \in Occupied(entries) : y <= x} = {y \in Occupied(entries) : y <= iterator.index}
      BY <1>2, <1>4, <2>1, <2>2
    <3> QED
      BY <1>2, <2>2, <3>1 DEF Seen, UpTo
  <2>3. CASE x # allocatedEntries
    <3>1. x \in Occupied(entries) /\ x < allocatedEntries /\ x > iterator.index
      BY <1>2, <1>3, <2>3 DEF Occupied, EntryTable, Slots
    <3>2. {y \in Occupied(entries) : y <= x} =
            {y \in Occupied(entries) : y <= iterator.index} \cup {x}
      <4>1. \A y \in Occupied(entries) : y <= x <=> y <= iterator.index \/ y = x
        BY <1>2, <1>3, <1>4, <3>1
      <4> QED
        BY <3>1, <4>1
    <3> QED
      BY <3>1, <3>2 DEF Seen, UpTo
  <2> QED
    BY <2>2, <2>3
<1>6. /\ iterator'.index = x /\ Idle' /\ iterator'.disturbed = iterator.disturbed
      /\ ~iterator.disturbed => iterator'.seen = iterator.seen \cup Seen(x)
  BY <1>1, <1>2 DEF Iterators, Idle
<1>7. ~iterator.disturbed => iterator.seen = UpTo(entries, iterator.index)
  BY DEF Visited, UpTo
<1>8. ~iterator'.disturbed => iterator'.seen = UpTo(entries', iterator'.index)
  BY <1>1, <1>5, <1>6, <1>7
<1> QED
  BY <1>6, <1>8 DEF Visited, UpTo

LEMMA VisitedInductive == IInv /\ Visited /\ [Next]_vars => Visited'
<1> SUFFICES ASSUME IInv, Visited, [Next]_vars PROVE Visited'
  OBVIOUS
<1>1. ASSUME NEW k \in Key, Get(k) \/ ElementAddress(k) PROVE Visited'
  <2>1. Idle /\ Idle' /\ entries' = Table /\ iterator' = iterator
    BY <1>1 DEF Get, ElementAddress, Idle
  <2> QED
    BY <2>1, Kept, VisitedKept
<1>2. ASSUME NEW k \in Key, NEW op \in Writes, NEW v \in Value, WritePresent(op, k, v)
      PROVE  Visited'
  <2>1. Idle /\ Idle' /\ iterator' = iterator
    BY <1>2 DEF WritePresent, Idle
  <2> QED
    BY <1>2, <2>1, Overwrites, VisitedKept
<1>3. ASSUME NEW k \in Key, NEW op \in Writes, NEW v \in Value,
             WriteAbsent(op, k, v) \/ Rehash(op, k, v)
      PROVE  Visited'
  <2>1. iterator' = Disturbed /\ iterator \in Iterators
    BY <1>3 DEF WriteAbsent, Rehash, IInv, TypeOK, Iterators
  <2>2. iterator'.disturbed
    BY <2>1 DEF Disturbed, Iterators
  <2> QED
    BY <2>2 DEF Visited
<1>4. ASSUME NEW v \in Value, Store(v) PROVE Visited'
  <2>1. Idle /\ Idle' /\ iterator' = iterator
    BY <1>4 DEF Store, Idle
  <2> QED
    BY <1>4, <2>1, Overwrites, VisitedKept
<1>5. CASE RehashMove \/ RehashEnds
  <2>1. ~Idle /\ iterator' = iterator
    BY <1>5 DEF RehashMove, RehashEnds
  <2> QED
    BY <2>1 DEF Visited
<1>6. CASE Begin
  BY <1>6, BeginVisited
<1>7. CASE IteratorNext
  BY <1>7, IteratorNextVisited
<1>8. CASE UNCHANGED vars
  BY <1>8 DEF Visited, Idle, vars, table
<1> QED
  BY <1>1, <1>2, <1>3, <1>4, <1>5, <1>6, <1>7, <1>8 DEF Next

(* An iterator that nobody disturbs by an insertion is at every key.       *)
THEOREM IterationComplete == Spec => []IteratesAll
<1>1. Init => Visited
  BY DEF Init, Visited, Idle, Occupied, NoTable
<1>2. IInv /\ Visited => IteratesAll
  <2> SUFFICES ASSUME IInv, Visited, Idle, ~iterator.disturbed, ~hasNext
               PROVE  iterator.seen = KeysOf(entries)
    BY DEF IteratesAll
  <2>1. /\ allocatedEntries \in Nat /\ iterator.index \in Nat
        /\ Occupied(entries) \subseteq Slots(allocatedEntries)
    <3>1. allocatedEntries \in Nat /\ entries \in EntryTable(allocatedEntries)
      BY DEF IInv, TypeOK, EntryTable
    <3> QED
      BY <3>1, OccupiedType DEF IInv, TypeOK
  <2>2. {y \in Occupied(entries) : y <= iterator.index} = Occupied(entries)
    BY <2>1 DEF hasNext, Slots
  <2> QED
    BY <2>2 DEF Visited, KeysOf
<1> QED
  BY <1>1, <1>2, Invariance, VisitedInductive, PTL DEF Spec

-----------------------------------------------------------------------------
(* The hash table implements the abstract map.                             *)

(* The table that has the entries a caller sees.                           *)
Held == IF Idle THEN entries ELSE oldE

KeyedOnce(t) == \A x, y \in Occupied(t) : t[x].key = t[y].key => x = y

LEMMA LookupAbsent ==
  ASSUME NEW t, NEW k, k \notin KeysOf(t)
  PROVE  Lookup(t, k) = NoValue
BY DEF Lookup

LEMMA LookupPresent ==
  ASSUME NEW t, KeyedOnce(t), NEW x \in Occupied(t)
  PROVE  Lookup(t, t[x].key) = t[x].value
<1> DEFINE k == t[x].key
           y == CHOOSE z \in Occupied(t) : t[z].key = k
<1>1. k \in KeysOf(t)
  BY DEF KeysOf
<1>2. y \in Occupied(t) /\ t[y].key = k
  OBVIOUS
<1>3. y = x
  BY <1>2 DEF KeyedOnce
<1>4. Lookup(t, k) = t[y].value
  BY <1>1 DEF Lookup
<1> QED
  BY <1>3, <1>4

(* Two tables with the same entries are the same map.                      *)
LEMMA LookupSame ==
  ASSUME NEW t, NEW u, KeyedOnce(t), KeyedOnce(u),
         \A x \in Occupied(t) : \E y \in Occupied(u) : u[y] = t[x],
         \A y \in Occupied(u) : \E x \in Occupied(t) : t[x] = u[y],
         NEW k
  PROVE  Lookup(u, k) = Lookup(t, k)
<1>1. CASE k \in KeysOf(t)
  <2>1. PICK x \in Occupied(t) : t[x].key = k
    BY <1>1 DEF KeysOf
  <2>2. PICK y \in Occupied(u) : u[y] = t[x]
    OBVIOUS
  <2>3. Lookup(t, t[x].key) = t[x].value /\ Lookup(u, u[y].key) = u[y].value
    BY LookupPresent
  <2> QED
    BY <2>1, <2>2, <2>3
<1>2. CASE k \notin KeysOf(t)
  <2>1. k \notin KeysOf(u)
    <3>1. SUFFICES ASSUME NEW y \in Occupied(u), u[y].key = k PROVE FALSE
      BY DEF KeysOf
    <3>2. PICK x \in Occupied(t) : t[x] = u[y]
      OBVIOUS
    <3> QED
      BY <1>2, <3>1, <3>2 DEF KeysOf
  <2> QED
    BY <1>2, <2>1, LookupAbsent
<1> QED
  BY <1>1, <1>2

(* u is t with one more entry, or with an entry in place of the key's one. *)
LEMMA LookupWritten ==
  ASSUME NEW t, NEW u, KeyedOnce(t), KeyedOnce(u), NEW ent, NEW f \in Occupied(u),
         u[f] = ent,
         \A x \in Occupied(t) : t[x].key # ent.key => \E y \in Occupied(u) : u[y] = t[x],
         \A y \in Occupied(u) : y # f => \E x \in Occupied(t) : t[x] = u[y],
         NEW k
  PROVE  Lookup(u, k) = IF k = ent.key THEN ent.value ELSE Lookup(t, k)
<1>1. CASE k = ent.key
  BY <1>1, LookupPresent
<1>2. CASE k # ent.key /\ k \in KeysOf(t)
  <2>1. PICK x \in Occupied(t) : t[x].key = k
    BY <1>2 DEF KeysOf
  <2>2. PICK y \in Occupied(u) : u[y] = t[x]
    BY <1>2, <2>1
  <2>3. Lookup(t, t[x].key) = t[x].value /\ Lookup(u, u[y].key) = u[y].value
    BY LookupPresent
  <2> QED
    BY <1>2, <2>1, <2>2, <2>3
<1>3. CASE k # ent.key /\ k \notin KeysOf(t)
  <2>1. k \notin KeysOf(u)
    <3>1. SUFFICES ASSUME NEW y \in Occupied(u), u[y].key = k PROVE FALSE
      BY DEF KeysOf
    <3>2. y # f
      BY <1>3, <3>1
    <3>3. PICK x \in Occupied(t) : t[x] = u[y]
      BY <3>2
    <3> QED
      BY <1>3, <3>1, <3>3 DEF KeysOf
  <2> QED
    BY <1>3, <2>1, LookupAbsent
<1> QED
  BY <1>1, <1>2, <1>3

(* What a caller sees of the table an operation works on.                  *)
LEMMA TableContents ==
  ASSUME IInv, Idle
  PROVE  /\ KeyedOnce(entries) /\ KeyedOnce(Table)
         /\ \A k \in Key : Contents[k] = Lookup(Table, k)
         /\ \A k \in Key : Contents[k] = ValueAt(Table, Found(k))
         /\ \A k \in Key : Contents[k] = NoValue <=> Table[Found(k)] = Vacant
<1>1. /\ Size \in Nat \ {0} /\ Table \in EntryTable(Size) /\ Probed(Table, Size)
      /\ Occupied(Table) = Occupied(entries)
      /\ \A x \in Occupied(entries) : Table[x] = entries[x]
  BY InTable
<1>2. KeyedOnce(Table)
  BY <1>1, KeysOnce DEF KeyedOnce
<1>3. KeyedOnce(entries)
  BY <1>1, <1>2 DEF KeyedOnce
<1>4. ASSUME NEW k \in Key
      PROVE  Contents[k] = Lookup(Table, k)
  <2>1. Contents[k] = Lookup(entries, k)
    BY DEF Contents
  <2>2. Lookup(entries, k) = Lookup(Table, k)
    BY <1>1, <1>2, <1>3, LookupSame
  <2> QED
    BY <2>1, <2>2
<1>5. ASSUME NEW k \in Key
      PROVE  /\ Contents[k] = ValueAt(Table, Found(k))
             /\ Contents[k] = NoValue <=> Table[Found(k)] = Vacant
  <2>1. CASE Table[Found(k)] = Vacant
    <3>1. k \notin KeysOf(Table)
      BY <2>1, Searched
    <3> QED
      BY <1>4, <2>1, <3>1, LookupAbsent DEF ValueAt
  <2>2. CASE Table[Found(k)] # Vacant
    <3>1. Found(k) \in Occupied(Table) /\ Table[Found(k)].key = k
      BY <2>2, Searched
    <3>2. Lookup(Table, k) = Table[Found(k)].value /\ Table[Found(k)].value \in Value
      BY <1>1, <1>2, <3>1, LookupPresent, OccupiedType
    <3> QED
      BY <1>4, <2>2, <3>2, MapAssumption DEF ValueAt
  <2> QED
    BY <2>1, <2>2
<1> QED
  BY <1>2, <1>3, <1>4, <1>5

(* A step that keeps the entries of the table in use.                      *)
LEMMA ContentsKept ==
  ASSUME Occupied(Held') = Occupied(Held),
         \A x \in Occupied(Held) : Held'[x] = Held[x], KeyedOnce(Held)
  PROVE  Contents' = Contents
<1>1. KeyedOnce(Held')
  BY DEF KeyedOnce
<1>2. \A k \in Key : Lookup(Held', k) = Lookup(Held, k)
  BY <1>1, LookupSame
<1>3. Contents = [k \in Key |-> Lookup(Held, k)]
  BY DEF Contents, Held
<1>4. Contents' = [k \in Key |-> Lookup(Held', k)]
  BY DEF Contents, Held
<1> QED
  BY <1>2, <1>3, <1>4

LEMMA ContentsWritten ==
  ASSUME KeyedOnce(Held), KeyedOnce(Held'), NEW ent, NEW f \in Occupied(Held'),
         Held'[f] = ent,
         \A x \in Occupied(Held) :
           Held[x].key # ent.key => \E y \in Occupied(Held') : Held'[y] = Held[x],
         \A y \in Occupied(Held') : y # f => \E x \in Occupied(Held) : Held[x] = Held'[y]
  PROVE  Contents' = [Contents EXCEPT ![ent.key] = ent.value]
<1>1. \A k \in Key : Lookup(Held', k) = IF k = ent.key THEN ent.value ELSE Lookup(Held, k)
  BY LookupWritten
<1>2. Contents = [k \in Key |-> Lookup(Held, k)]
  BY DEF Contents, Held
<1>3. Contents' = [k \in Key |-> Lookup(Held', k)]
  BY DEF Contents, Held
<1> QED
  BY <1>1, <1>2, <1>3

LEMMA HeldOnce ==
  ASSUME IInv
  PROVE  KeyedOnce(Held)
<1>1. CASE Idle
  BY <1>1, TableContents DEF Held
<1>2. CASE ~Idle
  <2>1. \E n \in Nat \ {0} : FromTable(n)
    BY <1>2 DEF IInv, Rehashing
  <2>2. \A x, y \in Occupied(oldE) : oldE[x].key = oldE[y].key => x = y
    BY <2>1 DEF FromTable
  <2> QED
    BY <1>2, <2>2 DEF Held, KeyedOnce
<1> QED
  BY <1>1, <1>2

AbstractStep == [Map!Next]_<<Contents, answer>>

LEMMA GetMaps ==
  ASSUME IInv, NEW k \in Key, Get(k) \/ ElementAddress(k)
  PROVE  AbstractStep
<1>1. Idle /\ Idle' /\ entries' = Table
  BY DEF Get, ElementAddress, Idle
<1>2. Contents' = Contents
  BY <1>1, Kept, HeldOnce, ContentsKept DEF Held
<1>3. CASE Get(k)
  <2>1. answer' = Contents[k]
    BY <1>1, <1>3, TableContents DEF Get
  <2> QED
    BY <1>2, <2>1 DEF AbstractStep, Map!Next, Map!Get, Map!Answer
<1>4. CASE ElementAddress(k)
  BY <1>2, <1>4 DEF AbstractStep, ElementAddress
<1> QED
  BY <1>3, <1>4

LEMMA WritePresentMaps ==
  ASSUME IInv, NEW op \in Writes, NEW k \in Key, NEW v \in Value,
         WritePresent(op, k, v)
  PROVE  AbstractStep
<1> DEFINE x == Found(k)
           ent == [key |-> k, value |-> v]
<1>1. /\ Idle /\ Idle' /\ Table[x] # Vacant
      /\ entries' = IF op = "insert" THEN Table ELSE [Table EXCEPT ![x] = ent]
      /\ answer' = Returns(op, Table[x].value)
  BY DEF WritePresent, Idle
<1>2. Contents[k] # NoValue /\ Contents[k] = Table[x].value
  BY <1>1, TableContents DEF ValueAt
<1>3. answer' = Map!Answer(op, Contents[k])
  BY <1>1, <1>2 DEF Returns, Map!Answer, Writes
<1>4. CASE op = "insert"
  <2>1. entries' = Table
    BY <1>1, <1>4
  <2>2. Contents' = Contents
    BY <1>1, <2>1, Kept, HeldOnce, ContentsKept DEF Held
  <2> QED
    BY <1>2, <1>3, <1>4, <2>2 DEF AbstractStep, Map!Next, Map!Write
<1>5. CASE op # "insert"
  <2>1. /\ Size \in Nat \ {0} /\ Table \in EntryTable(Size) /\ Probed(Table, Size)
        /\ Occupied(Table) = Occupied(entries)
        /\ \A y \in Occupied(entries) : Table[y] = entries[y]
    BY <1>1, InTable
  <2>2. x \in Occupied(Table) /\ Table[x].key = k
    BY <1>1, Searched
  <2>3. ent \in Entry /\ ent.key = Table[x].key /\ ent.key = k /\ ent.value = v
    BY <2>2 DEF Entry
  <2>4. entries' = [Table EXCEPT ![x] = ent]
    BY <1>1, <1>5
  <2> HIDE DEF x, ent
  <2>5. Changes(entries', Table, x, ent, Size)
    BY <2>1, <2>2, <2>3, <2>4, Overwritten
  <2>6. /\ Held = entries /\ Held' = entries' /\ KeyedOnce(Held) /\ KeyedOnce(Held')
        /\ Occupied(Held') = Occupied(Held) /\ x \in Occupied(Held') /\ Held'[x] = ent
        /\ \A y \in Occupied(Held) : y # x => Held'[y] = Held[y]
        /\ Held[x].key = ent.key
    <3>1. Held = entries /\ Held' = entries'
      BY <1>1 DEF Held
    <3>2. KeyedOnce(Held) /\ KeyedOnce(Held')
      BY HeldOnce, KeysOnce, <2>1, <2>5, <3>1 DEF Changes, KeyedOnce
    <3> QED
      BY <2>1, <2>2, <2>3, <2>5, <3>1, <3>2 DEF Changes
  <2>7. Contents' = [Contents EXCEPT ![ent.key] = ent.value]
    <3>1. \A y \in Occupied(Held) :
            Held[y].key # ent.key => \E z \in Occupied(Held') : Held'[z] = Held[y]
      BY <2>6
    <3>2. \A y \in Occupied(Held') : y # x => \E z \in Occupied(Held) : Held[z] = Held'[y]
      BY <2>6
    <3> QED
      BY <2>6, <3>1, <3>2, ContentsWritten
  <2> QED
    BY <1>3, <1>5, <2>3, <2>7 DEF AbstractStep, Map!Next, Map!Write, Writes
<1> QED
  BY <1>4, <1>5

LEMMA WriteAbsentMaps ==
  ASSUME IInv, NEW op \in Writes, NEW k \in Key, NEW v \in Value,
         WriteAbsent(op, k, v)
  PROVE  AbstractStep
<1> DEFINE x == Found(k)
           ent == [key |-> k, value |-> v]
<1>1. /\ Idle /\ Idle' /\ Table[x] = Vacant
      /\ entries' = [Table EXCEPT ![x] = ent] /\ answer' = Returns(op, NoValue)
  BY DEF WriteAbsent, Idle
<1>2. Contents[k] = NoValue
  BY <1>1, TableContents
<1>3. answer' = Map!Answer(op, Contents[k])
  BY <1>1, <1>2 DEF Returns, Map!Answer, Writes
<1>4. /\ Size \in Nat \ {0} /\ Table \in EntryTable(Size) /\ Probed(Table, Size)
      /\ Cardinality(Occupied(Table)) < Size /\ Occupied(Table) = Occupied(entries)
      /\ \A y \in Occupied(entries) : Table[y] = entries[y]
  BY <1>1, InTable
<1>5. /\ ent \in Entry /\ ent.key = k /\ ent.value = v
      /\ x = findEntry(Table, Size, ent.key)
  BY DEF Entry, Found
<1> HIDE DEF x, ent
<1>6. Adds(entries', Table, x, ent, Size)
  BY <1>1, <1>4, <1>5, Inserted
<1>7. /\ Held = entries /\ Held' = entries'
      /\ KeyedOnce(Held) /\ KeyedOnce(Held')
  <2>1. Held = entries /\ Held' = entries'
    BY <1>1 DEF Held
  <2> QED
    BY HeldOnce, KeysOnce, <1>4, <1>6, <2>1 DEF Adds, KeyedOnce
<1>8. /\ Occupied(Held') = Occupied(Held) \cup {x} /\ x \in Occupied(Held')
      /\ Held'[x] = ent /\ \A y \in Occupied(Held) : Held'[y] = Held[y]
  BY <1>4, <1>6, <1>7 DEF Adds
<1>9. Contents' = [Contents EXCEPT ![ent.key] = ent.value]
  <2>1. \A y \in Occupied(Held) :
          Held[y].key # ent.key => \E z \in Occupied(Held') : Held'[z] = Held[y]
    BY <1>8
  <2>2. \A y \in Occupied(Held') : y # x => \E z \in Occupied(Held) : Held[z] = Held'[y]
    BY <1>8
  <2> QED
    BY <1>7, <1>8, <2>1, <2>2, ContentsWritten
<1> QED
  BY <1>2, <1>3, <1>5, <1>9 DEF AbstractStep, Map!Next, Map!Write, Writes

LEMMA StoreMaps ==
  ASSUME IInv, NEW v \in Value, Store(v)
  PROVE  AbstractStep
<1> DEFINE x == element.slot
           ent == [entries[x] EXCEPT !.value = v]
<1>1. /\ Idle /\ Idle' /\ answer' = answer
  BY DEF Store, Idle
<1>2. /\ x \in Occupied(entries) /\ Changes(entries', entries, x, ent, allocatedEntries)
      /\ allocatedEntries \in Nat \ {0}
  BY StoreChanges
<1>3. entries \in EntryTable(allocatedEntries)
  BY DEF IInv, TypeOK, EntryTable
<1>4. entries[x] \in Entry /\ entries[x].value \in Value /\ entries[x].key \in Key
  BY <1>2, <1>3, OccupiedType
<1>5. ent.key = entries[x].key /\ ent.value = v
  BY <1>4 DEF Entry
<1>6. Held = entries /\ Held' = entries' /\ KeyedOnce(Held) /\ KeyedOnce(Held')
  <2>1. Held = entries /\ Held' = entries'
    BY <1>1 DEF Held
  <2> QED
    BY HeldOnce, KeysOnce, <1>2, <2>1 DEF Changes, KeyedOnce
<1>7. Contents[ent.key] # NoValue
  <2>1. Lookup(entries, entries[x].key) = entries[x].value
    BY <1>2, <1>6, LookupPresent
  <2>2. Contents[entries[x].key] = entries[x].value
    BY <1>1, <1>4, <2>1 DEF Contents
  <2> QED
    BY <1>4, <1>5, <2>2, MapAssumption
<1> HIDE DEF x, ent
<1>8. /\ Occupied(Held') = Occupied(Held) /\ x \in Occupied(Held') /\ Held'[x] = ent
      /\ \A y \in Occupied(Held) : y # x => Held'[y] = Held[y]
      /\ Held[x].key = ent.key
  BY <1>2, <1>5, <1>6 DEF Changes
<1>9. Contents' = [Contents EXCEPT ![ent.key] = ent.value]
  <2>1. \A y \in Occupied(Held) :
          Held[y].key # ent.key => \E z \in Occupied(Held') : Held'[z] = Held[y]
    BY <1>8
  <2>2. \A y \in Occupied(Held') : y # x => \E z \in Occupied(Held) : Held[z] = Held'[y]
    BY <1>8
  <2> QED
    BY <1>6, <1>8, <2>1, <2>2, ContentsWritten
<1> QED
  BY <1>1, <1>4, <1>5, <1>7, <1>9 DEF AbstractStep, Map!Next, Map!Store

LEMMA RehashMaps ==
  ASSUME IInv,
         RehashMove \/ \E op \in Writes, k \in Key, v \in Value : Rehash(op, k, v)
  PROVE  AbstractStep
<1>1. Held' = Held /\ answer' = answer
  <2>1. CASE RehashMove
    BY <2>1 DEF RehashMove, Held, Idle
  <2>2. ASSUME NEW op \in Writes, NEW k \in Key, NEW v \in Value, Rehash(op, k, v)
        PROVE  Held' = Held /\ answer' = answer
    <3>1. call' # NoCall
      BY <2>2 DEF Rehash, Writes, NoCall
    <3> QED
      BY <2>2, <3>1 DEF Rehash, Held, Idle
  <2> QED
    BY <2>1, <2>2
<1>2. Contents' = Contents
  BY <1>1, HeldOnce, ContentsKept
<1> QED
  BY <1>1, <1>2 DEF AbstractStep

LEMMA RehashEndsMaps ==
  ASSUME IInv, RehashEnds
  PROVE  AbstractStep
<1> DEFINE f == findEntry(entries, Size, call.key)
           ent == [key |-> call.key, value |-> call.value]
<1>1. /\ ~Idle /\ Idle' /\ e = 0 /\ answer' = Returns(call.op, NoValue)
      /\ entries' = [entries EXCEPT ![f] = ent]
  BY DEF RehashEnds, Idle
<1>2. PICK n \in Nat \ {0} :
        /\ FromTable(n) /\ Size = 2 * n /\ Table = entries
        /\ entries \in EntryTable(2 * n) /\ Probed(entries, 2 * n)
        /\ entriesCount = Cardinality(Occupied(entries)) /\ entriesCount \in Nat
        /\ e = Cardinality(ToMove) /\ e \in Nat /\ i \in Nat
        /\ Threshold(n) \in Nat /\ Threshold(n) < n /\ entriesCount < 2 * n
        /\ Threshold(n) + 1 <= Threshold(2 * n) /\ 2 * n >= Part
        /\ element = NoElement
  BY <1>1, InRehash
<1>3. /\ oldE \in EntryTable(n) /\ call.key \notin KeysOf(oldE)
      /\ \A x \in Occupied(entries) : \E y \in Occupied(oldE) : oldE[y] = entries[x]
      /\ \A y \in Occupied(oldE) :
           y < i => \E x \in Occupied(entries) : entries[x] = oldE[y]
  BY <1>2 DEF FromTable
<1>4. call.key \in Key /\ call.value \in Value /\ call.op \in Writes
  BY <1>1 DEF IInv, TypeOK, Calls, Idle
<1>5. ToMove = {}
  <2>1. IsFiniteSet(ToMove)
    BY <1>3, OccupiedType, FS_Subset DEF ToMove
  <2> QED
    BY <1>1, <1>2, <2>1, FS_EmptySet
<1>6. \A y \in Occupied(oldE) : y < i
  <2>1. \A y \in Occupied(oldE) : y \in Nat
    BY <1>3, OccupiedType DEF Slots
  <2> QED
    BY <1>2, <1>5, <2>1 DEF ToMove
<1>7. call.key \notin KeysOf(entries)
  BY <1>3 DEF KeysOf
<1>8. /\ ent \in Entry /\ ent.key = call.key /\ ent.value = call.value
      /\ f = findEntry(entries, 2 * n, ent.key)
  BY <1>2, <1>4 DEF Entry
<1>9. entries[f] = Vacant /\ 2 * n \in Nat \ {0} /\ Cardinality(Occupied(entries)) < 2 * n
  BY <1>2, <1>4, <1>7, AbsentIsVacant
<1> HIDE DEF f, ent
<1>10. Adds(entries', entries, f, ent, 2 * n)
  BY <1>1, <1>2, <1>8, <1>9, Inserted
<1>11. Held = oldE /\ Held' = entries' /\ KeyedOnce(Held) /\ KeyedOnce(Held')
  <2>1. Held = oldE /\ Held' = entries'
    BY <1>1 DEF Held
  <2>2. KeyedOnce(entries')
    BY <1>8, <1>9, <1>10, KeysOnce DEF Adds, KeyedOnce
  <2> QED
    BY HeldOnce, <2>1, <2>2
<1>12. /\ Occupied(Held') = Occupied(entries) \cup {f} /\ f \in Occupied(Held')
       /\ Held'[f] = ent /\ \A x \in Occupied(entries) : Held'[x] = entries[x]
  BY <1>10, <1>11 DEF Adds
<1>13. Contents' = [Contents EXCEPT ![ent.key] = ent.value]
  <2>1. \A y \in Occupied(Held) :
          Held[y].key # ent.key => \E z \in Occupied(Held') : Held'[z] = Held[y]
    BY <1>3, <1>6, <1>11, <1>12
  <2>2. \A y \in Occupied(Held') : y # f => \E z \in Occupied(Held) : Held[z] = Held'[y]
    BY <1>3, <1>11, <1>12
  <2> QED
    BY <1>11, <1>12, <2>1, <2>2, ContentsWritten
<1>14. Contents[call.key] = NoValue
  BY <1>1, <1>3, <1>4, LookupAbsent DEF Contents
<1>15. answer' = Map!Answer(call.op, Contents[call.key])
  BY <1>1, <1>4, <1>14 DEF Returns, Map!Answer, Writes
<1>16. Map!Write(call.op, call.key, call.value)
  BY <1>8, <1>13, <1>14, <1>15 DEF Map!Write
<1> QED
  BY <1>4, <1>16 DEF AbstractStep, Map!Next, Writes

LEMMA IteratorMaps ==
  ASSUME IInv, Begin \/ IteratorNext \/ UNCHANGED vars
  PROVE  AbstractStep
<1>1. Held' = Held /\ answer' = answer
  BY DEF Begin, IteratorNext, vars, table, rehash, Held, Idle
<1>2. Contents' = Contents
  BY <1>1, HeldOnce, ContentsKept
<1> QED
  BY <1>1, <1>2 DEF AbstractStep

(* The hash table is a map: for any hash function, every operation answers *)
(* and stores what the abstract map does in one step, and a rehash is      *)
(* nothing that a caller sees.                                             *)
THEOREM MapImplemented == Spec => MapSpec
<1>1. Init => Map!Init
  <2> SUFFICES ASSUME Init PROVE Map!Init
    OBVIOUS
  <2>1. entries = NoTable /\ Idle /\ answer = NoValue
    BY DEF Init, Idle
  <2>2. KeysOf(NoTable) = {}
    BY DEF KeysOf, Occupied, NoTable
  <2>3. Contents = [k \in Key |-> NoValue]
    BY <2>1, <2>2, LookupAbsent DEF Contents
  <2> QED
    BY <2>1, <2>3 DEF Map!Init
<1>2. IInv /\ [Next]_vars => AbstractStep
  <2> SUFFICES ASSUME IInv, [Next]_vars PROVE AbstractStep
    OBVIOUS
  <2>1. ASSUME NEW k \in Key, Get(k) \/ ElementAddress(k) PROVE AbstractStep
    BY <2>1, GetMaps
  <2>2. ASSUME NEW k \in Key, NEW op \in Writes, NEW v \in Value,
               WritePresent(op, k, v) \/ WriteAbsent(op, k, v) \/ Rehash(op, k, v)
        PROVE  AbstractStep
    BY <2>2, WritePresentMaps, WriteAbsentMaps, RehashMaps
  <2>3. ASSUME NEW v \in Value, Store(v) PROVE AbstractStep
    BY <2>3, StoreMaps
  <2>4. CASE RehashMove
    BY <2>4, RehashMaps
  <2>5. CASE RehashEnds
    BY <2>5, RehashEndsMaps
  <2>6. CASE Begin \/ IteratorNext \/ UNCHANGED vars
    BY <2>6, IteratorMaps
  <2> QED
    BY <2>1, <2>2, <2>3, <2>4, <2>5, <2>6 DEF Next
<1> QED
  BY <1>1, <1>2, Invariance, PTL DEF Spec, MapSpec, Map!Spec, AbstractStep

=============================================================================
