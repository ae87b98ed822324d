------------------------------- MODULE HashMap -------------------------------
(***************************************************************************)
(* class map<K, V> of root.p: an open-addressing hash table with linear    *)
(* probing that doubles when it is 7/8 full.  Nothing is ever removed from *)
(* it: clear() and deleteAll() do nothing.                                 *)
(*                                                                         *)
(* Every operation runs in one step, except that a rehash moves one entry  *)
(* per step.  Beside the map there are one iterator, and one address that  *)
(* a caller got from elementAddress().                                     *)
(***************************************************************************)
EXTENDS Integers, FiniteSets

CONSTANTS
    Key, Value,
    NoValue,            \* V(null)
    Vacant,             \* a slot whose entry is not valid
    Hash,               \* Hash[k] = k.hash()
    InitialTableSize,   \* INITIAL_TABLE_SIZE
    RehashShift,        \* REHASH_SHIFT
    MaxTableSize        \* bound: no rehash beyond this size

Entry == [key : Key, value : Value]

ASSUME MapAssumption ==
    /\ NoValue \notin Value
    /\ Vacant \notin Entry
    /\ Hash \in [Key -> Nat]
    /\ InitialTableSize \in Nat /\ RehashShift \in Nat /\ MaxTableSize \in Nat
    /\ 2 ^ RehashShift \in Nat /\ 2 ^ RehashShift >= 2
    /\ InitialTableSize >= 2 ^ RehashShift

VARIABLES
    entries,            \* _entries, <<>> before it is allocated
    allocatedEntries,   \* _allocatedEntries
    entriesCount,       \* _entriesCount
    rehashThreshold,    \* _rehashThreshold
    call,               \* the write that waits for a rehash, or NoCall
    oldE, i, e,         \* the local variables of hadToRehash()
    answer,             \* what the last operation returned
    iterator,           \* its _index; history: whether a key was inserted since
                        \* it began, and if not the keys it was at
    element             \* a slot address and its key (history), or NoElement

table == <<entries, allocatedEntries, entriesCount, rehashThreshold>>
rehash == <<oldE, i, e>>
vars == <<table, call, rehash, answer, iterator, element>>

NoCall == [op |-> "none"]
NoElement == [slot |-> -1]
NoTable == [x \in {} |-> Vacant]

Idle == call = NoCall

-----------------------------------------------------------------------------
Slots(n) == 0 .. n - 1
EmptyTable(n) == [x \in Slots(n) |-> Vacant]

(* Defect: the table is filled to its last slot.                           *)
ThresholdOfAll(n) == n

(* setRehashThreshold() *)
Threshold(n) == (n * (2 ^ RehashShift - 1)) \div 2 ^ RehashShift

Home(k, n) == Hash[k] % n

(* How many slots the probe for a key with home h passes before slot x.    *)
Distance(h, x, n) == IF x >= h THEN x - h ELSE x + n - h

(* Defect: the probe does not compare keys, it looks for a vacant slot.    *)
StopsAtVacant(t, k, x) == t[x] = Vacant

Stops(t, k, x) == t[x] = Vacant \/ t[x].key = k

(* findEntry(): the first slot from the key's home where the probe stops.  *)
findEntry(t, n, k) ==
    CHOOSE x \in Slots(n) :
        /\ Stops(t, k, x)
        /\ \A y \in Slots(n) :
             Stops(t, k, y) => Distance(Home(k, n), x, n) <= Distance(Home(k, n), y, n)

(* The table findEntry() searches: it allocates the first one.             *)
Size == IF allocatedEntries = 0 THEN InitialTableSize ELSE allocatedEntries
Table == IF allocatedEntries = 0 THEN EmptyTable(Size) ELSE entries
Found(k) == findEntry(Table, Size, k)
ValueAt(t, x) == IF t[x] = Vacant THEN NoValue ELSE t[x].value

Allocate ==
    /\ allocatedEntries' = Size
    /\ rehashThreshold' = IF allocatedEntries = 0 THEN Threshold(Size) ELSE rehashThreshold

(* What a write returns when the key's value was old.                      *)
Returns(op, old) ==
    CASE op = "insert" -> IF old = NoValue THEN "inserted" ELSE "refused"
      [] op = "replace" -> old
      [] op = "set" -> NoValue

Disturbed == [iterator EXCEPT !.disturbed = TRUE, !.seen = {}]

-----------------------------------------------------------------------------
Get(k) ==
    /\ Idle
    /\ Allocate /\ entries' = Table
    /\ answer' = ValueAt(Table, Found(k))
    /\ UNCHANGED <<entriesCount, call, rehash, iterator, element>>

(* insert(), replace() and set() of a key that is there.                   *)
WritePresent(op, k, v) ==
    LET x == Found(k) IN
    /\ Idle /\ Table[x] # Vacant
    /\ Allocate
    /\ entries' = IF op = "insert" THEN Table
                  ELSE [Table EXCEPT ![x] = [key |-> k, value |-> v]]
    /\ answer' = Returns(op, Table[x].value)
    /\ UNCHANGED <<entriesCount, call, rehash, iterator, element>>

(* Defect: replace() does not count the entry it adds.                     *)
WriteUncounted(op, k, v) ==
    LET x == Found(k) IN
    /\ Idle /\ Table[x] = Vacant
    /\ Allocate /\ entriesCount < rehashThreshold'
    /\ entries' = [Table EXCEPT ![x] = [key |-> k, value |-> v]]
    /\ entriesCount' = IF op = "replace" THEN entriesCount ELSE entriesCount + 1
    /\ answer' = Returns(op, NoValue)
    /\ iterator' = Disturbed
    /\ UNCHANGED <<call, rehash, element>>

(* ... of a key that is not, when the table has room.                      *)
WriteAbsent(op, k, v) ==
    LET x == Found(k) IN
    /\ Idle /\ Table[x] = Vacant
    /\ Allocate /\ entriesCount < rehashThreshold'
    /\ entries' = [Table EXCEPT ![x] = [key |-> k, value |-> v]]
    /\ entriesCount' = entriesCount + 1
    /\ answer' = Returns(op, NoValue)
    /\ iterator' = Disturbed
    /\ UNCHANGED <<call, rehash, element>>

(* Defect: the address of an entry survives the table it is in.            *)
RehashKeepsElement(op, k, v) ==
    /\ Idle /\ Table[Found(k)] = Vacant
    /\ entriesCount >= rehashThreshold /\ allocatedEntries > 0
    /\ 2 * allocatedEntries <= MaxTableSize
    /\ call' = [op |-> op, key |-> k, value |-> v]
    /\ oldE' = entries /\ i' = 0 /\ e' = entriesCount
    /\ allocatedEntries' = 2 * allocatedEntries
    /\ entries' = EmptyTable(2 * allocatedEntries)
    /\ entriesCount' = 0
    /\ iterator' = Disturbed
    /\ UNCHANGED <<rehashThreshold, answer, element>>

(* Defect: the new table is allocated before its size is doubled.          *)
RehashAllocatesOldSize(op, k, v) ==
    /\ Idle /\ Table[Found(k)] = Vacant
    /\ entriesCount >= rehashThreshold /\ allocatedEntries > 0
    /\ 2 * allocatedEntries <= MaxTableSize
    /\ call' = [op |-> op, key |-> k, value |-> v]
    /\ oldE' = entries /\ i' = 0 /\ e' = entriesCount
    /\ allocatedEntries' = 2 * allocatedEntries
    /\ entries' = EmptyTable(allocatedEntries)
    /\ entriesCount' = 0
    /\ iterator' = Disturbed
    /\ element' = NoElement
    /\ UNCHANGED <<rehashThreshold, answer>>

(* hadToRehash(): the table is full enough, so allocate another one.       *)
Rehash(op, k, v) ==
    /\ Idle /\ Table[Found(k)] = Vacant
    /\ entriesCount >= rehashThreshold /\ allocatedEntries > 0
    /\ 2 * allocatedEntries <= MaxTableSize
    /\ call' = [op |-> op, key |-> k, value |-> v]
    /\ oldE' = entries /\ i' = 0 /\ e' = entriesCount
    /\ allocatedEntries' = 2 * allocatedEntries
    /\ entries' = EmptyTable(2 * allocatedEntries)
    /\ entriesCount' = 0
    /\ iterator' = Disturbed
    /\ element' = NoElement
    /\ UNCHANGED <<rehashThreshold, answer>>

(* One turn of the loop, whose insert() runs under the old threshold.      *)
RehashMove ==
    /\ ~Idle /\ e > 0
    /\ i' = i + 1
    /\ IF oldE[i] = Vacant
       THEN UNCHANGED <<entries, entriesCount, e>>
       ELSE /\ entriesCount < rehashThreshold
            /\ entries' = [entries EXCEPT ![findEntry(entries, Size, oldE[i].key)] = oldE[i]]
            /\ entriesCount' = entriesCount + 1
            /\ e' = e - 1
    /\ UNCHANGED <<allocatedEntries, rehashThreshold, call, oldE, answer, iterator, element>>

(* Defect: the slot found before the rehash is written.                    *)
RehashEndsAtOldSlot ==
    /\ ~Idle /\ e = 0
    /\ rehashThreshold' = Threshold(allocatedEntries)
    /\ entries' = [entries EXCEPT ![findEntry(oldE, Cardinality(DOMAIN oldE), call.key)] =
                     [key |-> call.key, value |-> call.value]]
    /\ entriesCount' = entriesCount + 1
    /\ answer' = Returns(call.op, NoValue)
    /\ call' = NoCall
    /\ oldE' = NoTable /\ i' = 0
    /\ UNCHANGED <<allocatedEntries, e, iterator, element>>

(* The loop ends, and the write that caused the rehash is done.            *)
RehashEnds ==
    /\ ~Idle /\ e = 0
    /\ rehashThreshold' = Threshold(allocatedEntries)
    /\ entries' = [entries EXCEPT ![findEntry(entries, Size, call.key)] =
                     [key |-> call.key, value |-> call.value]]
    /\ entriesCount' = entriesCount + 1
    /\ answer' = Returns(call.op, NoValue)
    /\ call' = NoCall
    /\ oldE' = NoTable /\ i' = 0
    /\ UNCHANGED <<allocatedEntries, e, iterator, element>>

-----------------------------------------------------------------------------
(* elementAddress(): the address of the value of a key that is there.      *)
ElementAddress(k) ==
    /\ Idle
    /\ Allocate /\ entries' = Table
    /\ element' = IF Table[Found(k)] = Vacant THEN NoElement
                  ELSE [slot |-> Found(k), key |-> k]
    /\ UNCHANGED <<entriesCount, call, rehash, answer, iterator>>

Store(v) ==
    /\ Idle /\ element # NoElement
    /\ entries' = [entries EXCEPT ![element.slot].value = v]
    /\ UNCHANGED <<allocatedEntries, entriesCount, rehashThreshold, call, rehash,
                   answer, iterator, element>>

(* The first valid slot from x on, or the size of the table.               *)
NextValid(x) ==
    LET valid == {y \in Slots(allocatedEntries) : y >= x /\ entries[y] # Vacant}
    IN  IF valid = {} THEN allocatedEntries
        ELSE CHOOSE y \in valid : \A z \in valid : y <= z

hasNext == iterator.index < allocatedEntries

Seen(x) == IF x < allocatedEntries THEN {entries[x].key} ELSE {}

Begin ==
    /\ Idle
    /\ LET x == IF entriesCount = 0 THEN allocatedEntries ELSE NextValid(0)
       IN  iterator' = [index |-> x, seen |-> Seen(x), disturbed |-> FALSE]
    /\ UNCHANGED <<table, call, rehash, answer, element>>

(* Defect: next() does not look at its own slot's successor first.         *)
IteratorSkips ==
    /\ Idle /\ hasNext
    /\ LET x == NextValid(iterator.index + 2)
       IN  iterator' = [iterator EXCEPT !.index = x,
                                   !.seen = IF iterator.disturbed THEN {} ELSE @ \cup Seen(x)]
    /\ UNCHANGED <<table, call, rehash, answer, element>>

IteratorNext ==
    /\ Idle /\ hasNext
    /\ LET x == NextValid(iterator.index + 1)
       IN  iterator' = [iterator EXCEPT !.index = x,
                                   !.seen = IF iterator.disturbed THEN {} ELSE @ \cup Seen(x)]
    /\ UNCHANGED <<table, call, rehash, answer, element>>

-----------------------------------------------------------------------------
Init ==
    /\ entries = NoTable /\ allocatedEntries = 0
    /\ entriesCount = 0 /\ rehashThreshold = 0
    /\ call = NoCall
    /\ oldE = NoTable /\ i = 0 /\ e = 0
    /\ answer = NoValue
    /\ iterator = [index |-> 0, seen |-> {}, disturbed |-> FALSE]
    /\ element = NoElement

Writes == {"insert", "replace", "set"}

Next ==
    \/ \E k \in Key :
         \/ Get(k) \/ ElementAddress(k)
         \/ \E op \in Writes, v \in Value :
              WritePresent(op, k, v) \/ WriteAbsent(op, k, v) \/ Rehash(op, k, v)
    \/ \E v \in Value : Store(v)
    \/ RehashMove \/ RehashEnds
    \/ Begin \/ IteratorNext

Spec == Init /\ [][Next]_vars

=============================================================================
