----------------------------- MODULE HashMapProps -----------------------------
(***************************************************************************)
(* What the hash table relies on, and that it implements the abstract map. *)
(***************************************************************************)
EXTENDS HashMap

Tables == UNION {[Slots(n) -> Entry \cup {Vacant}] : n \in 0 .. MaxTableSize}

Answers == Value \cup {NoValue, "inserted", "refused"}

Calls == [op : Writes, key : Key, value : Value] \cup {NoCall}

(* Types of the fields of the map, of the local variables of a rehash, of  *)
(* an iterator and of an element's address.                                *)
TypeOK ==
    /\ allocatedEntries \in Nat
    /\ entries \in [Slots(allocatedEntries) -> Entry \cup {Vacant}]
    /\ entriesCount \in Nat /\ rehashThreshold \in Nat
    /\ call \in Calls
    /\ \E n \in 0 .. allocatedEntries : oldE \in [Slots(n) -> Entry \cup {Vacant}]
    /\ i \in Nat /\ e \in Nat
    /\ answer \in Answers
    /\ iterator \in [index : Nat, seen : SUBSET Key, disturbed : BOOLEAN]
    /\ element \in [slot : Slots(allocatedEntries), key : Key] \cup {NoElement}

-----------------------------------------------------------------------------
Occupied(t) == {x \in DOMAIN t : t[x] # Vacant}
KeysOf(t) == {t[x].key : x \in Occupied(t)}

(* The entries of the old table that a rehash has not moved yet.           *)
ToMove == {x \in Occupied(oldE) : x >= i}

(* Every entry is where the probe for its key finds it: a key is in one    *)
(* entry only, and no slot that the probe passes before it is vacant       *)
(* (findEntry).  During a rehash this holds of the half-filled table, too. *)
ProbeFinds ==
    \A x \in Occupied(entries) :
        LET h == Home(entries[x].key, allocatedEntries) IN
        \A y \in Slots(allocatedEntries) :
            Distance(h, y, allocatedEntries) < Distance(h, x, allocatedEntries) =>
                entries[y] # Vacant /\ entries[y].key # entries[x].key

(* _entriesCount is the number of entries, and during a rehash e is the    *)
(* number of those still to move, none of which is in the new table yet.   *)
CountExact ==
    /\ entriesCount = Cardinality(Occupied(entries))
    /\ e = Cardinality(ToMove)
    /\ \A x \in ToMove : oldE[x].key \notin KeysOf(entries)
    /\ ~Idle => KeysOf(oldE) = KeysOf(entries) \cup {oldE[x].key : x \in ToMove}

(* A probe always ends, because a slot is always vacant; and the insert()  *)
(* that a rehash calls never starts a rehash within the rehash, although   *)
(* _rehashThreshold is still the old one (hadToRehash).                    *)
RoomLeft ==
    /\ allocatedEntries > 0 => Cardinality(Occupied(entries)) < allocatedEntries
    /\ Idle => entriesCount <= rehashThreshold
    /\ ~Idle /\ e > 0 => entriesCount < rehashThreshold

(* An iterator that has come to its end was at every key of the map, if no *)
(* key was inserted since it began.                                        *)
IteratesAll ==
    Idle /\ ~iterator.disturbed /\ ~hasNext => iterator.seen = KeysOf(entries)

(* The address of an element is that of its key's entry, as long as the    *)
(* table it points into is not freed by a rehash.                          *)
ElementStays ==
    element # NoElement =>
        /\ entries[element.slot] # Vacant
        /\ entries[element.slot].key = element.key

-----------------------------------------------------------------------------
Lookup(t, k) ==
    IF k \in KeysOf(t) THEN t[CHOOSE x \in Occupied(t) : t[x].key = k].value ELSE NoValue

Contents == [k \in Key |-> Lookup(IF Idle THEN entries ELSE oldE, k)]

Map == INSTANCE AbstractMap WITH contents <- Contents

(* The table implements the abstract map: every operation answers and      *)
(* stores what it promises, and a rehash changes nothing a caller sees.    *)
MapSpec == Map!Spec

=============================================================================
