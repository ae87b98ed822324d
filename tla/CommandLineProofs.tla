------------------------- MODULE CommandLineProofs -------------------------
(***************************************************************************)
(* Proofs about the dictionaries of the command line, the parser over them *)
(* and the sorted list of its help, for any options, hash function, order  *)
(* of names and table sizes.                                               *)
(***************************************************************************)
EXTENDS CommandLineProps, FiniteSetTheorems, SequenceTheorems, WellFoundedInduction, TLAPS

Part == 2 ^ RehashShift

Slots(d) == 0 .. d.allocated - 1

EntryOf(K) == [key : K, value : Nat, valid : {TRUE}] \cup {Vacant}

TableOf(d, K) ==
  /\ d = [entries |-> d.entries, allocated |-> d.allocated, count |-> d.count,
          threshold |-> d.threshold]
  /\ d.allocated \in Nat \ {0} /\ d.count \in Nat /\ d.threshold \in Nat
  /\ d.entries \in [Slots(d) -> EntryOf(K)]
  /\ \A k \in K : HashValue(k) \in Nat

(* The probe for k goes on behind the first n slots it looks at.           *)
Passes(d, k, n) ==
  \A m \in 0 .. n - 1 : LET e == d.entries[Probe(d, k, m)] IN e.valid /\ e.key # k

(* A probe that ends where it should: every key is where its probe stops.  *)
Reaches(d) ==
  \A x \in Slots(d) :
    d.entries[x].valid => \E n \in Slots(d) : /\ x = Probe(d, d.entries[x].key, n)
                                              /\ Passes(d, d.entries[x].key, n)

ValidSlots(d) == {x \in Slots(d) : d.entries[x].valid}
KeysOf(d) == {d.entries[x].key : x \in ValidSlots(d)}

Sound(d, K) ==
  /\ TableOf(d, K) /\ Reaches(d)
  /\ IsFiniteSet(KeysOf(d)) /\ d.count = Cardinality(KeysOf(d))

(* ... and there is room for the key to come.                              *)
Roomy(d, K) ==
  /\ Sound(d, K) /\ d.count < d.allocated
  /\ d.threshold + 2 <= d.allocated /\ d.allocated > Part

-----------------------------------------------------------------------------
(* The least element, of the chain of intervals from 0 the smallest one.   *)
LEMMA Least ==
  ASSUME NEW T, T \subseteq Nat, T # {}
  PROVE  \E m \in T : \A x \in T : m <= x
<1> DEFINE Chain == {0 .. m : m \in T}
<1>1. Chain \subseteq FiniteSubsetsOf(Nat) /\ Chain # {}
  <2>1. \A m \in T : m \in Int /\ 0 .. m \in SUBSET Nat
    OBVIOUS
  <2>2. \A m \in T : IsFiniteSet(0 .. m)
    <3> TAKE m \in T
    <3> HIDE DEF Chain
    <3> QED
      BY <2>1, FS_Interval, 0 \in Int
  <2> QED
    BY <2>1, <2>2 DEF FiniteSubsetsOf
<1>2. \E c \in Chain : \A d \in Chain : <<d, c>> \notin StrictSubsetOrdering(Nat)
  <2> HIDE DEF Chain
  <2> QED
    BY <1>1, FS_StrictSubsetOrderingWellFounded, WFMin
<1>3. PICK m \in T : \A x \in T : <<0 .. x, 0 .. m>> \notin StrictSubsetOrdering(Nat)
  BY <1>2
<1>4. ASSUME NEW x \in T, x < m
      PROVE  <<0 .. x, 0 .. m>> \in StrictSubsetOrdering(Nat)
  <2>1. m \in Nat /\ x \in Nat
    OBVIOUS
  <2>2. 0 .. x \in SUBSET Nat /\ 0 .. m \in SUBSET Nat /\ 0 .. x \subseteq 0 .. m
    BY <2>1, <1>4
  <2>3. m \in 0 .. m /\ m \notin 0 .. x
    BY <2>1, <1>4
  <2> QED
    BY <2>2, <2>3 DEF StrictSubsetOrdering
<1>5. \A x \in T : ~ (x < m)
  BY <1>3, <1>4
<1>6. \A x \in T : x \in Nat /\ m \in Nat
  OBVIOUS
<1> HIDE DEF Chain
<1> QED
  BY <1>5, <1>6

(* The threshold leaves two slots free.                                    *)
LEMMA ThresholdFits ==
  ASSUME NEW n \in Nat, n > Part
  PROVE  Threshold(n) \in Nat /\ Threshold(n) + 2 <= n
<1> DEFINE P == Part
<1>1. P \in Nat \ {0}
  BY DictionaryAssumption DEF Part
<1>2. Threshold(n) = (n * (P - 1)) \div P
  BY DEF Threshold, Part
<1> HIDE DEF P
<1>3. n > P
  BY DEF P
<1>4. (n * (P - 1)) \div P \in Nat /\ (n * (P - 1)) \div P + 2 <= n
  BY <1>1, <1>3
<1> QED
  BY <1>2, <1>4

-----------------------------------------------------------------------------
(* The probe comes past every slot.                                        *)
LEMMA Remainder ==
  ASSUME NEW a \in Nat \ {0}, NEW q \in Nat, NEW x \in 0 .. a - 1
  PROVE  (a * q + x) % a = x
OBVIOUS

LEMMA ProbesAll ==
  ASSUME NEW h \in Nat, NEW a \in Nat \ {0}
  PROVE  /\ \A n \in 0 .. a - 1 : (h + n) % a \in 0 .. a - 1
         /\ \A x \in 0 .. a - 1 : \E n \in 0 .. a - 1 : x = (h + n) % a
<1>1. \A n \in 0 .. a - 1 : (h + n) % a \in 0 .. a - 1
  OBVIOUS
<1>2. ASSUME NEW x \in 0 .. a - 1 PROVE \E n \in 0 .. a - 1 : x = (h + n) % a
  <2> DEFINE q == h \div a
             r == h % a
  <2>1. q \in Nat /\ r \in 0 .. a - 1 /\ h = a * q + r
    OBVIOUS
  <2> HIDE DEF q, r
  <2>2. CASE x >= r
    <3>1. x - r \in 0 .. a - 1 /\ h + (x - r) = a * q + x
      BY <2>1, <2>2
    <3> QED
      BY <2>1, <3>1, Remainder
  <2>3. CASE x < r
    <3>1. x + a - r \in 0 .. a - 1 /\ h + (x + a - r) = a * (q + 1) + x /\ q + 1 \in Nat
      BY <2>1, <2>3
    <3> QED
      BY <3>1, Remainder
  <2> QED
    BY <2>1, <2>2, <2>3
<1> QED
  BY <1>1, <1>2

LEMMA ProbeSlots ==
  ASSUME NEW d, NEW K, TableOf(d, K), NEW k \in K
  PROVE  /\ \A n \in Slots(d) : Probe(d, k, n) \in Slots(d)
         /\ \A x \in Slots(d) : \E n \in Slots(d) : x = Probe(d, k, n)
<1>1. HashValue(k) \in Nat /\ d.allocated \in Nat \ {0}
  BY DEF TableOf
<1> QED
  BY <1>1, ProbesAll DEF Probe, Slots

LEMMA EntryFields ==
  ASSUME NEW d, NEW K, TableOf(d, K), NEW x \in Slots(d)
  PROVE  /\ d.entries[x].valid \in BOOLEAN
         /\ d.entries[x].valid => /\ d.entries[x].key \in K /\ d.entries[x].value \in Nat
         /\ ~ d.entries[x].valid => d.entries[x] = Vacant /\ d.entries[x].value = 0
<1> DEFINE e == d.entries[x]
<1>1. e \in EntryOf(K)
  BY DEF TableOf
<1> HIDE DEF e
<1>2. CASE e \in [key : K, value : Nat, valid : {TRUE}]
  <2>1. e.valid \in {TRUE} /\ e.key \in K /\ e.value \in Nat
    BY <1>2
  <2> QED
    BY <2>1 DEF e
<1>3. CASE e = Vacant
  <2>1. e.valid = FALSE /\ e.value = 0
    BY <1>3 DEF Vacant
  <2> QED
    BY <1>3, <2>1 DEF e
<1> QED
  BY <1>1, <1>2, <1>3 DEF EntryOf

(* No key is in two slots.                                                 *)
LEMMA KeyOnce ==
  ASSUME NEW d, NEW K, TableOf(d, K), Reaches(d),
         NEW x \in ValidSlots(d), NEW y \in ValidSlots(d), d.entries[x].key = d.entries[y].key
  PROVE  x = y
<1> DEFINE k == d.entries[x].key
<1>1. PICK n \in Slots(d) : x = Probe(d, k, n) /\ Passes(d, k, n)
  BY DEF Reaches, ValidSlots
<1>2. PICK m \in Slots(d) : y = Probe(d, k, m) /\ Passes(d, k, m)
  BY DEF Reaches, ValidSlots
<1>3. n \in Int /\ m \in Int /\ n >= 0 /\ m >= 0
  BY DEF Slots, TableOf
<1>4. d.entries[x].key = k /\ d.entries[y].key = k
  OBVIOUS
<1> HIDE DEF k
<1>5. d.entries[Probe(d, k, n)].key = k /\ d.entries[Probe(d, k, m)].key = k
  BY <1>1, <1>2, <1>4
<1>6. ~ (n < m) /\ ~ (m < n)
  <2>1. n < m => n \in 0 .. m - 1
    BY <1>3
  <2>2. m < n => m \in 0 .. n - 1
    BY <1>3
  <2> QED
    BY <1>1, <1>2, <1>5, <2>1, <2>2 DEF Passes
<1> QED
  BY <1>1, <1>2, <1>3, <1>6

(* A table that has fewer keys than slots has a free one.                  *)
LEMMA FreeSlot ==
  ASSUME NEW d, NEW K, Sound(d, K), d.count < d.allocated
  PROVE  \E x \in Slots(d) : ~ d.entries[x].valid
<1>1. SUFFICES ASSUME \A x \in Slots(d) : d.entries[x].valid PROVE FALSE
  OBVIOUS
<1> DEFINE f == [x \in Slots(d) |-> d.entries[x].key]
<1>2. TableOf(d, K) /\ Reaches(d) /\ ValidSlots(d) = Slots(d)
  BY <1>1 DEF Sound, ValidSlots
<1>3. f \in Injection(Slots(d), KeysOf(d))
  <2>1. \A x, y \in Slots(d) : f[x] = f[y] => x = y
    BY <1>2, KeyOnce
  <2>2. f \in [Slots(d) -> KeysOf(d)]
    BY <1>2 DEF KeysOf
  <2> QED
    BY <2>1, <2>2 DEF Injection, IsInjective
<1>4. d.allocated \in Nat /\ Cardinality(Slots(d)) = d.allocated /\ IsFiniteSet(Slots(d))
  <2>1. d.allocated \in Nat /\ d.allocated - 1 \in Int /\ 0 \in Int
    BY <1>2 DEF TableOf
  <2>2. IsFiniteSet(0 .. d.allocated - 1)
        /\ Cardinality(0 .. d.allocated - 1) = IF 0 > d.allocated - 1 THEN 0 ELSE d.allocated - 1 - 0 + 1
    BY <2>1, FS_Interval
  <2> QED
    BY <1>2, <2>1, <2>2 DEF Slots, TableOf
<1> HIDE DEF f
<1>5. Cardinality(Slots(d)) <= Cardinality(KeysOf(d))
  BY <1>3, FS_Injection DEF Sound
<1> QED
  BY <1>4, <1>5 DEF Sound, TableOf

(* A probe ends at the key or, where the key is not, at a free slot.       *)
LEMMA Found ==
  ASSUME NEW d, NEW K, Sound(d, K), d.count < d.allocated, NEW k \in K
  PROVE  /\ FindEntry(d, k) \in Slots(d)
         /\ \E n \in Slots(d) : FindEntry(d, k) = Probe(d, k, n) /\ Passes(d, k, n)
         /\ IF k \in KeysOf(d)
            THEN d.entries[FindEntry(d, k)].valid /\ d.entries[FindEntry(d, k)].key = k
            ELSE ~ d.entries[FindEntry(d, k)].valid
<1> DEFINE E(n) == d.entries[Probe(d, k, n)]
           stops == {n \in 0 .. d.allocated - 1 : E(n).valid => E(n).key = k}
<1>1. TableOf(d, K) /\ Reaches(d)
  BY DEF Sound
<1>2. FindEntry(d, k) = Probe(d, k, Min(stops))
  BY DEF FindEntry
<1>3. \E n \in Slots(d) : ~ E(n).valid
  BY <1>1, FreeSlot, ProbeSlots
<1>4. stops # {} /\ stops \subseteq Nat
  <2>1. d.allocated \in Nat
    BY <1>1 DEF TableOf
  <2> QED
    BY <1>3, <2>1 DEF Slots
<1>5. PICK n \in stops : \A m \in stops : n <= m
  <2> HIDE DEF stops
  <2> QED
    BY <1>4, Least
<1>6. Min(stops) \in stops /\ \A m \in stops : Min(stops) <= m
  <2> HIDE DEF stops
  <2> QED
    BY <1>5 DEF Min
<1> DEFINE first == Min(stops)
<1> HIDE DEF first
<1>7. /\ first \in Slots(d)
      /\ E(first).valid => E(first).key = k
      /\ \A m \in 0 .. first - 1 : E(m).valid /\ E(m).key # k
  <2>1. d.allocated \in Nat
    BY <1>1 DEF TableOf
  <2>2. first \in 0 .. d.allocated - 1 /\ (E(first).valid => E(first).key = k)
    BY <1>6 DEF first
  <2>3. ASSUME NEW m \in 0 .. first - 1 PROVE E(m).valid /\ E(m).key # k
    <3>1. m \in 0 .. d.allocated - 1 /\ ~ (first <= m)
      BY <2>1, <2>2
    <3>2. m \notin stops
      BY <1>6, <3>1 DEF first
    <3> QED
      BY <3>1, <3>2
  <2> QED
    BY <2>2, <2>3 DEF Slots
<1>8. FindEntry(d, k) = Probe(d, k, first) /\ FindEntry(d, k) \in Slots(d) /\ Passes(d, k, first)
  <2>1. FindEntry(d, k) = Probe(d, k, first)
    BY <1>2 DEF first
  <2> QED
    BY <1>1, <1>7, <2>1, ProbeSlots DEF Passes
<1> HIDE DEF stops
<1>9. CASE k \in KeysOf(d)
  <2>1. PICK x \in Slots(d) : d.entries[x].valid /\ d.entries[x].key = k
    BY <1>9 DEF KeysOf, ValidSlots
  <2>2. PICK m \in Slots(d) : x = Probe(d, k, m) /\ Passes(d, k, m)
    BY <1>1, <2>1 DEF Reaches
  <2>3. E(m).valid /\ E(m).key = k
    BY <2>1, <2>2
  <2>4. first \in Int /\ m \in Int /\ first >= 0 /\ m >= 0
    BY <1>1, <1>7 DEF Slots, TableOf
  <2>5. ~ (m < first)
    <3>1. m < first => m \in 0 .. first - 1
      BY <2>4
    <3> QED
      BY <1>7, <2>3, <3>1
  <2>6. E(first).valid
    <3>1. CASE first = m
      BY <2>3, <3>1
    <3>2. CASE first < m
      <4>1. first \in 0 .. m - 1
        BY <2>4, <3>2
      <4> QED
        BY <2>2, <4>1 DEF Passes
    <3> QED
      BY <2>4, <2>5, <3>1, <3>2
  <2> QED
    BY <1>7, <1>8, <1>9, <2>6
<1>10. CASE k \notin KeysOf(d)
  <2>1. ~ E(first).valid
    <3>1. Probe(d, k, first) \in Slots(d)
      BY <1>8
    <3> QED
      BY <1>7, <1>10, <3>1 DEF KeysOf, ValidSlots
  <2> QED
    BY <1>7, <1>8, <1>10, <2>1
<1> QED
  BY <1>9, <1>10

(* What get() and probe() tell of each key.                                *)
LEMMA Lookups ==
  ASSUME NEW d, NEW K, Sound(d, K), d.count < d.allocated, NEW k \in K
  PROVE  /\ Has(d, k) <=> k \in KeysOf(d)
         /\ k \notin KeysOf(d) => Get(d, k) = 0
         /\ Get(d, k) \in Nat
         /\ \A x \in ValidSlots(d) : d.entries[x].key = k => Get(d, k) = d.entries[x].value
<1> DEFINE f == FindEntry(d, k)
<1>1. TableOf(d, K) /\ Reaches(d)
  BY DEF Sound
<1>2. /\ f \in Slots(d)
      /\ IF k \in KeysOf(d) THEN d.entries[f].valid /\ d.entries[f].key = k
                            ELSE ~ d.entries[f].valid
  BY Found
<1>3. Has(d, k) = d.entries[f].valid /\ Get(d, k) = d.entries[f].value
  BY DEF Has, Get
<1> HIDE DEF f
<1>4. /\ d.entries[f].valid \in BOOLEAN
      /\ d.entries[f].valid => d.entries[f].value \in Nat
      /\ ~ d.entries[f].valid => d.entries[f].value = 0
  BY <1>1, <1>2, EntryFields
<1>5. ASSUME NEW x \in ValidSlots(d), d.entries[x].key = k PROVE Get(d, k) = d.entries[x].value
  <2>1. k \in KeysOf(d)
    BY <1>5 DEF KeysOf
  <2>2. f \in ValidSlots(d) /\ d.entries[f].key = d.entries[x].key
    BY <1>2, <1>5, <2>1 DEF ValidSlots
  <2> QED
    BY <1>1, <1>3, <2>2, KeyOnce
<1>6. Get(d, k) \in Nat
  BY <1>3, <1>4, 0 \in Nat
<1> QED
  BY <1>2, <1>3, <1>4, <1>5, <1>6

-----------------------------------------------------------------------------
(* An entry is written into the slot the probe found.                      *)
PlacedAt(d, x, k, v) == [d EXCEPT !.entries[x] = [key |-> k, value |-> v, valid |-> TRUE]]

LEMMA AtFields ==
  ASSUME NEW d, NEW K, TableOf(d, K), NEW x \in Slots(d), NEW k \in K, NEW v \in Nat
  PROVE  LET t == PlacedAt(d, x, k, v)
         IN  /\ TableOf(t, K) /\ Slots(t) = Slots(d)
             /\ t.count = d.count /\ t.allocated = d.allocated /\ t.threshold = d.threshold
             /\ t.entries[x].key = k /\ t.entries[x].value = v /\ t.entries[x].valid
             /\ \A y \in Slots(d) : y # x => t.entries[y] = d.entries[y]
             /\ \A j, n : Probe(t, j, n) = Probe(d, j, n)
<1> DEFINE t == PlacedAt(d, x, k, v)
           e == [key |-> k, value |-> v, valid |-> TRUE]
           g == [d.entries EXCEPT ![x] = e]
<1>1. t = [entries |-> g, allocated |-> d.allocated, count |-> d.count, threshold |-> d.threshold]
  <2>1. d = [entries |-> d.entries, allocated |-> d.allocated, count |-> d.count,
             threshold |-> d.threshold]
    BY DEF TableOf
  <2>2. t = [d EXCEPT !.entries = g]
    BY DEF PlacedAt
  <2> HIDE DEF g, t
  <2> QED
    BY <2>1, <2>2
<1>2. e \in EntryOf(K) /\ e.key = k /\ e.value = v /\ e.valid
  BY DEF EntryOf
<1> HIDE DEF e
<1>3. /\ g \in [Slots(d) -> EntryOf(K)] /\ g[x] = e
      /\ \A y \in Slots(d) : y # x => g[y] = d.entries[y]
  BY <1>2 DEF TableOf
<1> HIDE DEF g, t
<1>4. /\ t.entries = g /\ t.allocated = d.allocated /\ t.count = d.count
      /\ t.threshold = d.threshold
      /\ t = [entries |-> t.entries, allocated |-> t.allocated, count |-> t.count,
              threshold |-> t.threshold]
  BY <1>1
<1>5. Slots(t) = Slots(d) /\ \A j, n : Probe(t, j, n) = Probe(d, j, n)
  BY <1>4 DEF Slots, Probe
<1>6. TableOf(t, K)
  BY <1>3, <1>4, <1>5 DEF TableOf
<1> QED
  BY <1>2, <1>3, <1>4, <1>5, <1>6 DEF t

(* Probes that passed before still pass.                                   *)
LEMMA AtReaches ==
  ASSUME NEW d, NEW K, TableOf(d, K), Reaches(d), NEW x \in Slots(d), NEW k \in K, NEW v \in Nat,
         d.entries[x].valid => d.entries[x].key = k,
         \E n \in Slots(d) : x = Probe(d, k, n) /\ Passes(d, k, n)
  PROVE  Reaches(PlacedAt(d, x, k, v)) /\ KeysOf(PlacedAt(d, x, k, v)) = KeysOf(d) \cup {k}
<1> DEFINE t == PlacedAt(d, x, k, v)
<1>1. /\ TableOf(t, K) /\ Slots(t) = Slots(d)
      /\ t.entries[x].key = k /\ t.entries[x].valid
      /\ \A y \in Slots(d) : y # x => t.entries[y] = d.entries[y]
      /\ \A j, n : Probe(t, j, n) = Probe(d, j, n)
  BY AtFields
<1> HIDE DEF t
<1>2. ASSUME NEW j \in K, NEW n \in Slots(d), Passes(d, j, n),
             j = k \/ Probe(d, j, n) # x \/ d.entries[x].valid
      PROVE  Passes(t, j, n)
  <2> SUFFICES ASSUME NEW m \in 0 .. n - 1
               PROVE  t.entries[Probe(d, j, m)].valid /\ t.entries[Probe(d, j, m)].key # j
    BY <1>1 DEF Passes
  <2>1. d.entries[Probe(d, j, m)].valid /\ d.entries[Probe(d, j, m)].key # j
    BY <1>2 DEF Passes
  <2>2. m \in Slots(d)
    BY <1>2 DEF Slots, TableOf
  <2>3. Probe(d, j, m) \in Slots(d)
    BY <2>2, ProbeSlots
  <2>4. CASE Probe(d, j, m) # x
    BY <1>1, <2>1, <2>3, <2>4
  <2>5. CASE Probe(d, j, m) = x
    BY <1>1, <2>1, <2>5
  <2> QED
    BY <2>4, <2>5
<1>3. Reaches(t)
  <2> SUFFICES ASSUME NEW y \in Slots(d), t.entries[y].valid
               PROVE  \E n \in Slots(d) : /\ y = Probe(d, t.entries[y].key, n)
                                          /\ Passes(t, t.entries[y].key, n)
    BY <1>1 DEF Reaches
  <2>1. CASE y = x
    BY <1>1, <1>2, <2>1
  <2>2. CASE y # x
    <3>1. t.entries[y] = d.entries[y] /\ d.entries[y].valid
      BY <1>1, <2>2
    <3>2. d.entries[y].key \in K
      BY <3>1, EntryFields
    <3>3. PICK n \in Slots(d) : y = Probe(d, d.entries[y].key, n) /\ Passes(d, d.entries[y].key, n)
      BY <3>1 DEF Reaches
    <3> QED
      BY <1>2, <2>2, <3>1, <3>2, <3>3
  <2> QED
    BY <2>1, <2>2
<1>4. KeysOf(t) = KeysOf(d) \cup {k}
  <2>1. \A y \in ValidSlots(t) : t.entries[y].key \in KeysOf(d) \cup {k}
    BY <1>1 DEF ValidSlots, KeysOf
  <2>2. \A y \in ValidSlots(d) : d.entries[y].key \in KeysOf(t)
    <3> TAKE y \in ValidSlots(d)
    <3>1. y \in Slots(d) /\ d.entries[y].valid
      BY DEF ValidSlots
    <3>2. y \in ValidSlots(t) /\ t.entries[y].key = d.entries[y].key
      BY <1>1, <3>1 DEF ValidSlots
    <3> QED
      BY <3>2 DEF KeysOf
  <2>3. k \in KeysOf(t)
    BY <1>1 DEF ValidSlots, KeysOf
  <2> QED
    BY <2>1, <2>2, <2>3 DEF KeysOf
<1> QED
  BY <1>3, <1>4 DEF t

(* What is told of the other keys stays, of this one it is what was        *)
(* written.                                                                *)
LEMMA AtLookups ==
  ASSUME NEW d, NEW K, Sound(d, K), d.count < d.allocated,
         NEW x \in Slots(d), NEW k \in K, NEW v \in Nat,
         d.entries[x].valid => d.entries[x].key = k,
         NEW t, Sound(t, K), t.count < t.allocated,
         t.entries = PlacedAt(d, x, k, v).entries, t.allocated = d.allocated,
         KeysOf(t) = KeysOf(d) \cup {k}
  PROVE  \A j \in K : Get(t, j) = IF j = k THEN v ELSE Get(d, j)
<1>1. TableOf(d, K)
  BY DEF Sound
<1>2. /\ t.entries[x].key = k /\ t.entries[x].value = v /\ t.entries[x].valid
      /\ \A y \in Slots(d) : y # x => t.entries[y] = d.entries[y]
      /\ Slots(t) = Slots(d)
  BY <1>1, AtFields DEF Slots
<1> TAKE j \in K
<1>3. CASE j = k
  BY <1>2, <1>3, Lookups DEF ValidSlots
<1>4. CASE j # k /\ j \in KeysOf(d)
  <2>1. PICK y \in ValidSlots(d) : d.entries[y].key = j
    BY <1>4 DEF KeysOf
  <2>2. y \in Slots(d) /\ d.entries[y].valid
    BY DEF ValidSlots
  <2>3. y # x
    BY <1>4, <2>1, <2>2
  <2>4. y \in ValidSlots(t) /\ t.entries[y].key = j /\ t.entries[y].value = d.entries[y].value
    BY <1>2, <2>1, <2>2, <2>3 DEF ValidSlots
  <2>5. Get(t, j) = t.entries[y].value
    BY <2>4, Lookups
  <2>6. Get(d, j) = d.entries[y].value
    BY <2>1, Lookups
  <2> QED
    BY <1>4, <2>4, <2>5, <2>6
<1>5. CASE j # k /\ j \notin KeysOf(d)
  BY <1>5, Lookups
<1> QED
  BY <1>3, <1>4, <1>5

(* A key that is not there is added.                                       *)
LEMMA Placed ==
  ASSUME NEW d, NEW K, Sound(d, K), d.count + 1 < d.allocated,
         NEW k \in K, k \notin KeysOf(d), NEW v \in Nat
  PROVE  LET t == Place(d, k, v)
         IN  /\ Sound(t, K) /\ t.count = d.count + 1
             /\ t.allocated = d.allocated /\ t.threshold = d.threshold
             /\ KeysOf(t) = KeysOf(d) \cup {k}
             /\ \A j \in K : Get(t, j) = IF j = k THEN v ELSE Get(d, j)
<1> DEFINE x == FindEntry(d, k)
           a == PlacedAt(d, x, k, v)
           t == Place(d, k, v)
<1>1. TableOf(d, K) /\ Reaches(d) /\ d.count \in Nat /\ d.allocated \in Nat
  BY DEF Sound, TableOf
<1>2. d.count < d.allocated
  BY <1>1
<1>3. /\ x \in Slots(d) /\ ~ d.entries[x].valid
      /\ \E n \in Slots(d) : x = Probe(d, k, n) /\ Passes(d, k, n)
  BY <1>2, Found
<1>4. t = [a EXCEPT !.count = d.count + 1]
  <2>1. d = [entries |-> d.entries, allocated |-> d.allocated, count |-> d.count,
             threshold |-> d.threshold]
    BY <1>1 DEF TableOf
  <2> DEFINE g == [d.entries EXCEPT ![x] = [key |-> k, value |-> v, valid |-> TRUE]]
  <2>2. a = [d EXCEPT !.entries = g]
    BY DEF PlacedAt
  <2>3. t = [d EXCEPT !.entries = g, !.count = @ + 1]
    BY DEF Place
  <2> HIDE DEF g, t, a
  <2>4. t = [entries |-> g, allocated |-> d.allocated, count |-> d.count + 1,
             threshold |-> d.threshold]
    BY <2>1, <2>3
  <2>5. a = [entries |-> g, allocated |-> d.allocated, count |-> d.count,
             threshold |-> d.threshold]
    BY <2>1, <2>2
  <2> QED
    BY <2>4, <2>5
<1> HIDE DEF x
<1> HIDE DEF t
<1>5. /\ TableOf(a, K) /\ a.count = d.count /\ a.allocated = d.allocated
      /\ a.threshold = d.threshold
  <2>1. TableOf(d, K) /\ x \in Slots(d)
    BY <1>1, <1>3
  <2> QED
    BY <2>1, AtFields
<1>6. Reaches(a) /\ KeysOf(a) = KeysOf(d) \cup {k}
  BY <1>1, <1>3, AtReaches
<1> DEFINE aa == a
<1> HIDE DEF aa
<1>7. /\ t.entries = aa.entries /\ t.allocated = d.allocated /\ t.threshold = d.threshold
      /\ t.count = d.count + 1
      /\ t = [entries |-> t.entries, allocated |-> t.allocated, count |-> t.count,
              threshold |-> t.threshold]
  <2>1. aa = [entries |-> aa.entries, allocated |-> aa.allocated, count |-> aa.count,
              threshold |-> aa.threshold]
    BY <1>5 DEF TableOf, aa
  <2>2. t = [aa EXCEPT !.count = d.count + 1]
    BY <1>4 DEF aa
  <2> QED
    BY <1>5, <2>1, <2>2 DEF aa
<1>8. TableOf(t, K) /\ Reaches(t) /\ KeysOf(t) = KeysOf(d) \cup {k}
  <2>1. TableOf(aa, K) /\ Reaches(aa) /\ KeysOf(aa) = KeysOf(d) \cup {k} /\ aa.allocated = d.allocated
    BY <1>5, <1>6 DEF aa
  <2>2. Slots(t) = Slots(aa) /\ \A j, n : Probe(t, j, n) = Probe(aa, j, n)
    BY <1>7, <2>1 DEF Slots, Probe
  <2>3. \A j, n : Passes(t, j, n) <=> Passes(aa, j, n)
    BY <1>7, <2>2 DEF Passes
  <2>4. TableOf(t, K)
    <3>1. t.count \in Nat /\ t.allocated \in Nat \ {0} /\ t.threshold \in Nat
      BY <1>1, <1>7 DEF TableOf
    <3>2. t.entries \in [Slots(t) -> EntryOf(K)] /\ \A j \in K : HashValue(j) \in Nat
      BY <1>7, <2>1, <2>2 DEF TableOf
    <3> QED
      BY <1>7, <3>1, <3>2 DEF TableOf
  <2>5. Reaches(t)
    BY <1>7, <2>1, <2>2, <2>3 DEF Reaches
  <2>6. ValidSlots(t) = ValidSlots(aa)
    BY <1>7, <2>2 DEF ValidSlots
  <2> QED
    BY <1>7, <2>1, <2>4, <2>5, <2>6 DEF KeysOf
<1>9. IsFiniteSet(KeysOf(t)) /\ Cardinality(KeysOf(t)) = d.count + 1
  BY <1>8, FS_AddElement DEF Sound
<1>10. Sound(t, K)
  BY <1>7, <1>8, <1>9 DEF Sound
<1>11. t.entries = PlacedAt(d, x, k, v).entries /\ t.count < t.allocated
  BY <1>7 DEF aa
<1>12. \A j \in K : Get(t, j) = IF j = k THEN v ELSE Get(d, j)
  BY <1>2, <1>3, <1>7, <1>8, <1>10, <1>11, AtLookups
<1> QED
  BY <1>7, <1>8, <1>10, <1>12 DEF t

(* A key that is there gets another value.                                 *)
Rewritten(d, k, v) == [d EXCEPT !.entries[FindEntry(d, k)].value = v]

LEMMA Replaced ==
  ASSUME NEW d, NEW K, Sound(d, K), d.count < d.allocated,
         NEW k \in K, k \in KeysOf(d), NEW v \in Nat
  PROVE  LET t == Rewritten(d, k, v)
         IN  /\ Sound(t, K) /\ t.count = d.count
             /\ t.allocated = d.allocated /\ t.threshold = d.threshold
             /\ KeysOf(t) = KeysOf(d)
             /\ \A j \in K : Get(t, j) = IF j = k THEN v ELSE Get(d, j)
<1> DEFINE x == FindEntry(d, k)
           t == Rewritten(d, k, v)
           a == PlacedAt(d, x, k, v)
<1>1. TableOf(d, K) /\ Reaches(d)
  BY DEF Sound
<1>2. /\ x \in Slots(d) /\ d.entries[x].valid /\ d.entries[x].key = k
      /\ \E n \in Slots(d) : x = Probe(d, k, n) /\ Passes(d, k, n)
  BY Found
<1>3. t = a
  <2> DEFINE e == d.entries[x]
  <2>1. e \in [key : K, value : Nat, valid : {TRUE}]
    <3>1. e \in EntryOf(K)
      BY <1>1, <1>2 DEF TableOf
    <3>2. e # Vacant
      BY <1>2 DEF Vacant
    <3> QED
      BY <3>1, <3>2 DEF EntryOf
  <2>2. e.key = k /\ e.valid
    BY <1>2
  <2>3. [d.entries[x] EXCEPT !.value = v] = [key |-> k, value |-> v, valid |-> TRUE]
    <3> HIDE DEF e
    <3>1. e = [key |-> e.key, value |-> e.value, valid |-> e.valid] /\ e.valid \in {TRUE}
      BY <2>1
    <3> DEFINE w == e.value
               b == e.valid
    <3>2. e = [key |-> k, value |-> w, valid |-> b]
      BY <2>2, <3>1
    <3>3. b = TRUE
      BY <3>1
    <3> HIDE DEF w, b
    <3>4. [e EXCEPT !.value = v] = [key |-> k, value |-> v, valid |-> b]
      BY <3>2
    <3> QED
      BY <3>3, <3>4 DEF e
  <2>4. t = [d EXCEPT !.entries = [d.entries EXCEPT ![x] = [d.entries[x] EXCEPT !.value = v]]]
    BY DEF Rewritten
  <2>5. a = [d EXCEPT !.entries = [d.entries EXCEPT ![x] = [key |-> k, value |-> v, valid |-> TRUE]]]
    BY DEF PlacedAt
  <2> QED
    BY <2>3, <2>4, <2>5
<1> HIDE DEF x, t
<1>4. /\ TableOf(a, K) /\ a.count = d.count /\ a.allocated = d.allocated
      /\ a.threshold = d.threshold
  BY <1>1, <1>2, AtFields
<1>5. Reaches(a) /\ KeysOf(a) = KeysOf(d) \cup {k}
  BY <1>1, <1>2, AtReaches
<1>6. KeysOf(a) = KeysOf(d)
  BY <1>5
<1>7. Sound(a, K)
  BY <1>4, <1>5, <1>6 DEF Sound
<1>8. \A j \in K : Get(a, j) = IF j = k THEN v ELSE Get(d, j)
  BY <1>2, <1>4, <1>5, <1>7, AtLookups
<1> QED
  BY <1>3, <1>4, <1>6, <1>7, <1>8 DEF t

-----------------------------------------------------------------------------
(* The table of twice the size, while the entries are moved into it.       *)
Doubled(d) ==
  [d EXCEPT !.entries = [i \in 0 .. 2 * d.allocated - 1 |-> Vacant],
            !.allocated = 2 * d.allocated, !.count = 0]

Moved(t, e) == IF e.valid THEN Place(t, e.key, e.value) ELSE t

Moves(f, d, n) ==
  f = [i \in 0 .. n |-> IF i = 0 THEN Doubled(d) ELSE Moved(f[i - 1], d.entries[i - 1])]

Moving(d) == CHOOSE f : Moves(f, d, d.allocated)

LEMMA RehashIs ==
  ASSUME NEW d
  PROVE  Rehash(d) = [Moving(d)[d.allocated] EXCEPT !.threshold = Threshold(2 * d.allocated)]
BY DEF Rehash, Moving, Moves, Moved, Doubled

LEMMA MovingExists ==
  ASSUME NEW d, d.allocated \in Nat
  PROVE  Moves(Moving(d), d, d.allocated)
<1> DEFINE Never == {n \in Nat : ~ \E f : Moves(f, d, n)}
<1>1. 0 \notin Never
  <2>1. Moves([i \in 0 .. 0 |-> Doubled(d)], d, 0)
    BY DEF Moves
  <2> QED
    BY <2>1
<1>2. ASSUME NEW n \in Nat, n \notin Never PROVE n + 1 \notin Never
  <2>1. PICK f : Moves(f, d, n)
    BY <1>2
  <2> DEFINE g == [i \in 0 .. n + 1 |-> IF i <= n THEN f[i] ELSE Moved(f[n], d.entries[n])]
  <2>2. /\ \A i \in 0 .. n : g[i] = f[i]
        /\ g[n + 1] = Moved(f[n], d.entries[n])
        /\ g = [i \in 0 .. n + 1 |-> g[i]]
    OBVIOUS
  <2>3. /\ f[0] = Doubled(d)
        /\ \A i \in 1 .. n : f[i] = Moved(f[i - 1], d.entries[i - 1])
    <3>1. \A i \in 0 .. n : f[i] = IF i = 0 THEN Doubled(d) ELSE Moved(f[i - 1], d.entries[i - 1])
      BY <2>1 DEF Moves
    <3> QED
      BY <3>1
  <2> HIDE DEF g
  <2>4. ASSUME NEW i \in 0 .. n + 1
        PROVE  g[i] = IF i = 0 THEN Doubled(d) ELSE Moved(g[i - 1], d.entries[i - 1])
    <3>1. CASE i = 0
      <4>1. g[0] = f[0]
        BY <2>2, 0 \in 0 .. n
      <4> QED
        BY <2>3, <3>1, <4>1
    <3>2. CASE i \in 1 .. n
      <4>1. i \in 0 .. n /\ i - 1 \in 0 .. n /\ i # 0
        BY <3>2
      <4>2. g[i] = f[i] /\ g[i - 1] = f[i - 1]
        BY <2>2, <4>1
      <4> QED
        BY <2>3, <3>2, <4>1, <4>2
    <3>3. CASE i = n + 1
      <4>1. g[n] = f[n] /\ i - 1 = n /\ i # 0
        BY <2>2, <3>3
      <4> QED
        BY <2>2, <3>3, <4>1
    <3> QED
      BY <3>1, <3>2, <3>3
  <2>5. Moves(g, d, n + 1)
    BY <2>2, <2>4 DEF Moves
  <2> QED
    BY <2>5
<1>3. Never = {}
  <2>1. SUFFICES ASSUME Never # {} PROVE FALSE
    OBVIOUS
  <2>2. PICK n \in Never : \A k \in Never : n <= k
    <3>1. Never \in SUBSET Nat
      OBVIOUS
    <3> HIDE DEF Never
    <3> QED
      BY <2>1, <3>1, Least
  <2>3. n \in Nat /\ n # 0
    BY <1>1, <2>2
  <2>4. n - 1 \in Nat /\ n - 1 \notin Never
    BY <2>2, <2>3
  <2> HIDE DEF Never
  <2>5. n - 1 + 1 \notin Never
    BY <1>2, <2>4
  <2> QED
    BY <2>2, <2>3, <2>5
<1>4. \E f : Moves(f, d, d.allocated)
  BY <1>3
<1> QED
  BY <1>4 DEF Moving

LEMMA DoubledFields ==
  ASSUME NEW d, NEW K, TableOf(d, K)
  PROVE  /\ Sound(Doubled(d), K) /\ KeysOf(Doubled(d)) = {}
         /\ Doubled(d).allocated = 2 * d.allocated /\ Doubled(d).count = 0
         /\ Doubled(d).threshold = d.threshold
<1> DEFINE t == Doubled(d)
           s == 2 * d.allocated
           g == [i \in 0 .. s - 1 |-> Vacant]
<1>1. s \in Nat \ {0}
  BY DEF TableOf
<1> HIDE DEF s
<1>2. t = [entries |-> g, allocated |-> s, count |-> 0, threshold |-> d.threshold]
  <2>1. d = [entries |-> d.entries, allocated |-> d.allocated, count |-> d.count,
             threshold |-> d.threshold]
    BY DEF TableOf
  <2>2. t = [d EXCEPT !.entries = g, !.allocated = s, !.count = 0]
    BY DEF Doubled, s
  <2> HIDE DEF g, t
  <2> QED
    BY <2>1, <2>2
<1>3. /\ g \in [0 .. s - 1 -> EntryOf(K)]
      /\ \A i \in 0 .. s - 1 : ~ g[i].valid
  <2>1. Vacant \in EntryOf(K) /\ ~ Vacant.valid
    BY DEF EntryOf, Vacant
  <2> HIDE DEF Vacant
  <2> QED
    BY <2>1
<1> HIDE DEF g, t
<1>4. /\ t.entries = g /\ t.allocated = s /\ t.count = 0 /\ t.threshold = d.threshold
      /\ t = [entries |-> t.entries, allocated |-> t.allocated, count |-> t.count,
              threshold |-> t.threshold]
  BY <1>2
<1>5. TableOf(t, K)
  <2>1. d.threshold \in Nat /\ \A k \in K : HashValue(k) \in Nat
    BY DEF TableOf
  <2>2. t.entries \in [Slots(t) -> EntryOf(K)]
    BY <1>3, <1>4 DEF Slots
  <2> QED
    BY <1>1, <1>4, <2>1, <2>2 DEF TableOf
<1>6. ValidSlots(t) = {}
  BY <1>3, <1>4 DEF ValidSlots, Slots
<1>7. KeysOf(t) = {} /\ Reaches(t)
  BY <1>6 DEF KeysOf, Reaches, ValidSlots
<1>8. IsFiniteSet(KeysOf(t)) /\ Cardinality(KeysOf(t)) = 0
  BY <1>7, FS_EmptySet
<1> QED
  BY <1>4, <1>5, <1>7, <1>8 DEF Sound, t, s

(* After n slots of the old table the new one has what is in them.         *)
FirstKeys(d, n) == {d.entries[x].key : x \in {y \in ValidSlots(d) : y < n}}

Filled(t, d, K, n) ==
  /\ Sound(t, K) /\ t.allocated = 2 * d.allocated /\ t.threshold = d.threshold
  /\ t.count <= n /\ KeysOf(t) = FirstKeys(d, n)
  /\ \A x \in ValidSlots(d) : x < n => Get(t, d.entries[x].key) = d.entries[x].value

LEMMA MovedFills ==
  ASSUME NEW d, NEW K, Sound(d, K), d.count < d.allocated, NEW n \in Slots(d), NEW t,
         Filled(t, d, K, n)
  PROVE  Filled(Moved(t, d.entries[n]), d, K, n + 1)
<1> DEFINE e == d.entries[n]
<1>1. /\ TableOf(d, K) /\ Reaches(d) /\ d.allocated \in Nat \ {0} /\ n \in 0 .. d.allocated - 1
      /\ ValidSlots(d) \subseteq Int /\ t.count \in Nat
  BY DEF Sound, TableOf, Slots, ValidSlots, Filled
<1>2. CASE ~ e.valid
  <2>1. \A x \in ValidSlots(d) : x < n + 1 <=> x < n
    BY <1>1, <1>2 DEF ValidSlots
  <2>2. FirstKeys(d, n + 1) = FirstKeys(d, n)
    BY <2>1 DEF FirstKeys
  <2>3. Moved(t, e) = t
    BY <1>2 DEF Moved
  <2> HIDE DEF e
  <2>4. t.count <= n + 1
    BY <1>1 DEF Filled
  <2> QED
    BY <2>1, <2>2, <2>3, <2>4 DEF Filled, e
<1>3. CASE e.valid
  <2> DEFINE k == e.key
             s == Place(t, k, e.value)
  <2>1. k \in K /\ e.value \in Nat
    BY <1>1, <1>3, EntryFields
  <2>2. \A x \in ValidSlots(d) : d.entries[x].key = k => x = n
    <3>1. n \in ValidSlots(d)
      BY <1>3 DEF ValidSlots
    <3> QED
      BY <1>1, <3>1, KeyOnce
  <2>3. k \notin KeysOf(t)
    <3>1. \A x \in ValidSlots(d) : x < n => d.entries[x].key # k
      BY <1>1, <2>2
    <3>2. k \notin FirstKeys(d, n)
      BY <3>1 DEF FirstKeys
    <3> QED
      BY <3>2 DEF Filled
  <2>4. Sound(t, K) /\ t.count + 1 < t.allocated
    BY <1>1 DEF Filled
  <2>5. /\ Sound(s, K) /\ s.count = t.count + 1 /\ s.allocated = t.allocated
        /\ s.threshold = t.threshold /\ KeysOf(s) = KeysOf(t) \cup {k}
        /\ \A j \in K : Get(s, j) = IF j = k THEN e.value ELSE Get(t, j)
    BY <2>1, <2>3, <2>4, Placed
  <2>6. Moved(t, e) = s
    BY <1>3 DEF Moved
  <2>7. n \in ValidSlots(d)
    BY <1>3 DEF ValidSlots
  <2> HIDE DEF s
  <2>8. FirstKeys(d, n + 1) = FirstKeys(d, n) \cup {k}
    <3>1. \A x \in ValidSlots(d) : x < n + 1 <=> (x < n \/ x = n)
      BY <1>1
    <3> QED
      BY <1>1, <2>7, <3>1 DEF FirstKeys
  <2>9. ASSUME NEW x \in ValidSlots(d), x < n + 1
        PROVE  Get(s, d.entries[x].key) = d.entries[x].value
    <3>1. x \in Slots(d) /\ d.entries[x].valid
      BY DEF ValidSlots
    <3>2. d.entries[x].key \in K
      BY <1>1, <3>1, EntryFields
    <3>3. CASE x = n
      BY <2>1, <2>5, <3>3
    <3>4. CASE x # n
      <4>1. x < n
        BY <1>1, <2>9, <3>4
      <4>2. d.entries[x].key # k
        BY <2>2, <3>4
      <4>3. Get(t, d.entries[x].key) = d.entries[x].value
        BY <4>1 DEF Filled
      <4> QED
        BY <2>5, <3>2, <4>2, <4>3
    <3> QED
      BY <3>3, <3>4
  <2>10. s.count <= n + 1
    BY <1>1, <2>5 DEF Filled
  <2>11. KeysOf(s) = FirstKeys(d, n + 1) /\ s.allocated = 2 * d.allocated /\ s.threshold = d.threshold
    BY <2>5, <2>8 DEF Filled
  <2>12. Filled(s, d, K, n + 1)
    BY <2>5, <2>9, <2>10, <2>11 DEF Filled
  <2> QED
    BY <2>6, <2>12
<1>4. e.valid \in BOOLEAN
  BY <1>1, EntryFields
<1> QED
  BY <1>2, <1>3

(* A rehash keeps what the table tells of every key.                       *)
LEMMA Rehashed ==
  ASSUME NEW d, NEW K, Sound(d, K), d.count < d.allocated, 2 * d.allocated > Part
  PROVE  LET t == Rehash(d)
         IN  /\ Roomy(t, K) /\ t.count + 1 < t.allocated
             /\ t.count = d.count
             /\ KeysOf(t) = KeysOf(d) /\ t.threshold = Threshold(2 * d.allocated)
             /\ t.allocated = 2 * d.allocated
             /\ \A k \in K : Get(t, k) = Get(d, k)
<1> DEFINE f == Moving(d)
           a == d.allocated
           Wrong == {n \in 0 .. a : ~ Filled(f[n], d, K, n)}
<1>1. TableOf(d, K) /\ a \in Nat \ {0} /\ d.count \in Nat
  BY DEF Sound, TableOf
<1>2. Moves(f, d, a)
  BY <1>1, MovingExists
<1> HIDE DEF f, a
<1>3. /\ f[0] = Doubled(d)
      /\ \A n \in 1 .. a : f[n] = Moved(f[n - 1], d.entries[n - 1])
  <2>1. \A i \in 0 .. a : f[i] = IF i = 0 THEN Doubled(d) ELSE Moved(f[i - 1], d.entries[i - 1])
    BY <1>2 DEF Moves
  <2> QED
    BY <1>1, <2>1
<1>4. Filled(f[0], d, K, 0)
  <2>1. FirstKeys(d, 0) = {} /\ \A x \in ValidSlots(d) : ~ (x < 0)
    BY DEF FirstKeys, ValidSlots, Slots
  <2>2. 0 <= 0
    OBVIOUS
  <2> QED
    BY <1>1, <1>3, <2>1, <2>2, DoubledFields DEF Filled
<1>5. Wrong = {}
  <2> SUFFICES ASSUME Wrong # {} PROVE FALSE
    OBVIOUS
  <2>1. PICK n \in Wrong : \A m \in Wrong : n <= m
    <3>1. Wrong \in SUBSET Nat
      BY <1>1
    <3> HIDE DEF Wrong
    <3> QED
      BY <3>1, Least
  <2>2. n \in 1 .. a
    BY <1>1, <1>4, <2>1
  <2>3. n - 1 \in 0 .. a /\ ~ (n <= n - 1) /\ n - 1 \in Slots(d) /\ n - 1 + 1 = n
    BY <1>1, <2>2 DEF Slots, a
  <2>4. Filled(f[n - 1], d, K, n - 1)
    BY <2>1, <2>3
  <2>5. Filled(Moved(f[n - 1], d.entries[n - 1]), d, K, n - 1 + 1)
    BY <2>3, <2>4, MovedFills
  <2>6. Filled(f[n], d, K, n)
    BY <1>3, <2>2, <2>3, <2>5
  <2> QED
    BY <2>1, <2>6
<1> DEFINE l == f[a]
           t == Rehash(d)
<1>6. Filled(l, d, K, a)
  BY <1>1, <1>5
<1>7. FirstKeys(d, a) = KeysOf(d)
  <2>1. \A y \in ValidSlots(d) : y < a
    BY <1>1 DEF ValidSlots, Slots, a
  <2> QED
    BY <2>1 DEF FirstKeys, KeysOf
<1>8. t = [l EXCEPT !.threshold = Threshold(2 * a)]
  BY RehashIs DEF f, a
<1> HIDE DEF l, t, Wrong
<1>9. TableOf(l, K) /\ Reaches(l) /\ l.allocated = 2 * a
  BY <1>6 DEF Filled, Sound, a
<1>10. /\ t.entries = l.entries /\ t.allocated = l.allocated /\ t.count = l.count
       /\ t.threshold = Threshold(2 * a)
       /\ t = [entries |-> t.entries, allocated |-> t.allocated, count |-> t.count,
               threshold |-> t.threshold]
  <2>1. l = [entries |-> l.entries, allocated |-> l.allocated, count |-> l.count,
             threshold |-> l.threshold]
    BY <1>9 DEF TableOf
  <2> DEFINE th == Threshold(2 * a)
  <2>2. t = [l EXCEPT !.threshold = th]
    BY <1>8
  <2> HIDE DEF th
  <2>3. t = [entries |-> l.entries, allocated |-> l.allocated, count |-> l.count, threshold |-> th]
    BY <2>1, <2>2
  <2> QED
    BY <2>3 DEF th
<1>11. Threshold(2 * a) \in Nat /\ Threshold(2 * a) + 2 <= 2 * a
  <2>1. 2 * a \in Nat /\ 2 * a > Part
    BY <1>1 DEF a
  <2> QED
    BY <2>1, ThresholdFits
<1>12. Sound(t, K) /\ KeysOf(t) = KeysOf(d) /\ \A k \in K : Get(t, k) = Get(l, k)
  <2>1. Slots(t) = Slots(l) /\ \A j, n : Probe(t, j, n) = Probe(l, j, n)
    BY <1>10 DEF Slots, Probe
  <2>2. \A j, n : Passes(t, j, n) <=> Passes(l, j, n)
    BY <1>10, <2>1 DEF Passes
  <2>3. TableOf(t, K)
    <3>1. l.count \in Nat /\ l.allocated \in Nat \ {0} /\ l.entries \in [Slots(l) -> EntryOf(K)]
          /\ \A j \in K : HashValue(j) \in Nat
      BY <1>9 DEF TableOf
    <3> QED
      BY <1>10, <1>11, <2>1, <3>1 DEF TableOf
  <2>4. Reaches(t) /\ ValidSlots(t) = ValidSlots(l)
    BY <1>9, <1>10, <2>1, <2>2 DEF Reaches, ValidSlots
  <2>5. KeysOf(t) = KeysOf(l)
    BY <1>10, <2>4 DEF KeysOf
  <2>6. \A k \in K : Get(t, k) = Get(l, k)
    BY <1>10, <2>1 DEF Get, FindEntry
  <2> QED
    BY <1>6, <1>7, <1>10, <2>3, <2>4, <2>5, <2>6 DEF Sound, Filled
<1>13. t.count = d.count
  BY <1>12 DEF Sound
<1>14. \A k \in K : Get(l, k) = Get(d, k)
  <2> TAKE k \in K
  <2>1. Sound(l, K) /\ l.count < l.allocated /\ KeysOf(l) = KeysOf(d)
    <3>1. l.count <= a /\ l.count \in Nat
      BY <1>6 DEF Filled, Sound, TableOf
    <3> QED
      BY <1>1, <1>6, <1>7, <1>9, <3>1 DEF Filled
  <2>2. CASE k \notin KeysOf(d)
    BY <2>1, <2>2, Lookups
  <2>3. CASE k \in KeysOf(d)
    <3>1. PICK x \in ValidSlots(d) : d.entries[x].key = k
      BY <2>3 DEF KeysOf
    <3>2. x < a
      BY <1>1, <3>1 DEF ValidSlots, Slots, a
    <3>3. Get(l, k) = d.entries[x].value
      BY <1>6, <3>1, <3>2 DEF Filled
    <3>4. Get(d, k) = d.entries[x].value
      BY <3>1, Lookups
    <3> QED
      BY <3>3, <3>4
  <2> QED
    BY <2>2, <2>3
<1>15. Roomy(t, K) /\ t.count + 1 < t.allocated
  <2>1. t.count < a /\ t.allocated = 2 * a /\ t.threshold = Threshold(2 * a)
    BY <1>9, <1>10, <1>13 DEF a
  <2>2. 2 * a > Part
    BY DEF a
  <2> QED
    BY <1>1, <1>11, <1>12, <1>13, <2>1, <2>2 DEF Roomy
<1> QED
  BY <1>9, <1>10, <1>12, <1>13, <1>14, <1>15 DEF a, t

(* clear() makes a table without keys.                                     *)
LEMMA ClearedFields ==
  ASSUME NEW K, \A k \in K : HashValue(k) \in Nat
  PROVE  Roomy(Cleared, K) /\ KeysOf(Cleared) = {} /\ \A k \in K : Get(Cleared, k) = 0
<1> DEFINE s == InitialTableSize \div 2
           g == [i \in 0 .. s - 1 |-> Vacant]
           d == [entries |-> g, allocated |-> s, count |-> 0, threshold |-> 0]
<1>1. /\ s \in Nat \ {0} /\ 2 * s > Part
  <2>1. InitialTableSize = 2 * s /\ s \in Nat
    BY DictionaryAssumption
  <2>2. Part \in Nat \ {0} /\ InitialTableSize > Part
    BY DictionaryAssumption DEF Part
  <2> QED
    BY <2>1, <2>2
<1>2. Cleared = Rehash(d)
  BY DEF Cleared
<1> HIDE DEF s
<1>3. /\ g \in [0 .. s - 1 -> EntryOf(K)]
      /\ \A i \in 0 .. s - 1 : ~ g[i].valid
  <2>1. Vacant \in EntryOf(K) /\ ~ Vacant.valid
    BY DEF EntryOf, Vacant
  <2> HIDE DEF Vacant
  <2> QED
    BY <2>1
<1> HIDE DEF g
<1>4. /\ d.entries = g /\ d.allocated = s /\ d.count = 0 /\ d.threshold = 0
      /\ d = [entries |-> d.entries, allocated |-> d.allocated, count |-> d.count,
              threshold |-> d.threshold]
  OBVIOUS
<1> HIDE DEF d
<1>5. TableOf(d, K) /\ ValidSlots(d) = {}
  BY <1>1, <1>3, <1>4 DEF TableOf, ValidSlots, Slots
<1>6. KeysOf(d) = {} /\ Reaches(d)
  BY <1>5 DEF KeysOf, Reaches, ValidSlots
<1>7. Sound(d, K) /\ d.count < d.allocated
  <2>1. IsFiniteSet(KeysOf(d)) /\ Cardinality(KeysOf(d)) = 0
    BY <1>6, FS_EmptySet
  <2> QED
    BY <1>1, <1>4, <1>5, <1>6, <2>1 DEF Sound
<1>8. \A k \in K : Get(d, k) = 0
  BY <1>6, <1>7, Lookups
<1>9. 2 * d.allocated > Part
  BY <1>1, <1>4
<1> QED
  BY <1>2, <1>6, <1>7, <1>8, <1>9, Rehashed

(* put() leads from its key to its value and leaves the other keys alone,  *)
(* also when it doubles the table.                                         *)
LEMMA PutRight ==
  ASSUME NEW d, NEW K, Roomy(d, K), NEW k \in K, NEW v \in Nat
  PROVE  /\ Roomy(Put(d, k, v), K)
         /\ KeysOf(Put(d, k, v)) = KeysOf(d) \cup {k}
         /\ \A j \in K : Get(Put(d, k, v), j) = IF j = k THEN v ELSE Get(d, j)
<1>1. /\ Sound(d, K) /\ d.count < d.allocated /\ TableOf(d, K)
      /\ d.allocated \in Nat \ {0} /\ d.count \in Nat /\ d.threshold \in Nat
  BY DEF Roomy, Sound, TableOf
<1>2. Part \in Nat
  BY DictionaryAssumption DEF Part
<1>3. Has(d, k) <=> k \in KeysOf(d)
  BY <1>1, Lookups
<1>4. CASE k \in KeysOf(d)
  <2> DEFINE t == Rewritten(d, k, v)
  <2>1. Put(d, k, v) = t
    BY <1>3, <1>4 DEF Put, Rewritten
  <2>2. /\ Sound(t, K) /\ t.count = d.count /\ t.allocated = d.allocated
        /\ t.threshold = d.threshold /\ KeysOf(t) = KeysOf(d)
        /\ \A j \in K : Get(t, j) = IF j = k THEN v ELSE Get(d, j)
    BY <1>1, <1>4, Replaced
  <2> HIDE DEF t
  <2>3. Roomy(t, K)
    BY <2>2 DEF Roomy
  <2> QED
    BY <1>4, <2>1, <2>2, <2>3
<1>5. CASE k \notin KeysOf(d)
  <2> DEFINE r == IF TooFull(d) THEN Rehash(d) ELSE d
             t == Place(r, k, v)
  <2>1. Put(d, k, v) = t
    BY <1>3, <1>5 DEF Put
  <2>2. /\ Roomy(r, K) /\ r.count + 1 < r.allocated /\ KeysOf(r) = KeysOf(d)
        /\ \A j \in K : Get(r, j) = Get(d, j)
    <3>1. CASE TooFull(d)
      <4>1. 2 * d.allocated > Part
        BY <1>1, <1>2 DEF Roomy
      <4> QED
        BY <1>1, <3>1, <4>1, Rehashed
    <3>2. CASE ~ TooFull(d)
      <4>1. d.count + 1 < d.allocated
        BY <1>1, <3>2 DEF TooFull, Roomy
      <4> QED
        BY <3>2, <4>1
    <3> QED
      BY <3>1, <3>2
  <2> HIDE DEF r
  <2>3. /\ Sound(t, K) /\ t.count = r.count + 1 /\ t.allocated = r.allocated
        /\ t.threshold = r.threshold /\ KeysOf(t) = KeysOf(r) \cup {k}
        /\ \A j \in K : Get(t, j) = IF j = k THEN v ELSE Get(r, j)
    BY <1>5, <2>2, Placed DEF Roomy
  <2> HIDE DEF t
  <2>4. Roomy(t, K)
    BY <2>2, <2>3 DEF Roomy
  <2> QED
    BY <2>1, <2>2, <2>3, <2>4
<1> QED
  BY <1>4, <1>5

-----------------------------------------------------------------------------
(* The arguments and who owns a name among them.                           *)
(* Every symbol is a string: the provers know that of no literal by         *)
(* themselves.                                                             *)
Symbol == STRING \cup {"-", "=", "false", "z", "zz"}

LEMMA Symbols ==
  /\ STRING \subseteq Symbol
  /\ "-" \in Symbol /\ "=" \in Symbol /\ "false" \in Symbol /\ "z" \in Symbol /\ "zz" \in Symbol
BY DEF Symbol

LEMMA SeqGrows ==
  ASSUME NEW A, NEW B, A \subseteq B
  PROVE  Seq(A) \subseteq Seq(B)
OBVIOUS

LEMMA SymbolSeqs ==
  /\ \A t \in Texts : t \in Seq(Symbol) /\ t # <<>>
  /\ \A words \in Finals : words \in Seq(Seq(Symbol))
<1> DEFINE A == Seq(STRING)
           B == Seq(Symbol)
<1>1. A \subseteq B
  BY Symbols, SeqGrows
<1> HIDE DEF A, B
<1>2. Seq(A) \subseteq Seq(B)
  BY <1>1, SeqGrows
<1>3. /\ \A t \in Texts : t \in A /\ t # <<>>
      /\ \A words \in Finals : words \in Seq(A)
  BY CommandLineAssumption DEF A
<1> QED
  BY <1>1, <1>2, <1>3 DEF B

ArgumentRecord ==
  [class : {"BOOLEAN", "STRING", "HELP"}, short : Symbol, long : Symbol,
   set : BOOLEAN, value : BOOLEAN \cup Seq(Symbol)]

FieldNames(field) == {o[field] : o \in Options}
Named(field) == FieldNames(field) \ {None}
AllKeys == {<<n>> : n \in FieldNames("short") \cup FieldNames("long") \cup {"z", "zz"}}

ArgsRight(args) ==
  /\ args \in Seq(ArgumentRecord)
  /\ \A id \in DOMAIN args : /\ args[id].short \in FieldNames("short")
                             /\ args[id].long \in FieldNames("long")

LEMMA AllKeysHashed == \A k \in AllKeys : HashValue(k) \in Nat
BY CommandLineAssumption DEF AllKeys, FieldNames

EntersIn(args, id, field, name) ==
  /\ args[id][field] = name
  /\ field = "long" => \A other \in 1 .. id - 1 :
                        args[other].short # args[id].short \/ args[id].short = None

Entering(args, field, name) == {id \in DOMAIN args : EntersIn(args, id, field, name)}
OwnerIn(args, field, name) == Max({0} \cup Entering(args, field, name))

LEMMA OwnerIsIn ==
  \A field, name : Owner(field, name) = OwnerIn(arguments, field, name)
BY DEF Owner, OwnerIn, Entering, Enters, EntersIn

LEMMA Greatest ==
  ASSUME NEW n \in Nat, NEW T, T \subseteq 0 .. n, T # {}
  PROVE  Max(T) \in T /\ \A x \in T : x <= Max(T)
<1> DEFINE Rest == {n - x : x \in T}
<1>1. Rest \in SUBSET Nat /\ Rest # {}
  OBVIOUS
<1>2. PICK m \in Rest : \A x \in Rest : m <= x
  <2> HIDE DEF Rest
  <2> QED
    BY <1>1, Least
<1>3. PICK y \in T : m = n - y
  BY <1>2
<1>4. ASSUME NEW x \in T PROVE y >= x
  <2>1. m <= n - x
    BY <1>2
  <2>2. x \in 0 .. n /\ y \in 0 .. n
    OBVIOUS
  <2> QED
    BY <1>3, <2>1, <2>2
<1>5. \E z \in T : \A x \in T : z >= x
  BY <1>4
<1>6. Max(T) \in T /\ \A x \in T : Max(T) >= x
  BY <1>5 DEF Max
<1>7. \A x \in T : x \in Int
  OBVIOUS
<1> QED
  BY <1>6, <1>7

LEMMA OwnerFacts ==
  ASSUME NEW n \in Nat, NEW args, DOMAIN args = 1 .. n, NEW field, NEW name
  PROVE  /\ OwnerIn(args, field, name) \in 0 .. n
         /\ OwnerIn(args, field, name) = 0 <=> Entering(args, field, name) = {}
         /\ OwnerIn(args, field, name) # 0 =>
              OwnerIn(args, field, name) \in Entering(args, field, name)
         /\ \A id \in Entering(args, field, name) : id <= OwnerIn(args, field, name)
<1> DEFINE E == Entering(args, field, name)
<1>1. E \subseteq 1 .. n
  BY DEF Entering
<1> HIDE DEF E
<1> DEFINE T == {0} \cup E
<1>2. T \subseteq 0 .. n /\ T # {}
  BY <1>1
<1> HIDE DEF T
<1>3. Max(T) \in T /\ \A x \in T : x <= Max(T)
  BY <1>2, Greatest
<1>4. OwnerIn(args, field, name) = Max(T)
  BY DEF OwnerIn, T, E
<1>5. /\ Max(T) \in 0 .. n /\ (Max(T) # 0 => Max(T) \in E) /\ \A id \in E : id <= Max(T)
  BY <1>2, <1>3 DEF T
<1>6. Max(T) = 0 <=> E = {}
  BY <1>1, <1>5
<1> QED
  BY <1>4, <1>5, <1>6 DEF E

(* The owner is whoever entered the name last.                             *)
LEMMA OwnerLast ==
  ASSUME NEW n \in Nat, NEW args, DOMAIN args = 1 .. n, NEW field, NEW name,
         NEW id \in Entering(args, field, name),
         \A other \in Entering(args, field, name) : other <= id
  PROVE  OwnerIn(args, field, name) = id
<1>1. id \in 1 .. n
  BY DEF Entering
<1>2. /\ OwnerIn(args, field, name) \in 0 .. n
      /\ OwnerIn(args, field, name) # 0 => OwnerIn(args, field, name) \in Entering(args, field, name)
      /\ id <= OwnerIn(args, field, name)
  BY OwnerFacts
<1> QED
  BY <1>1, <1>2

LEMMA OwnerAppended ==
  ASSUME NEW args \in Seq(ArgumentRecord), NEW a \in ArgumentRecord,
         NEW field \in {"short", "long"}, NEW name
  PROVE  OwnerIn(Append(args, a), field, name) =
           IF EntersIn(Append(args, a), Len(args) + 1, field, name) THEN Len(args) + 1
           ELSE OwnerIn(args, field, name)
<1> DEFINE n == Len(args)
           both == Append(args, a)
<1>1. /\ n \in Nat /\ DOMAIN args = 1 .. n /\ DOMAIN both = 1 .. n + 1
      /\ both[n + 1] = a /\ \A id \in 1 .. n : both[id] = args[id]
  OBVIOUS
<1> HIDE DEF both
<1>2. ASSUME NEW id \in 1 .. n
      PROVE  EntersIn(both, id, field, name) <=> EntersIn(args, id, field, name)
  <2>1. \A other \in 1 .. id - 1 : other \in 1 .. n
    BY <1>1
  <2> QED
    BY <1>1, <2>1 DEF EntersIn
<1>3. CASE EntersIn(both, n + 1, field, name)
  <2>1. n + 1 \in Entering(both, field, name)
    BY <1>1, <1>3 DEF Entering
  <2>2. \A other \in Entering(both, field, name) : other <= n + 1
    BY <1>1 DEF Entering
  <2>3. OwnerIn(both, field, name) = n + 1
    BY <1>1, <2>1, <2>2, OwnerLast, n + 1 \in Nat
  <2> QED
    BY <1>3, <2>3 DEF both
<1>4. CASE ~ EntersIn(both, n + 1, field, name)
  <2>1. Entering(both, field, name) = Entering(args, field, name)
    BY <1>1, <1>2, <1>4 DEF Entering
  <2>2. OwnerIn(both, field, name) = OwnerIn(args, field, name)
    BY <2>1 DEF OwnerIn
  <2> QED
    BY <1>4, <2>2 DEF both
<1> QED
  BY <1>3, <1>4

(* What parsing leaves of the arguments.                                   *)
Kept(b, a) ==
  /\ b \in Seq(ArgumentRecord) /\ DOMAIN b = DOMAIN a
  /\ \A id \in DOMAIN a : b[id].class = a[id].class /\ b[id].short = a[id].short
                          /\ b[id].long = a[id].long

LEMMA OwnerKept ==
  ASSUME NEW a \in Seq(ArgumentRecord), NEW b, Kept(b, a), NEW field \in {"short", "long"}, NEW name
  PROVE  OwnerIn(b, field, name) = OwnerIn(a, field, name)
<1>1. ASSUME NEW id \in DOMAIN a
      PROVE  EntersIn(b, id, field, name) <=> EntersIn(a, id, field, name)
  <2>1. b[id][field] = a[id][field]
    BY DEF Kept
  <2>2. \A other \in 1 .. id - 1 : other \in DOMAIN a
    OBVIOUS
  <2> QED
    BY <2>1, <2>2 DEF EntersIn, Kept
<1>2. DOMAIN b = DOMAIN a
  BY DEF Kept
<1> QED
  BY <1>1, <1>2 DEF OwnerIn, Entering

(* A table that leads from each name to its owner.                         *)
OwnedIn(args, field) == {name \in Named(field) : OwnerIn(args, field, name) # 0}
Keys(names) == {<<n>> : n \in names}

IsTable(d, args, field) ==
  /\ Roomy(d, AllKeys) /\ KeysOf(d) = Keys(OwnedIn(args, field))
  /\ \A name \in Named(field) : Get(d, <<name>>) = OwnerIn(args, field, name)

LEMMA TableIsMap ==
  ASSUME NEW d, NEW field \in {"short", "long"}, IsTable(d, arguments, field)
  PROVE  IsMap(d, field)
<1> DEFINE owned == OwnedIn(arguments, field)
<1>1. owned = {name \in FieldNames(field) \ {None} : Owner(field, name) # 0}
  BY OwnerIsIn DEF OwnedIn, Named
<1>2. /\ IsFiniteSet(KeysOf(d)) /\ d.count = Cardinality(KeysOf(d)) /\ d.count < d.allocated
      /\ KeysOf(d) = Keys(owned)
  BY DEF IsTable, Roomy, Sound
<1> DEFINE f == [k \in Keys(owned) |-> k[1]]
<1> HIDE DEF owned
<1>3. f \in [Keys(owned) -> owned]
  BY DEF Keys
<1>4. ExistsBijection(Keys(owned), owned)
  <2>1. \A k \in Keys(owned) : k = <<k[1]>>
    BY DEF Keys
  <2>2. \A j, k \in Keys(owned) : f[j] = f[k] => j = k
    BY <2>1
  <2>3. \A n \in owned : <<n>> \in Keys(owned) /\ f[<<n>>] = n
    BY DEF Keys
  <2> HIDE DEF f
  <2>4. f \in Bijection(Keys(owned), owned)
    BY <1>3, <2>2, <2>3 DEF Bijection, Injection, Surjection, IsInjective
  <2> QED
    BY <2>4 DEF ExistsBijection
<1>5. Cardinality(owned) = Cardinality(Keys(owned))
  BY <1>2, <1>4, FS_Bijection
<1>6. d.count = Cardinality({name \in FieldNames(field) \ {None} : Owner(field, name) # 0})
  BY <1>1, <1>2, <1>5
<1>7. ASSUME NEW name \in FieldNames(field) \ {None} PROVE Get(d, <<name>>) = Owner(field, name)
  <2>1. Get(d, <<name>>) = OwnerIn(arguments, field, name)
    BY DEF IsTable, Named
  <2>2. Owner(field, name) = OwnerIn(arguments, field, name)
    BY OwnerIsIn
  <2> QED
    BY <2>1, <2>2
<1> QED
  BY <1>2, <1>6, <1>7 DEF IsMap, FieldNames

(* A name entered is put into the table, ...                               *)
LEMMA PutTable ==
  ASSUME NEW args \in Seq(ArgumentRecord), NEW a \in ArgumentRecord,
         NEW field \in {"short", "long"}, NEW d, IsTable(d, args, field),
         a[field] \in Named(field),
         EntersIn(Append(args, a), Len(args) + 1, field, a[field])
  PROVE  IsTable(Put(d, <<a[field]>>, Len(args) + 1), Append(args, a), field)
<1> DEFINE n == Len(args) + 1
           both == Append(args, a)
           key == <<a[field]>>
           t == Put(d, key, n)
<1>1. n \in Nat /\ n # 0 /\ both[n] = a
  OBVIOUS
<1>2. key \in AllKeys
  BY DEF AllKeys, Named
<1>3. \A name : EntersIn(both, n, field, name) <=> name = a[field]
  BY <1>1 DEF EntersIn
<1>4. \A name : OwnerIn(both, field, name) = IF name = a[field] THEN n ELSE OwnerIn(args, field, name)
  BY <1>3, OwnerAppended
<1> HIDE DEF n, both
<1>5. Roomy(d, AllKeys)
  BY DEF IsTable
<1> HIDE DEF key
<1>6. /\ Roomy(t, AllKeys) /\ KeysOf(t) = KeysOf(d) \cup {key}
      /\ \A j \in AllKeys : Get(t, j) = IF j = key THEN n ELSE Get(d, j)
  BY <1>1, <1>2, <1>5, PutRight
<1> HIDE DEF t
<1>7. KeysOf(t) = Keys(OwnedIn(both, field))
  <2>1. OwnedIn(both, field) = OwnedIn(args, field) \cup {a[field]}
    BY <1>1, <1>4 DEF OwnedIn
  <2>2. Keys(OwnedIn(both, field)) = Keys(OwnedIn(args, field)) \cup {<<a[field]>>}
    BY <2>1 DEF Keys
  <2> QED
    BY <1>6, <2>2 DEF IsTable, key
<1>8. ASSUME NEW name \in Named(field) PROVE Get(t, <<name>>) = OwnerIn(both, field, name)
  <2>1. <<name>> \in AllKeys
    BY DEF AllKeys, Named
  <2>2. <<name>> = key <=> name = a[field]
    <3>1. <<name>>[1] = name /\ <<a[field]>>[1] = a[field]
      OBVIOUS
    <3> QED
      BY <3>1 DEF key
  <2>3. Get(d, <<name>>) = OwnerIn(args, field, name)
    BY DEF IsTable
  <2> QED
    BY <1>4, <1>6, <2>1, <2>2, <2>3
<1> QED
  BY <1>6, <1>7, <1>8 DEF IsTable, t, key, n, both

(* ... and if none is entered the table stays.                             *)
LEMMA SameTable ==
  ASSUME NEW args \in Seq(ArgumentRecord), NEW a \in ArgumentRecord,
         NEW field \in {"short", "long"}, NEW d, IsTable(d, args, field),
         \A name \in Named(field) : ~ EntersIn(Append(args, a), Len(args) + 1, field, name)
  PROVE  IsTable(d, Append(args, a), field)
<1>1. \A name \in Named(field) : OwnerIn(Append(args, a), field, name) = OwnerIn(args, field, name)
  BY OwnerAppended
<1>2. OwnedIn(Append(args, a), field) = OwnedIn(args, field)
  BY <1>1 DEF OwnedIn
<1> QED
  BY <1>1, <1>2 DEF IsTable

LEMMA KeptTable ==
  ASSUME NEW a \in Seq(ArgumentRecord), NEW b, Kept(b, a), NEW field \in {"short", "long"},
         NEW d, IsTable(d, a, field)
  PROVE  IsTable(d, b, field)
<1>1. \A name : OwnerIn(b, field, name) = OwnerIn(a, field, name)
  BY OwnerKept
<1>2. OwnedIn(b, field) = OwnedIn(a, field)
  BY <1>1 DEF OwnedIn
<1> QED
  BY <1>1, <1>2 DEF IsTable

LEMMA ClearedTable ==
  ASSUME NEW field \in {"short", "long"}
  PROVE  IsTable(Cleared, <<>>, field)
<1>1. \A name : OwnerIn(<<>>, field, name) = 0
  <2> TAKE name
  <2>1. Entering(<<>>, field, name) = {} /\ DOMAIN <<>> = 1 .. 0
    BY DEF Entering
  <2> QED
    BY <2>1, OwnerFacts, 0 \in Nat
<1>2. OwnedIn(<<>>, field) = {}
  BY <1>1 DEF OwnedIn
<1>3. Keys(OwnedIn(<<>>, field)) = {}
  BY <1>2 DEF Keys
<1>4. \A name \in Named(field) : <<name>> \in AllKeys
  BY DEF Named, AllKeys
<1>5. Roomy(Cleared, AllKeys) /\ KeysOf(Cleared) = {} /\ \A k \in AllKeys : Get(Cleared, k) = 0
  BY AllKeysHashed, ClearedFields
<1> QED
  BY <1>1, <1>3, <1>4, <1>5 DEF IsTable

(* What a table tells of a name.                                           *)
LEMMA TableHas ==
  ASSUME NEW d, NEW args, NEW field \in {"short", "long"}, IsTable(d, args, field),
         NEW name \in Named(field)
  PROVE  Has(d, <<name>>) <=> OwnerIn(args, field, name) # 0
<1>1. <<name>> \in AllKeys
  BY DEF Named, AllKeys
<1>2. Sound(d, AllKeys) /\ d.count < d.allocated
  BY DEF IsTable, Roomy
<1>3. Has(d, <<name>>) <=> <<name>> \in KeysOf(d)
  BY <1>1, <1>2, Lookups
<1>4. \A m : <<name>> = <<m>> => name = m
  <2> TAKE m
  <2>1. <<name>>[1] = name /\ <<m>>[1] = m
    OBVIOUS
  <2> QED
    BY <2>1
<1>5. <<name>> \in Keys(OwnedIn(args, field)) <=> name \in OwnedIn(args, field)
  BY <1>4 DEF Keys
<1> QED
  BY <1>3, <1>5 DEF IsTable, OwnedIn

-----------------------------------------------------------------------------
(* What parse() has found so far, and the steps of the loops over words    *)
(* and over the letters of a word.                                         *)
Yes == TRUE
No == FALSE

LEMMA YesIsNotNo == Yes # No
BY DEF Yes, No

Scan(args, i, taken, unknown, ended) ==
  [arguments |-> args, i |-> i, taken |-> taken, unknown |-> unknown, ended |-> ended]

Begun == Scan(arguments, 1, No, No, No)

IsScan(s) == s = Scan(s.arguments, s.i, s.taken, s.unknown, s.ended)

Given(args, b, value) == [args EXCEPT ![b] = WithValue(@, value)]

SetTaken(s, yes) == [s EXCEPT !.taken = yes]
SetUnknown(s, yes) == [s EXCEPT !.unknown = yes]
SetEnded(s, yes) == [s EXCEPT !.ended = yes]
SetAt(s, i) == [s EXCEPT !.i = i]
SetValue(s, b, value) == [s EXCEPT !.arguments[b] = WithValue(@, value)]

LEMMA ScanFields ==
  ASSUME NEW args, NEW i, NEW t, NEW u, NEW e
  PROVE  /\ IsScan(Scan(args, i, t, u, e))
         /\ Scan(args, i, t, u, e).arguments = args /\ Scan(args, i, t, u, e).i = i
         /\ Scan(args, i, t, u, e).taken = t /\ Scan(args, i, t, u, e).unknown = u
         /\ Scan(args, i, t, u, e).ended = e
BY DEF Scan, IsScan

LEMMA ScanTaken ==
  ASSUME NEW a, NEW i, NEW t, NEW u, NEW e, NEW y
  PROVE  SetTaken(Scan(a, i, t, u, e), y) = Scan(a, i, y, u, e)
BY DEF Scan, SetTaken

LEMMA ScanUnknown ==
  ASSUME NEW a, NEW i, NEW t, NEW u, NEW e, NEW y
  PROVE  SetUnknown(Scan(a, i, t, u, e), y) = Scan(a, i, t, y, e)
BY DEF Scan, SetUnknown

LEMMA ScanEnded ==
  ASSUME NEW a, NEW i, NEW t, NEW u, NEW e, NEW y
  PROVE  SetEnded(Scan(a, i, t, u, e), y) = Scan(a, i, t, u, y)
BY DEF Scan, SetEnded

LEMMA ScanAt ==
  ASSUME NEW a, NEW i, NEW t, NEW u, NEW e, NEW y
  PROVE  SetAt(Scan(a, i, t, u, e), y) = Scan(a, y, t, u, e)
BY DEF Scan, SetAt

LEMMA ScanValue ==
  ASSUME NEW a, NEW i, NEW t, NEW u, NEW e, NEW b, NEW v
  PROVE  SetValue(Scan(a, i, t, u, e), b, v) = Scan(Given(a, b, v), i, t, u, e)
<1> DEFINE g == Given(a, b, v)
           s == Scan(a, i, t, u, e)
<1>1. g = [a EXCEPT ![b] = WithValue(@, v)]
  BY DEF Given
<1>2. s.arguments = a
  BY ScanFields
<1>3. SetValue(s, b, v) = [s EXCEPT !.arguments = g]
  BY <1>1, <1>2 DEF SetValue
<1> HIDE DEF g
<1>4. [s EXCEPT !.arguments = g] = Scan(g, i, t, u, e)
  BY DEF Scan
<1> QED
  BY <1>3, <1>4 DEF g

Finished(s) == [s EXCEPT !.i = @ + 1, !.taken = FALSE]

LEMMA ScanFinished ==
  ASSUME NEW a, NEW i, NEW t, NEW u, NEW e
  PROVE  Finished(Scan(a, i, t, u, e)) = Scan(a, i + 1, No, u, e)
<1> DEFINE s == Scan(a, i, t, u, e)
<1>1. SetTaken(SetAt(s, i + 1), No) = Scan(a, i + 1, No, u, e)
  BY ScanTaken, ScanAt
<1>2. s.i = i
  BY ScanFields
<1> HIDE DEF s
<1>3. Finished(s) = SetTaken(SetAt(s, i + 1), No)
  BY <1>2 DEF Finished, SetTaken, SetAt, No
<1> QED
  BY <1>1, <1>3 DEF s

GivenOn(s, b, v) == [s EXCEPT !.arguments[b] = WithValue(@, v), !.i = @ + 1]

LEMMA ScanGivenOn ==
  ASSUME NEW a, NEW i, NEW t, NEW u, NEW e, NEW b, NEW v
  PROVE  GivenOn(Scan(a, i, t, u, e), b, v) = Scan(Given(a, b, v), i + 1, t, u, e)
<1> DEFINE s == Scan(a, i, t, u, e)
<1>1. SetAt(SetValue(s, b, v), i + 1) = Scan(Given(a, b, v), i + 1, t, u, e)
  BY ScanValue, ScanAt
<1>2. s.i = i
  BY ScanFields
<1> HIDE DEF s
<1>3. GivenOn(s, b, v) = SetAt(SetValue(s, b, v), i + 1)
  BY <1>2 DEF GivenOn, SetAt, SetValue
<1> QED
  BY <1>1, <1>3 DEF s

Takes(s, b, v) == [s EXCEPT !.taken = TRUE, !.arguments[b] = WithValue(@, v)]

LEMMA ScanTakes ==
  ASSUME NEW a, NEW i, NEW t, NEW u, NEW e, NEW b, NEW v
  PROVE  Takes(Scan(a, i, t, u, e), b, v) = Scan(Given(a, b, v), i, Yes, u, e)
<1> DEFINE s == Scan(a, i, t, u, e)
           taking == SetTaken(s, Yes)
<1>1. taking = Scan(a, i, Yes, u, e)
  BY ScanTaken
<1>2. s.arguments = a /\ taking.arguments = a
  BY <1>1, ScanFields
<1>3. SetValue(taking, b, v) = Scan(Given(a, b, v), i, Yes, u, e)
  BY <1>1, ScanValue
<1> HIDE DEF s
<1>4. Takes(s, b, v) = [SetTaken(s, Yes) EXCEPT !.arguments = [SetTaken(s, Yes).arguments EXCEPT ![b] = WithValue(s.arguments[b], v)]]
  BY DEF Takes, SetTaken, Yes
<1> HIDE DEF taking
<1>5. SetValue(taking, b, v) = [taking EXCEPT !.arguments = [taking.arguments EXCEPT ![b] = WithValue(taking.arguments[b], v)]]
  BY DEF SetValue
<1> QED
  BY <1>2, <1>3, <1>4, <1>5 DEF s, taking

TakesOn(s, b, v) == [s EXCEPT !.taken = TRUE, !.arguments[b] = WithValue(@, v), !.i = @ + 1]

LEMMA ScanTakesOn ==
  ASSUME NEW a, NEW i, NEW t, NEW u, NEW e, NEW b, NEW v
  PROVE  TakesOn(Scan(a, i, t, u, e), b, v) = Scan(Given(a, b, v), i + 1, Yes, u, e)
<1> DEFINE s == Scan(a, i, t, u, e)
<1>1. Takes(s, b, v) = Scan(Given(a, b, v), i, Yes, u, e)
  BY ScanTakes
<1>2. SetAt(Takes(s, b, v), i + 1) = Scan(Given(a, b, v), i + 1, Yes, u, e)
  BY <1>1, ScanAt
<1>3. s.i = i
  BY ScanFields
<1> HIDE DEF s
<1>4. TakesOn(s, b, v) = SetAt(Takes(s, b, v), i + 1)
  BY <1>3 DEF TakesOn, Takes, SetAt
<1> QED
  BY <1>2, <1>4 DEF s

(* The name before the first equals sign, and the value behind it.         *)
Splits(word, key, value) ==
  LET body == SubSeq(word, 3, Len(word))
      equals == SelectInSeq(body, LAMBDA c : c = "=")
  IN  /\ key = IF equals = 0 THEN body ELSE SubSeq(body, 1, equals - 1)
      /\ value = IF equals = 0 THEN <<>> ELSE SubSeq(body, equals + 1, Len(body))

LEMMA LongIs ==
  ASSUME NEW a, NEW i, NEW t, NEW u, NEW e, NEW key, NEW value, NEW word,
         Splits(word, key, value), NEW b, b = Get(longOptions, key)
  PROVE  LongOption(Scan(a, i, t, u, e), word) =
           IF b = 0 THEN Scan(a, i, t, Yes, e) ELSE Scan(Given(a, b, value), i + 1, t, u, e)
<1> DEFINE s == Scan(a, i, t, u, e)
<1>1. SetUnknown(s, Yes) = Scan(a, i, t, Yes, e)
  BY ScanUnknown
<1>2. GivenOn(s, b, value) = Scan(Given(a, b, value), i + 1, t, u, e)
  BY ScanGivenOn
<1> HIDE DEF s
<1>3. LongOption(s, word) = IF b = 0 THEN SetUnknown(s, Yes) ELSE GivenOn(s, b, value)
  BY DEF LongOption, Splits, SetUnknown, GivenOn, Yes
<1> QED
  BY <1>1, <1>2, <1>3 DEF s

Nothing == <<>>

(* The n-th letter of word i, the argument it leads to, what is behind it. *)
Meets(argv, i, n, b, rest) ==
  b = Get(shortOptions, <<argv[i][n]>>) /\ rest = SubSeq(argv[i], n + 1, Len(argv[i]))

LEMMA LetterIs ==
  ASSUME NEW a, NEW i, NEW e, NEW n, NEW argv, NEW b, NEW rest, Meets(argv, i, n, b, rest)
  PROVE  Letter(Scan(a, i, No, No, e), n, argv) =
           IF b = 0 THEN Scan(a, i, No, Yes, e)
           ELSE IF arguments[b].class # "STRING" THEN Scan(Given(a, b, Nothing), i, No, No, e)
           ELSE IF n = Len(argv[i]) /\ i < Len(argv)
             THEN Scan(Given(a, b, argv[i + 1]), i + 1, Yes, No, e)
           ELSE Scan(Given(a, b, rest), i, Yes, No, e)
<1> DEFINE c == Scan(a, i, No, No, e)
           next == argv[i + 1]
<1>1. c.i = i /\ c.unknown = No /\ c.taken = No
  BY ScanFields
<1>2. SetUnknown(c, Yes) = Scan(a, i, No, Yes, e)
  BY ScanUnknown
<1>3. SetValue(c, b, Nothing) = Scan(Given(a, b, Nothing), i, No, No, e)
  BY ScanValue
<1>4. TakesOn(c, b, next) = Scan(Given(a, b, next), i + 1, Yes, No, e)
  BY ScanTakesOn
<1>5. Takes(c, b, rest) = Scan(Given(a, b, rest), i, Yes, No, e)
  BY ScanTakes
<1> HIDE DEF c
<1>6. ~ c.unknown /\ ~ c.taken
  BY <1>1 DEF No
<1>7. Letter(c, n, argv) =
        IF b = 0 THEN SetUnknown(c, Yes)
        ELSE IF arguments[b].class # "STRING" THEN SetValue(c, b, Nothing)
        ELSE IF n = Len(argv[i]) /\ i < Len(argv) THEN TakesOn(c, b, next)
        ELSE Takes(c, b, rest)
  BY <1>1, <1>6 DEF Letter, TakesNext, SetUnknown, Yes, SetValue, TakesOn, Takes, Meets, Nothing
<1> QED
  BY <1>2, <1>3, <1>4, <1>5, <1>7 DEF c

LEMMA LetterDone ==
  ASSUME NEW c, NEW n, NEW argv, c.unknown = Yes \/ c.taken = Yes
  PROVE  Letter(c, n, argv) = c
<1>1. c.unknown \/ c.taken
  BY DEF Yes
<1> QED
  BY <1>1 DEF Letter

(* The letters of a word: what a recursive definition picks exists.        *)
Spells(f, s, argv, n) ==
  f = [j \in 1 .. n |-> IF j = 1 THEN s ELSE Letter(f[j - 1], j, argv)]

Spelling(s, argv) == CHOOSE f : Spells(f, s, argv, Len(argv[s.i]))

LEMMA ShortOptionsAre ==
  ASSUME NEW s, NEW argv
  PROVE  ShortOptions(s, argv) = Finished(Spelling(s, argv)[Len(argv[s.i])])
BY DEF ShortOptions, Spelling, Spells, Finished

LEMMA SpellingExists ==
  ASSUME NEW s, NEW argv, NEW n \in Nat
  PROVE  \E f : Spells(f, s, argv, n)
<1> DEFINE Never == {k \in Nat : ~ \E f : Spells(f, s, argv, k)}
<1>1. 0 \notin Never
  <2>1. Spells([j \in 1 .. 0 |-> s], s, argv, 0)
    BY DEF Spells
  <2> QED
    BY <2>1
<1>2. ASSUME NEW k \in Nat, k \notin Never PROVE k + 1 \notin Never
  <2>1. PICK f : Spells(f, s, argv, k)
    BY <1>2
  <2> DEFINE last == IF k = 0 THEN s ELSE Letter(f[k], k + 1, argv)
             g == [j \in 1 .. k + 1 |-> IF j <= k THEN f[j] ELSE last]
  <2>2. /\ \A j \in 1 .. k : g[j] = f[j]
        /\ g[k + 1] = last
        /\ g = [j \in 1 .. k + 1 |-> g[j]]
    OBVIOUS
  <2>3. \A j \in 1 .. k : f[j] = IF j = 1 THEN s ELSE Letter(f[j - 1], j, argv)
    BY <2>1 DEF Spells
  <2> HIDE DEF g
  <2>4. ASSUME NEW j \in 1 .. k + 1
        PROVE  g[j] = IF j = 1 THEN s ELSE Letter(g[j - 1], j, argv)
    <3>1. CASE j \in 1 .. k
      <4>1. j # 1 => j - 1 \in 1 .. k
        BY <3>1
      <4>2. g[j] = f[j] /\ (j # 1 => g[j - 1] = f[j - 1])
        BY <2>2, <3>1, <4>1
      <4> QED
        BY <2>3, <3>1, <4>2
    <3>2. CASE j = k + 1
      <4>1. CASE k = 0
        BY <2>2, <3>2, <4>1
      <4>2. CASE k # 0
        <5>1. k \in 1 .. k /\ j - 1 = k /\ j # 1
          BY <3>2, <4>2
        <5>2. g[k] = f[k]
          BY <2>2, <5>1
        <5> QED
          BY <2>2, <3>2, <4>2, <5>1, <5>2
      <4> QED
        BY <4>1, <4>2
    <3> QED
      BY <3>1, <3>2
  <2>5. Spells(g, s, argv, k + 1)
    BY <2>2, <2>4 DEF Spells
  <2> QED
    BY <2>5
<1>3. Never = {}
  <2>1. SUFFICES ASSUME Never # {} PROVE FALSE
    OBVIOUS
  <2>2. PICK m \in Never : \A k \in Never : m <= k
    <3>1. Never \in SUBSET Nat
      OBVIOUS
    <3> HIDE DEF Never
    <3> QED
      BY <2>1, <3>1, Least
  <2>3. m \in Nat /\ m # 0
    BY <1>1, <2>2
  <2>4. m - 1 \in Nat /\ m - 1 \notin Never
    BY <2>2, <2>3
  <2> HIDE DEF Never
  <2>5. m - 1 + 1 \notin Never
    BY <1>2, <2>4
  <2> QED
    BY <2>2, <2>3, <2>5
<1> QED
  BY <1>3

LEMMA SpellingSteps ==
  ASSUME NEW s, NEW argv, Len(argv[s.i]) \in Nat \ {0}
  PROVE  /\ Spelling(s, argv)[1] = s
         /\ \A j \in 2 .. Len(argv[s.i]) :
              Spelling(s, argv)[j] = Letter(Spelling(s, argv)[j - 1], j, argv)
<1> DEFINE n == Len(argv[s.i])
           f == Spelling(s, argv)
<1>1. Spells(f, s, argv, n)
  BY SpellingExists DEF Spelling
<1> HIDE DEF f, n
<1>2. \A j \in 1 .. n : f[j] = IF j = 1 THEN s ELSE Letter(f[j - 1], j, argv)
  BY <1>1 DEF Spells
<1>3. 1 \in 1 .. n /\ \A j \in 2 .. n : j \in 1 .. n /\ j # 1
  BY DEF n
<1> QED
  BY <1>2, <1>3 DEF f, n

(* The words of the command line.                                          *)
Reads(f, argv, n) ==
  f = [j \in 0 .. n |-> IF j > 0 THEN Word(f[j - 1], j, argv) ELSE Begun]

Reading(argv) == CHOOSE f : Reads(f, argv, Len(argv))

LEMMA ParsedIs ==
  ASSUME NEW argv
  PROVE  Parsed(argv) = Reading(argv)[Len(argv)]
BY DEF Parsed, Reading, Reads, Begun, Scan, No

LEMMA ReadingExists ==
  ASSUME NEW argv, NEW n \in Nat
  PROVE  \E f : Reads(f, argv, n)
<1> DEFINE Never == {k \in Nat : ~ \E f : Reads(f, argv, k)}
<1>1. 0 \notin Never
  <2>1. Reads([j \in 0 .. 0 |-> Begun], argv, 0)
    BY DEF Reads
  <2> QED
    BY <2>1
<1>2. ASSUME NEW k \in Nat, k \notin Never PROVE k + 1 \notin Never
  <2>1. PICK f : Reads(f, argv, k)
    BY <1>2
  <2> DEFINE last == Word(f[k], k + 1, argv)
             g == [j \in 0 .. k + 1 |-> IF j <= k THEN f[j] ELSE last]
  <2>2. /\ \A j \in 0 .. k : g[j] = f[j]
        /\ g[k + 1] = last
        /\ g = [j \in 0 .. k + 1 |-> g[j]]
    OBVIOUS
  <2>3. \A j \in 0 .. k : f[j] = IF j > 0 THEN Word(f[j - 1], j, argv) ELSE Begun
    BY <2>1 DEF Reads
  <2> HIDE DEF g
  <2>4. ASSUME NEW j \in 0 .. k + 1
        PROVE  g[j] = IF j > 0 THEN Word(g[j - 1], j, argv) ELSE Begun
    <3>1. CASE j \in 0 .. k
      <4>1. j > 0 => j - 1 \in 0 .. k
        BY <3>1
      <4>2. g[j] = f[j] /\ (j > 0 => g[j - 1] = f[j - 1])
        BY <2>2, <3>1, <4>1
      <4> QED
        BY <2>3, <3>1, <4>2
    <3>2. CASE j = k + 1
      <4>1. j > 0 /\ k \in 0 .. k /\ j - 1 = k
        BY <3>2
      <4> QED
        BY <2>2, <3>2, <4>1
    <3> QED
      BY <3>1, <3>2
  <2>5. Reads(g, argv, k + 1)
    BY <2>2, <2>4 DEF Reads
  <2> QED
    BY <2>5
<1>3. Never = {}
  <2>1. SUFFICES ASSUME Never # {} PROVE FALSE
    OBVIOUS
  <2>2. PICK m \in Never : \A k \in Never : m <= k
    <3>1. Never \in SUBSET Nat
      OBVIOUS
    <3> HIDE DEF Never
    <3> QED
      BY <2>1, <3>1, Least
  <2>3. m \in Nat /\ m # 0
    BY <1>1, <2>2
  <2>4. m - 1 \in Nat /\ m - 1 \notin Never
    BY <2>2, <2>3
  <2> HIDE DEF Never
  <2>5. m - 1 + 1 \notin Never
    BY <1>2, <2>4
  <2> QED
    BY <2>2, <2>3, <2>5
<1> QED
  BY <1>3

LEMMA ReadingSteps ==
  ASSUME NEW argv, Len(argv) \in Nat
  PROVE  /\ Reading(argv)[0] = Begun
         /\ \A j \in 1 .. Len(argv) :
              Reading(argv)[j] = Word(Reading(argv)[j - 1], j, argv)
<1> DEFINE n == Len(argv)
           f == Reading(argv)
<1>1. Reads(f, argv, n)
  BY ReadingExists DEF Reading
<1> HIDE DEF f, n
<1>2. \A j \in 0 .. n : f[j] = IF j > 0 THEN Word(f[j - 1], j, argv) ELSE Begun
  BY <1>1 DEF Reads
<1>3. 0 \in 0 .. n /\ \A j \in 1 .. n : j \in 0 .. n /\ j > 0
  BY DEF n
<1> QED
  BY <1>2, <1>3 DEF f, n

-----------------------------------------------------------------------------
(* Parsing leaves the names of the arguments alone.                        *)
LEMMA WithValueFields ==
  ASSUME NEW a \in ArgumentRecord, NEW v \in Seq(Symbol)
  PROVE  /\ WithValue(a, v) \in ArgumentRecord
         /\ WithValue(a, v).class = a.class /\ WithValue(a, v).short = a.short
         /\ WithValue(a, v).long = a.long /\ WithValue(a, v).set
         /\ WithValue(a, v).value = IF a.class = "STRING" THEN v ELSE v # <<"false">>
<1> DEFINE w == IF a.class = "STRING" THEN v ELSE v # <<"false">>
<1>1. w \in BOOLEAN \cup Seq(Symbol)
  OBVIOUS
<1>2. WithValue(a, v) = [a EXCEPT !.set = TRUE, !.value = w]
  BY DEF WithValue
<1> HIDE DEF w
<1>3. /\ [a EXCEPT !.set = TRUE, !.value = w] \in ArgumentRecord
      /\ [a EXCEPT !.set = TRUE, !.value = w].class = a.class
      /\ [a EXCEPT !.set = TRUE, !.value = w].short = a.short
      /\ [a EXCEPT !.set = TRUE, !.value = w].long = a.long
      /\ [a EXCEPT !.set = TRUE, !.value = w].set
      /\ [a EXCEPT !.set = TRUE, !.value = w].value = w
  BY <1>1 DEF ArgumentRecord
<1> QED
  BY <1>2, <1>3 DEF w

LEMMA GivenFields ==
  ASSUME NEW args \in Seq(ArgumentRecord), NEW b, NEW v \in Seq(Symbol)
  PROVE  /\ Given(args, b, v) \in Seq(ArgumentRecord)
         /\ DOMAIN Given(args, b, v) = DOMAIN args
         /\ \A id \in DOMAIN args :
              Given(args, b, v)[id] = IF id = b THEN WithValue(args[b], v) ELSE args[id]
<1> DEFINE g == Given(args, b, v)
<1>1. g = [id \in DOMAIN args |-> IF id = b THEN WithValue(args[b], v) ELSE args[id]]
  BY DEF Given
<1>2. /\ DOMAIN g = DOMAIN args
      /\ \A id \in DOMAIN args : g[id] = IF id = b THEN WithValue(args[b], v) ELSE args[id]
  BY <1>1
<1>3. \A id \in DOMAIN args : args[id] \in ArgumentRecord
  OBVIOUS
<1>4. \A id \in DOMAIN args : g[id] \in ArgumentRecord
  BY <1>2, <1>3, WithValueFields
<1>5. DOMAIN args = 1 .. Len(args) /\ Len(args) \in Nat
  OBVIOUS
<1>6. g \in [1 .. Len(args) -> ArgumentRecord]
  BY <1>1, <1>4, <1>5
<1> HIDE DEF g
<1>7. g \in Seq(ArgumentRecord)
  BY <1>5, <1>6
<1> QED
  BY <1>2, <1>7 DEF g

LEMMA GivenKept ==
  ASSUME NEW a, NEW args, Kept(args, a), NEW b, NEW v \in Seq(Symbol)
  PROVE  Kept(Given(args, b, v), a)
<1> DEFINE g == Given(args, b, v)
<1>1. args \in Seq(ArgumentRecord) /\ DOMAIN args = DOMAIN a
  BY DEF Kept
<1>2. /\ g \in Seq(ArgumentRecord) /\ DOMAIN g = DOMAIN args
      /\ \A id \in DOMAIN args : g[id] = IF id = b THEN WithValue(args[b], v) ELSE args[id]
  BY <1>1, GivenFields
<1> HIDE DEF g
<1>3. ASSUME NEW id \in DOMAIN a
      PROVE  g[id].class = a[id].class /\ g[id].short = a[id].short /\ g[id].long = a[id].long
  <2>1. /\ args[id] \in ArgumentRecord
        /\ args[id].class = a[id].class /\ args[id].short = a[id].short
        /\ args[id].long = a[id].long
    BY <1>1 DEF Kept
  <2>2. CASE id = b
    <3>1. g[id] = WithValue(args[id], v)
      BY <1>1, <1>2, <2>2
    <3> QED
      BY <2>1, <3>1, WithValueFields
  <2>3. CASE id # b
    BY <1>1, <1>2, <2>1, <2>3
  <2> QED
    BY <2>2, <2>3
<1> QED
  BY <1>1, <1>2, <1>3 DEF Kept, g

Words == Seq(Seq(Symbol))

KeptScan(s) ==
  IsScan(s) /\ Kept(s.arguments, arguments) /\ s.taken \in {Yes, No} /\ s.unknown \in {Yes, No}

LEMMA KeptScans ==
  ASSUME NEW a, Kept(a, arguments), NEW i, NEW t \in {Yes, No}, NEW u \in {Yes, No}, NEW e
  PROVE  KeptScan(Scan(a, i, t, u, e))
BY ScanFields DEF KeptScan

LEMMA LetterKeeps ==
  ASSUME NEW c, KeptScan(c), NEW argv \in Words, NEW n \in Nat,
         c.unknown = No /\ c.taken = No => c.i \in 1 .. Len(argv)
  PROVE  /\ KeptScan(Letter(c, n, argv))
         /\ \/ Letter(c, n, argv).unknown = Yes \/ Letter(c, n, argv).taken = Yes
            \/ c.unknown = No /\ c.taken = No /\ Letter(c, n, argv).i = c.i
<1>1. CASE c.unknown = Yes \/ c.taken = Yes
  BY <1>1, LetterDone
<1>2. CASE c.unknown = No /\ c.taken = No
  <2> DEFINE i == c.i
             a == c.arguments
             e == c.ended
             b == Get(shortOptions, <<argv[i][n]>>)
             rest == SubSeq(argv[i], n + 1, Len(argv[i]))
             l == Letter(c, n, argv)
  <2>1. i \in 1 .. Len(argv) /\ argv[i] \in Seq(Symbol)
    BY <1>2 DEF Words
  <2>2. rest \in Seq(Symbol) /\ Nothing \in Seq(Symbol)
    <3>1. Len(argv[i]) \in Nat
      BY <2>1
    <3> HIDE DEF i
    <3> QED
      BY <2>1, <3>1 DEF Nothing
  <2>3. i < Len(argv) => argv[i + 1] \in Seq(Symbol)
    BY <2>1 DEF Words
  <2> HIDE DEF b, rest, i, a, e
  <2>4. c = Scan(a, i, No, No, e)
    BY <1>2 DEF KeptScan, IsScan, i, a, e
  <2>5. Meets(argv, i, n, b, rest)
    BY DEF Meets, b, rest
  <2>6. l = IF b = 0 THEN Scan(a, i, No, Yes, e)
            ELSE IF arguments[b].class # "STRING" THEN Scan(Given(a, b, Nothing), i, No, No, e)
            ELSE IF n = Len(argv[i]) /\ i < Len(argv)
              THEN Scan(Given(a, b, argv[i + 1]), i + 1, Yes, No, e)
            ELSE Scan(Given(a, b, rest), i, Yes, No, e)
    BY <2>4, <2>5, LetterIs
  <2> HIDE DEF l
  <2>7. Kept(a, arguments)
    BY DEF KeptScan, a
  <2>8. CASE b = 0
    <3>1. l = Scan(a, i, No, Yes, e)
      BY <2>6, <2>8
    <3>2. l.unknown = Yes /\ KeptScan(l)
      BY <2>7, <3>1, ScanFields, KeptScans
    <3> QED
      BY <3>2 DEF l
  <2>9. CASE b # 0 /\ arguments[b].class # "STRING"
    <3>1. Kept(Given(a, b, Nothing), arguments)
      BY <2>2, <2>7, GivenKept
    <3>2. l = Scan(Given(a, b, Nothing), i, No, No, e)
      BY <2>6, <2>9
    <3>3. l.i = i /\ KeptScan(l)
      BY <3>1, <3>2, ScanFields, KeptScans
    <3> QED
      BY <1>2, <3>3 DEF l, i
  <2>10. CASE b # 0 /\ arguments[b].class = "STRING" /\ n = Len(argv[i]) /\ i < Len(argv)
    <3>1. Kept(Given(a, b, argv[i + 1]), arguments)
      BY <2>3, <2>7, <2>10, GivenKept
    <3>2. l = Scan(Given(a, b, argv[i + 1]), i + 1, Yes, No, e)
      BY <2>6, <2>10
    <3>3. l.taken = Yes /\ KeptScan(l)
      BY <3>1, <3>2, ScanFields, KeptScans
    <3> QED
      BY <3>3 DEF l
  <2>11. CASE b # 0 /\ arguments[b].class = "STRING" /\ ~ (n = Len(argv[i]) /\ i < Len(argv))
    <3>1. Kept(Given(a, b, rest), arguments)
      BY <2>2, <2>7, GivenKept
    <3>2. l = Scan(Given(a, b, rest), i, Yes, No, e)
      BY <2>6, <2>11
    <3>3. l.taken = Yes /\ KeptScan(l)
      BY <3>1, <3>2, ScanFields, KeptScans
    <3> QED
      BY <3>3 DEF l
  <2> QED
    BY <2>8, <2>9, <2>10, <2>11
<1> QED
  BY <1>1, <1>2 DEF KeptScan

LEMMA ShortKeeps ==
  ASSUME NEW s, KeptScan(s), NEW argv \in Words, s.i \in 1 .. Len(argv), argv[s.i] # <<>>,
         s.unknown = No, s.taken = No
  PROVE  KeptScan(ShortOptions(s, argv)) /\ ShortOptions(s, argv).taken = No
<1> DEFINE n == Len(argv[s.i])
           f == Spelling(s, argv)
<1>1. n \in Nat \ {0}
  <2>1. argv[s.i] \in Seq(Symbol)
    BY DEF Words
  <2> QED
    BY <2>1
<1>2. f[1] = s /\ \A j \in 2 .. n : f[j] = Letter(f[j - 1], j, argv)
  BY <1>1, SpellingSteps
<1> HIDE DEF n, f
<1> DEFINE Good(c) == KeptScan(c) /\ (c.unknown = Yes \/ c.taken = Yes \/ c.i = s.i)
           Bad == {j \in 1 .. n : ~ Good(f[j])}
<1>3. Bad = {}
  <2>1. SUFFICES ASSUME Bad # {} PROVE FALSE
    OBVIOUS
  <2>2. PICK j \in Bad : \A k \in Bad : j <= k
    <3>1. Bad \in SUBSET Nat
      OBVIOUS
    <3> HIDE DEF Bad
    <3> QED
      BY <2>1, <3>1, Least
  <2>3. j \in 1 .. n /\ ~ Good(f[j])
    OBVIOUS
  <2>4. j # 1
    BY <1>2, <2>3
  <2>5. j - 1 \in 1 .. n /\ j - 1 \notin Bad /\ j \in 2 .. n
    BY <2>2, <2>3, <2>4, <1>1
  <2>6. Good(f[j - 1])
    BY <2>5
  <2>7. f[j] = Letter(f[j - 1], j, argv)
    BY <1>2, <2>5
  <2>8. j \in Nat
    BY <2>3
  <2> DEFINE c == f[j - 1]
  <2>9. Good(c) /\ f[j] = Letter(c, j, argv)
    BY <2>6, <2>7
  <2> HIDE DEF c, Bad
  <2>10. Good(f[j])
    BY <2>8, <2>9, LetterKeeps, YesIsNotNo
  <2> QED
    BY <2>3, <2>10
<1>4. KeptScan(f[n])
  BY <1>1, <1>3
<1>5. ShortOptions(s, argv) = Finished(f[n])
  BY ShortOptionsAre DEF f, n
<1> DEFINE c == f[n]
<1> HIDE DEF c
<1>6. Finished(c) = Scan(c.arguments, c.i + 1, No, c.unknown, c.ended)
  BY <1>4, ScanFinished DEF KeptScan, IsScan, c
<1> QED
  BY <1>4, <1>5, <1>6, ScanFields, KeptScans DEF KeptScan, c

LEMMA SplitsSomehow ==
  ASSUME NEW word \in Seq(Symbol)
  PROVE  \E key : \E value \in Seq(Symbol) : Splits(word, key, value)
<1> DEFINE body == SubSeq(word, 3, Len(word))
           equals == SelectInSeq(body, LAMBDA c : c = "=")
           key == IF equals = 0 THEN body ELSE SubSeq(body, 1, equals - 1)
           value == IF equals = 0 THEN <<>> ELSE SubSeq(body, equals + 1, Len(body))
<1>1. Splits(word, key, value)
  BY DEF Splits
<1>2. body \in Seq(Symbol) /\ Len(body) \in Nat
  OBVIOUS
<1> HIDE DEF body
<1>3. equals \in 0 .. Len(body)
  <2> DEFINE I == {i \in 1 .. Len(body) : body[i] = "="}
  <2>1. equals = IF I # {} THEN Min(I) ELSE 0
    BY DEF SelectInSeq
  <2>2. I \in SUBSET Nat /\ I \subseteq 1 .. Len(body)
    BY <1>2
  <2> HIDE DEF I, equals
  <2>3. I # {} => Min(I) \in I
    <3> HAVE I # {}
    <3>1. \E m \in I : \A x \in I : m <= x
      BY <2>2, Least
    <3> QED
      BY <3>1 DEF Min
  <2>4. I # {} => Min(I) \in 1 .. Len(body)
    BY <2>2, <2>3
  <2> QED
    BY <1>2, <2>1, <2>4
<1> HIDE DEF equals
<1>4. value \in Seq(Symbol)
  <2>1. CASE equals = 0
    BY <2>1
  <2>2. CASE equals # 0
    <3>1. \A i \in equals + 1 .. Len(body) : i \in 1 .. Len(body)
      BY <1>2, <1>3
    <3> QED
      BY <1>2, <1>3, <2>2, <3>1
  <2> QED
    BY <2>1, <2>2
<1> QED
  BY <1>1, <1>4

LEMMA WordKeeps ==
  ASSUME NEW s, KeptScan(s), s.taken = No, NEW argv \in Words, NEW n \in 1 .. Len(argv)
  PROVE  KeptScan(Word(s, n, argv)) /\ Word(s, n, argv).taken = No
<1> DEFINE w == Word(s, n, argv)
<1>1. CASE s.unknown \/ s.ended \/ n # s.i
  BY <1>1 DEF Word
<1>2. CASE ~ (s.unknown \/ s.ended \/ n # s.i)
  <2>1. s.unknown = No /\ n = s.i
    <3>1. ~ s.unknown /\ s.unknown \in {Yes, No}
      BY <1>2 DEF KeptScan
    <3> QED
      BY <1>2, <3>1 DEF Yes, No
  <2>2. argv[n] \in Seq(Symbol)
    BY DEF Words
  <2>3. CASE Dashes(argv[n]) = 0 \/ argv[n] = <<"-", "-">>
    <3>1. w = SetEnded(s, Yes)
      BY <1>2, <2>3 DEF Word, SetEnded, Yes
    <3>2. s = Scan(s.arguments, s.i, s.taken, s.unknown, s.ended)
      BY DEF KeptScan, IsScan
    <3>3. w = Scan(s.arguments, s.i, s.taken, s.unknown, Yes)
      BY <3>1, <3>2, ScanEnded
    <3> HIDE DEF w
    <3>4. KeptScan(w) /\ w.taken = No
      BY <3>3, ScanFields, KeptScans DEF KeptScan
    <3> QED
      BY <3>4 DEF w
  <2>4. CASE ~ (Dashes(argv[n]) = 0 \/ argv[n] = <<"-", "-">>) /\ Dashes(argv[n]) = 2
    <3>1. w = LongOption(s, argv[n])
      BY <1>2, <2>4 DEF Word
    <3>2. PICK key : \E value \in Seq(Symbol) : Splits(argv[n], key, value)
      BY <2>2, SplitsSomehow
    <3>8. PICK value \in Seq(Symbol) : Splits(argv[n], key, value)
      BY <3>2
    <3> DEFINE b == Get(longOptions, key)
               a == s.arguments
               i == s.i
               e == s.ended
    <3>3. b = Get(longOptions, key)
      OBVIOUS
    <3> HIDE DEF b, w, a, i, e
    <3>4. s = Scan(a, i, No, No, e) /\ Kept(a, arguments)
      BY <2>1 DEF KeptScan, IsScan, a, i, e
    <3>5. w = IF b = 0 THEN Scan(a, i, No, Yes, e)
              ELSE Scan(Given(a, b, value), i + 1, No, No, e)
      BY <3>1, <3>8, <3>3, <3>4, LongIs
    <3>6. Kept(Given(a, b, value), arguments)
      BY <3>4, GivenKept
    <3>7. KeptScan(w) /\ w.taken = No
      <4>1. CASE b = 0
        <5>1. w = Scan(a, i, No, Yes, e)
          BY <3>5, <4>1
        <5> QED
          BY <3>4, <5>1, ScanFields, KeptScans
      <4>2. CASE b # 0
        <5>1. w = Scan(Given(a, b, value), i + 1, No, No, e)
          BY <3>5, <4>2
        <5> QED
          BY <3>6, <5>1, ScanFields, KeptScans
      <4> QED
        BY <4>1, <4>2
    <3> QED
      BY <3>7 DEF w
  <2>5. CASE ~ (Dashes(argv[n]) = 0 \/ argv[n] = <<"-", "-">>) /\ Dashes(argv[n]) # 2
    <3>1. w = ShortOptions(s, argv)
      BY <1>2, <2>5 DEF Word
    <3>2. argv[n] # <<>>
      BY <2>5 DEF Dashes
    <3>3. s.i \in 1 .. Len(argv) /\ argv[s.i] # <<>>
      BY <2>1, <3>2
    <3> HIDE DEF w
    <3> QED
      BY <2>1, <3>1, <3>3, ShortKeeps DEF w
  <2> QED
    BY <2>3, <2>4, <2>5
<1> QED
  BY <1>1, <1>2

LEMMA ParsedKeeps ==
  ASSUME ArgsRight(arguments), NEW argv \in Words
  PROVE  KeptScan(Parsed(argv))
<1> DEFINE n == Len(argv)
           f == Reading(argv)
<1>1. n \in Nat
  BY DEF Words
<1>2. f[0] = Begun /\ \A j \in 1 .. n : f[j] = Word(f[j - 1], j, argv)
  BY <1>1, ReadingSteps
<1>3. Parsed(argv) = f[n]
  BY ParsedIs
<1> HIDE DEF f
<1> DEFINE Good(c) == KeptScan(c) /\ c.taken = No
           Bad == {j \in 0 .. n : ~ Good(f[j])}
<1>4. Good(Begun)
  <2>1. Kept(arguments, arguments)
    BY DEF Kept, ArgsRight
  <2> QED
    BY <2>1, KeptScans, ScanFields DEF Begun
<1>5. Bad = {}
  <2>1. SUFFICES ASSUME Bad # {} PROVE FALSE
    OBVIOUS
  <2>2. PICK j \in Bad : \A k \in Bad : j <= k
    <3>1. Bad \in SUBSET Nat
      BY <1>1
    <3> HIDE DEF Bad
    <3> QED
      BY <2>1, <3>1, Least
  <2>3. j \in 0 .. n /\ ~ Good(f[j])
    OBVIOUS
  <2>4. j # 0
    BY <1>2, <1>4, <2>3
  <2>5. j - 1 \in 0 .. n /\ j - 1 \notin Bad /\ j \in 1 .. n
    BY <2>2, <2>3, <2>4, <1>1
  <2> DEFINE c == f[j - 1]
  <2>6. Good(c) /\ f[j] = Word(c, j, argv)
    BY <1>2, <2>5
  <2> HIDE DEF c, Bad
  <2>7. Good(f[j])
    BY <2>5, <2>6, WordKeeps
  <2> QED
    BY <2>3, <2>7
<1> QED
  BY <1>1, <1>3, <1>5

-----------------------------------------------------------------------------
(* The forms an option can be written in, for a flag ...                   *)
Dashed(a) == <<"-", "-", a.long>>
Lettered(a) == <<"-", a.short>>

FlagForm(item, id, a) ==
  /\ a.class # "STRING"
  /\ \/ a.long # None /\ item = Item(id, "long", Yes, <<Dashed(a)>>)
     \/ a.long # None /\ item = Item(id, "long", No, <<Dashed(a) \o <<"=", "false">>>>)
     \/ a.short # None /\ item = Item(id, "short", Yes, <<Lettered(a)>>)
     \/ a.short # None /\ item = Item(id, "joined", Yes, <<<<a.short>>>>)

(* ... and for a string.                                                   *)
StringForm(item, id, a) ==
  /\ a.class = "STRING"
  /\ \/ a.long # None /\ item = Item(id, "long", <<>>, <<Dashed(a)>>)
     \/ \E t \in Texts :
          \/ a.long # None /\ item = Item(id, "long", t, <<Dashed(a) \o <<"=">> \o t>>)
          \/ a.short # None /\ item = Item(id, "short", t, <<Lettered(a), t>>)
          \/ a.short # None /\ item = Item(id, "joined", t, <<<<a.short>>, t>>)
          \/ a.short # None /\ item = Item(id, "last", t, <<Lettered(a) \o t>>)

LEMMA ItemFields ==
  ASSUME NEW id, NEW form, NEW value, NEW words
  PROVE  /\ Item(id, form, value, words).id = id /\ Item(id, form, value, words).form = form
         /\ Item(id, form, value, words).value = value
         /\ Item(id, form, value, words).words = words
BY DEF Item

LEMMA FormsAre ==
  ASSUME NEW id, NEW item \in Forms(id)
  PROVE  FlagForm(item, id, arguments[id]) \/ StringForm(item, id, arguments[id])
<1> DEFINE a == arguments[id]
           l1 == <<Dashed(a)>>
           l2 == <<Dashed(a) \o <<"=", "false">>>>
           s1 == <<Lettered(a)>>
           j1 == <<<<a.short>>>>
           l3(t) == <<Dashed(a) \o <<"=">> \o t>>
           s3(t) == <<Lettered(a), t>>
           j3(t) == <<<<a.short>>, t>>
           s4(t) == <<Lettered(a) \o t>>
           none == <<>>
<1>1. /\ IF item.form = "long" THEN a.long # None ELSE a.short # None
      /\ \/ a.class # "STRING" /\ item = Item(id, "long", Yes, l1)
         \/ a.class # "STRING" /\ item = Item(id, "long", No, l2)
         \/ a.class # "STRING" /\ item = Item(id, "short", Yes, s1)
         \/ a.class # "STRING" /\ item = Item(id, "joined", Yes, j1)
         \/ a.class = "STRING" /\ item = Item(id, "long", none, l1)
         \/ a.class = "STRING" /\ \E t \in Texts : \/ item = Item(id, "long", t, l3(t))
                                                   \/ item = Item(id, "short", t, s3(t))
                                                   \/ item = Item(id, "joined", t, j3(t))
                                                   \/ item = Item(id, "last", t, s4(t))
  <2> DEFINE flags == IF a.class = "STRING" THEN {}
                      ELSE {Item(id, "long", Yes, l1), Item(id, "long", No, l2),
                            Item(id, "short", Yes, s1), Item(id, "joined", Yes, j1)}
             given == IF a.class # "STRING" THEN {}
                      ELSE {Item(id, "long", none, l1)}
                           \cup UNION {{Item(id, "long", t, l3(t)), Item(id, "short", t, s3(t)),
                                        Item(id, "joined", t, j3(t)), Item(id, "last", t, s4(t))}
                                       : t \in Texts}
  <2>1. item \in {i \in flags \cup given : IF i.form = "long" THEN a.long # None ELSE a.short # None}
    BY DEF Forms, Dashed, Lettered, Yes, No
  <2> HIDE DEF a, l1, l2, s1, j1, l3, s3, j3, s4, none
  <2>2. item \in flags => /\ a.class # "STRING"
                          /\ \/ item = Item(id, "long", Yes, l1)
                             \/ item = Item(id, "long", No, l2)
                             \/ item = Item(id, "short", Yes, s1)
                             \/ item = Item(id, "joined", Yes, j1)
    OBVIOUS
  <2>3. item \in given => /\ a.class = "STRING"
                          /\ \/ item = Item(id, "long", none, l1)
                             \/ \E t \in Texts : \/ item = Item(id, "long", t, l3(t))
                                                 \/ item = Item(id, "short", t, s3(t))
                                                 \/ item = Item(id, "joined", t, j3(t))
                                                 \/ item = Item(id, "last", t, s4(t))
    OBVIOUS
  <2> HIDE DEF flags, given
  <2> QED
    BY <2>1, <2>2, <2>3
<1> HIDE DEF a, l1, l2, s1, j1, l3, s3, j3, s4, none
<1>2. CASE a.class # "STRING" /\ item = Item(id, "long", Yes, l1)
  BY <1>1, <1>2, ItemFields DEF FlagForm, a, l1
<1>3. CASE a.class # "STRING" /\ item = Item(id, "long", No, l2)
  BY <1>1, <1>3, ItemFields DEF FlagForm, a, l2
<1>4. CASE a.class # "STRING" /\ item = Item(id, "short", Yes, s1)
  <2>1. a.short # None
    BY <1>1, <1>4, ItemFields
  <2> QED
    BY <1>4, <2>1 DEF FlagForm, a, s1
<1>5. CASE a.class # "STRING" /\ item = Item(id, "joined", Yes, j1)
  <2>1. a.short # None
    BY <1>1, <1>5, ItemFields
  <2> QED
    BY <1>5, <2>1 DEF FlagForm, a, j1
<1>6. CASE a.class = "STRING" /\ item = Item(id, "long", none, l1)
  <2>1. a.long # None
    BY <1>1, <1>6, ItemFields
  <2> QED
    BY <1>6, <2>1 DEF StringForm, a, l1, none
<1>7. ASSUME NEW t \in Texts, a.class = "STRING",
             \/ item = Item(id, "long", t, l3(t))
             \/ item = Item(id, "short", t, s3(t))
             \/ item = Item(id, "joined", t, j3(t))
             \/ item = Item(id, "last", t, s4(t))
      PROVE  StringForm(item, id, a)
  <2>1. \/ a.long # None /\ item = Item(id, "long", t, l3(t))
        \/ a.short # None /\ item = Item(id, "short", t, s3(t))
        \/ a.short # None /\ item = Item(id, "joined", t, j3(t))
        \/ a.short # None /\ item = Item(id, "last", t, s4(t))
    BY <1>1, <1>7, ItemFields
  <2> QED
    BY <1>7, <2>1 DEF StringForm, l3, s3, j3, s4
<1> QED
  BY <1>1, <1>2, <1>3, <1>4, <1>5, <1>6, <1>7 DEF a

LEMMA SymbolTuples ==
  ASSUME NEW x \in Symbol, NEW y \in Symbol, NEW z \in Symbol
  PROVE  <<x>> \in Seq(Symbol) /\ <<x, y>> \in Seq(Symbol) /\ <<x, y, z>> \in Seq(Symbol)
OBVIOUS

LEMMA FormWords ==
  ASSUME NEW id, arguments[id] \in ArgumentRecord, NEW item \in Forms(id)
  PROVE  item.words \in Words /\ item.words # <<>>
<1> DEFINE a == arguments[id]
<1>1. a.long \in Symbol /\ a.short \in Symbol
  BY DEF ArgumentRecord
<1> HIDE DEF a
<1>2. /\ Dashed(a) \in Seq(Symbol) /\ Lettered(a) \in Seq(Symbol)
      /\ <<a.short>> \in Seq(Symbol) /\ <<"=">> \in Seq(Symbol) /\ <<"=", "false">> \in Seq(Symbol)
  BY <1>1, Symbols, SymbolTuples DEF Dashed, Lettered
<1>3. \A v \in Seq(Symbol) : <<v>> \in Words /\ <<v>> # <<>>
  BY DEF Words
<1>4. \A v, w \in Seq(Symbol) : /\ <<v, w>> \in Words /\ <<v, w>> # <<>>
                                /\ v \o w \in Seq(Symbol)
  BY DEF Words
<1>5. FlagForm(item, id, a) \/ StringForm(item, id, a)
  BY FormsAre DEF a
<1>6. CASE FlagForm(item, id, a)
  <2>1. \E form, v : \/ item = Item(id, form, v, <<Dashed(a)>>)
                     \/ item = Item(id, form, v, <<Dashed(a) \o <<"=", "false">>>>)
                     \/ item = Item(id, form, v, <<Lettered(a)>>)
                     \/ item = Item(id, form, v, <<<<a.short>>>>)
    BY <1>6 DEF FlagForm
  <2>2. \/ item.words = <<Dashed(a)>> \/ item.words = <<Dashed(a) \o <<"=", "false">>>>
        \/ item.words = <<Lettered(a)>> \/ item.words = <<<<a.short>>>>
    BY <2>1, ItemFields
  <2>3. Dashed(a) \o <<"=", "false">> \in Seq(Symbol)
    BY <1>2
  <2> DEFINE v1 == Dashed(a)
             v2 == Dashed(a) \o <<"=", "false">>
             v3 == Lettered(a)
             v4 == <<a.short>>
  <2>4. v1 \in Seq(Symbol) /\ v2 \in Seq(Symbol) /\ v3 \in Seq(Symbol) /\ v4 \in Seq(Symbol)
    BY <1>2, <2>3
  <2>5. item.words = <<v1>> \/ item.words = <<v2>> \/ item.words = <<v3>> \/ item.words = <<v4>>
    BY <2>2
  <2> HIDE DEF v1, v2, v3, v4
  <2> QED
    BY <1>3, <2>4, <2>5
<1>7. CASE StringForm(item, id, a)
  <2>1. CASE \E v : item = Item(id, "long", v, <<Dashed(a)>>)
    <3>1. item.words = <<Dashed(a)>>
      BY <2>1, ItemFields
    <3> QED
      BY <1>2, <1>3, <3>1
  <2>2. ASSUME NEW t \in Texts,
               \/ item = Item(id, "long", t, <<Dashed(a) \o <<"=">> \o t>>)
               \/ item = Item(id, "short", t, <<Lettered(a), t>>)
               \/ item = Item(id, "joined", t, <<<<a.short>>, t>>)
               \/ item = Item(id, "last", t, <<Lettered(a) \o t>>)
        PROVE  item.words \in Words /\ item.words # <<>>
    <3> DEFINE v1 == Dashed(a) \o <<"=">> \o t
               v2 == Lettered(a)
               v3 == <<a.short>>
               v4 == Lettered(a) \o t
    <3>1. t \in Seq(Symbol)
      BY SymbolSeqs
    <3>2. v1 \in Seq(Symbol) /\ v2 \in Seq(Symbol) /\ v3 \in Seq(Symbol) /\ v4 \in Seq(Symbol)
      BY <1>2, <1>4, <3>1
    <3>4. \/ item = Item(id, "long", t, <<v1>>) \/ item = Item(id, "short", t, <<v2, t>>)
          \/ item = Item(id, "joined", t, <<v3, t>>) \/ item = Item(id, "last", t, <<v4>>)
      BY <2>2
    <3> HIDE DEF v1, v2, v3, v4
    <3>3. \/ item.words = <<v1>> \/ item.words = <<v2, t>> \/ item.words = <<v3, t>>
          \/ item.words = <<v4>>
      BY <3>4, ItemFields
    <3> QED
      BY <1>3, <1>4, <3>1, <3>2, <3>3
  <2> QED
    BY <1>7, <2>1, <2>2 DEF StringForm
<1> QED
  BY <1>5, <1>6, <1>7

LEMMA KnownArguments ==
  ASSUME ArgsRight(arguments), handles \subseteq DOMAIN arguments, NEW item \in Items
  PROVE  \E id \in Known : /\ id \in DOMAIN arguments /\ arguments[id] \in ArgumentRecord
                           /\ item \in Forms(id)
<1>1. PICK id \in Known : item \in Forms(id)
  BY DEF Items
<1>2. id \in DOMAIN arguments
  BY DEF Known
<1>3. arguments[id] \in ArgumentRecord
  BY <1>2 DEF ArgsRight
<1> QED
  BY <1>1, <1>2, <1>3

Joining(v, w) == Front(v) \o <<Last(v) \o w[1]>> \o Tail(w)

LEMMA JoiningWords ==
  ASSUME NEW v \in Words, v # <<>>, NEW w \in Words, w # <<>>
  PROVE  Joining(v, w) \in Words
<1>1. Len(v) \in Nat \ {0} /\ Len(w) \in Nat \ {0}
  BY DEF Words
<1>2. v[Len(v)] \in Seq(Symbol) /\ w[1] \in Seq(Symbol)
  BY <1>1 DEF Words
<1>3. SubSeq(v, 1, Len(v) - 1) \in Words
  <2>1. \A i \in 1 .. Len(v) - 1 : i \in 1 .. Len(v)
    BY <1>1
  <2> QED
    BY <1>1, <2>1 DEF Words
<1>4. Tail(w) \in Words
  BY DEF Words
<1>5. v[Len(v)] \o w[1] \in Seq(Symbol)
  BY <1>2
<1>6. <<v[Len(v)] \o w[1]>> \in Words
  BY <1>5 DEF Words
<1>7. \A x, y \in Words : x \o y \in Words
  BY DEF Words
<1>8. Joining(v, w) = (SubSeq(v, 1, Len(v) - 1) \o <<v[Len(v)] \o w[1]>>) \o Tail(w)
  BY DEF Joining, Front, Last
<1> DEFINE x == SubSeq(v, 1, Len(v) - 1)
           y == <<v[Len(v)] \o w[1]>>
           z == Tail(w)
<1>9. x \in Words /\ y \in Words /\ z \in Words /\ Joining(v, w) = (x \o y) \o z
  BY <1>3, <1>4, <1>6, <1>8
<1> HIDE DEF x, y, z
<1> QED
  BY <1>7, <1>9

LEMMA WrittenIs ==
  ASSUME NEW items \in Wishes
  PROVE  \/ items = <<>> /\ Written(items) = <<>>
         \/ \E item \in Items : /\ item.form # "joined" /\ items = <<item>>
                                /\ Written(items) = item.words
         \/ \E first, second \in Items :
              /\ first.form # "joined" /\ MayFollow(first, second) /\ items = <<first, second>>
              /\ Written(items) = IF second.form = "joined" THEN Joining(first.words, second.words)
                                  ELSE first.words \o second.words
<1>1. CASE items = <<>>
  BY <1>1 DEF Written
<1>2. ASSUME NEW item \in Items, item.form # "joined", items = <<item>>
      PROVE  Written(items) = item.words
  <2>1. items # <<>> /\ Len(items) = 1 /\ items[1] = item
    BY <1>2
  <2> QED
    BY <2>1 DEF Written
<1>3. ASSUME NEW pair \in Items \X Items, pair[1].form # "joined", MayFollow(pair[1], pair[2]),
             items = pair
      PROVE  \E first, second \in Items :
              /\ first.form # "joined" /\ MayFollow(first, second) /\ items = <<first, second>>
              /\ Written(items) = IF second.form = "joined" THEN Joining(first.words, second.words)
                                  ELSE first.words \o second.words
  <2>1. PICK first, second \in Items : pair = <<first, second>>
    BY <1>3
  <2>2. items # <<>> /\ Len(items) = 2 /\ items[1] = first /\ items[2] = second
    BY <1>3, <2>1
  <2>3. Written(items) = IF second.form = "joined" THEN Joining(first.words, second.words)
                         ELSE first.words \o second.words
    BY <2>2 DEF Written, Joining
  <2> QED
    BY <1>3, <2>1, <2>2, <2>3
<1>4. \/ items = <<>>
      \/ \E item \in Items : item.form # "joined" /\ items = <<item>>
      \/ \E pair \in Items \X Items :
           pair[1].form # "joined" /\ MayFollow(pair[1], pair[2]) /\ items = pair
  BY DEF Wishes
<1> QED
  BY <1>1, <1>2, <1>3, <1>4

LEMMA WrittenWords ==
  ASSUME ArgsRight(arguments), handles \subseteq DOMAIN arguments, NEW items \in Wishes
  PROVE  Written(items) \in Words
<1>1. \A item \in Items : item.words \in Words /\ item.words # <<>>
  BY KnownArguments, FormWords
<1>2. \A x, y \in Words : x \o y \in Words
  BY DEF Words
<1>3. <<>> \in Words
  BY DEF Words
<1>4. ASSUME NEW first \in Items, NEW second \in Items,
             Written(items) = IF second.form = "joined" THEN Joining(first.words, second.words)
                              ELSE first.words \o second.words
      PROVE  Written(items) \in Words
  <2>1. Joining(first.words, second.words) \in Words
    BY <1>1, JoiningWords
  <2>2. first.words \o second.words \in Words
    BY <1>1, <1>2
  <2> QED
    BY <1>4, <2>1, <2>2
<1>5. \/ Written(items) = <<>>
      \/ \E item \in Items : Written(items) = item.words
      \/ \E first, second \in Items :
           Written(items) = IF second.form = "joined" THEN Joining(first.words, second.words)
                            ELSE first.words \o second.words
  BY WrittenIs
<1> QED
  BY <1>1, <1>3, <1>4, <1>5

End(dashes, words) == (IF dashes THEN <<<<"-", "-">>>> ELSE <<>>) \o words

LEMMA ArgvWords ==
  ASSUME ArgsRight(arguments), handles \subseteq DOMAIN arguments, NEW items \in Wishes,
         NEW unknown \in Unknowns, NEW dashes, NEW words \in Finals
  PROVE  /\ Written(items) \o unknown \o End(dashes, words) \in Words
         /\ unknown \in Words /\ End(dashes, words) \in Words
<1>1. Written(items) \in Words
  BY WrittenWords
<1>2. unknown \in Words
  <2>1. <<"-", "-", "zz">> \in Seq(Symbol) /\ <<"-", "z">> \in Seq(Symbol)
    BY Symbols, SymbolTuples
  <2>2. /\ \A w \in Seq(Symbol) : <<w>> \in Words
        /\ <<>> \in Words
    BY DEF Words
  <2>3. unknown = <<>> \/ unknown = <<<<"-", "-", "zz">>>> \/ unknown = <<<<"-", "z">>>>
    BY DEF Unknowns
  <2> QED
    BY <2>1, <2>2, <2>3
<1>3. words \in Words
  BY SymbolSeqs DEF Words
<1>4. \A x, y \in Words : x \o y \in Words
  BY DEF Words
<1> DEFINE d == IF dashes THEN <<<<"-", "-">>>> ELSE <<>>
<1>5. d \in Words
  <2>1. <<"-", "-">> \in Seq(Symbol)
    BY Symbols, SymbolTuples
  <2>2. \A w \in Seq(Symbol) : <<w>> \in Words
    BY DEF Words
  <2>3. <<<<"-", "-">>>> \in Words /\ <<>> \in Words
    BY <2>1, <2>2 DEF Words
  <2> QED
    BY <2>3
<1>6. End(dashes, words) = d \o words
  BY DEF End
<1> HIDE DEF d
<1> DEFINE w == Written(items)
           e == End(dashes, words)
<1>7. e \in Words
  BY <1>3, <1>4, <1>5, <1>6
<1>8. w \in Words
  BY <1>1
<1> HIDE DEF w, e
<1>9. w \o unknown \o e \in Words
  BY <1>2, <1>4, <1>7, <1>8
<1> QED
  BY <1>2, <1>7, <1>9 DEF w, e

-----------------------------------------------------------------------------
(* The names through every step.                                           *)
NamesInv ==
  /\ ArgsRight(arguments) /\ handles \subseteq DOMAIN arguments
  /\ IsTable(shortOptions, arguments, "short") /\ IsTable(longOptions, arguments, "long")

LEMMA ArgumentFields ==
  ASSUME NEW option \in Options
  PROVE  /\ Argument(option) \in ArgumentRecord
         /\ Argument(option).class = option.class /\ Argument(option).short = option.short
         /\ Argument(option).long = option.long /\ ~ Argument(option).set
         /\ Argument(option).value = IF option.class = "STRING" THEN <<>> ELSE FALSE
<1> DEFINE v == IF option.class = "STRING" THEN <<>> ELSE FALSE
<1>1. v \in BOOLEAN \cup Seq(Symbol)
  OBVIOUS
<1>2. /\ option.class \in {"BOOLEAN", "STRING", "HELP"}
      /\ option.short \in Symbol /\ option.long \in Symbol
  BY CommandLineAssumption, Symbols
<1>3. Argument(option) = [class |-> option.class, short |-> option.short, long |-> option.long,
                          set |-> FALSE, value |-> v]
  BY DEF Argument
<1> HIDE DEF v
<1> QED
  BY <1>1, <1>2, <1>3 DEF ArgumentRecord, v

LEMMA ArgsAppended ==
  ASSUME NEW args, ArgsRight(args), NEW option \in Options
  PROVE  ArgsRight(Append(args, Argument(option)))
<1> DEFINE a == Argument(option)
<1>1. a \in ArgumentRecord /\ a.short \in FieldNames("short") /\ a.long \in FieldNames("long")
  BY ArgumentFields DEF FieldNames
<1> HIDE DEF a
<1>2. args \in Seq(ArgumentRecord)
  BY DEF ArgsRight
<1> DEFINE both == Append(args, a)
<1>3. /\ both \in Seq(ArgumentRecord) /\ DOMAIN both = 1 .. Len(args) + 1
      /\ Len(args) \in Nat /\ DOMAIN args = 1 .. Len(args)
      /\ both[Len(args) + 1] = a /\ \A id \in 1 .. Len(args) : both[id] = args[id]
  BY <1>1, <1>2
<1> HIDE DEF both
<1> QED
  BY <1>1, <1>3 DEF ArgsRight, a, both

LEMMA ShortEntered ==
  ASSUME NEW args, ArgsRight(args), NEW d, IsTable(d, args, "short"), NEW option \in Options
  PROVE  IsTable(IF option.short = None THEN d ELSE Put(d, <<option.short>>, Len(args) + 1),
                 Append(args, Argument(option)), "short")
<1> DEFINE a == Argument(option)
           n == Len(args) + 1
           both == Append(args, a)
<1>1. a \in ArgumentRecord /\ a.short = option.short /\ args \in Seq(ArgumentRecord)
  BY ArgumentFields DEF ArgsRight
<1> HIDE DEF a
<1>2. both[n] = a
  BY <1>1
<1>3. \A name : EntersIn(both, n, "short", name) <=> name = option.short
  BY <1>1, <1>2 DEF EntersIn
<1>4. CASE option.short = None
  <2>1. \A name \in Named("short") : ~ EntersIn(both, n, "short", name)
    BY <1>3, <1>4 DEF Named
  <2>2. IsTable(d, both, "short")
    BY <1>1, <2>1, SameTable
  <2> QED
    BY <1>4, <2>2 DEF a
<1>5. CASE option.short # None
  <2>1. a.short \in Named("short") /\ EntersIn(both, n, "short", a.short)
    BY <1>1, <1>3, <1>5 DEF Named, FieldNames
  <2>2. a["short"] = a.short
    OBVIOUS
  <2>3. IsTable(Put(d, <<a["short"]>>, n), both, "short")
    BY <1>1, <2>1, <2>2, PutTable
  <2> QED
    BY <1>1, <1>5, <2>2, <2>3 DEF a
<1> QED
  BY <1>4, <1>5

(* newShort: nobody has the letter.                                        *)
LEMMA NewShort ==
  ASSUME NEW args, ArgsRight(args), NEW d, IsTable(d, args, "short"), NEW option \in Options
  PROVE  option.short = None \/ ~ Has(d, <<option.short>>)
           <=> \/ option.short = None
               \/ \A id \in DOMAIN args : args[id].short # option.short
<1>1. CASE option.short = None
  BY <1>1
<1>2. CASE option.short # None
  <2> DEFINE name == option.short
  <2>1. name \in Named("short")
    BY <1>2 DEF Named, FieldNames
  <2> HIDE DEF name
  <2>2. Has(d, <<name>>) <=> OwnerIn(args, "short", name) # 0
    BY <2>1, TableHas
  <2>3. DOMAIN args = 1 .. Len(args) /\ Len(args) \in Nat
    BY DEF ArgsRight
  <2>4. OwnerIn(args, "short", name) = 0 <=> Entering(args, "short", name) = {}
    BY <2>3, OwnerFacts
  <2>5. \A id \in DOMAIN args : id \in Entering(args, "short", name) <=> args[id].short = name
    BY DEF Entering, EntersIn
  <2>6. Entering(args, "short", name) \subseteq DOMAIN args
    BY DEF Entering
  <2>7. ~ Has(d, <<name>>) <=> \A id \in DOMAIN args : args[id].short # name
    BY <2>2, <2>4, <2>5, <2>6
  <2> QED
    BY <1>2, <2>7 DEF name
<1> QED
  BY <1>1, <1>2

LEMMA LongEntered ==
  ASSUME NEW args, ArgsRight(args), NEW d, IsTable(d, args, "long"), NEW option \in Options,
         NEW new \in BOOLEAN,
         new <=> \/ option.short = None
                 \/ \A id \in DOMAIN args : args[id].short # option.short
  PROVE  IsTable(IF option.long = None \/ ~ new THEN d ELSE Put(d, <<option.long>>, Len(args) + 1),
                 Append(args, Argument(option)), "long")
<1> DEFINE a == Argument(option)
           n == Len(args) + 1
           both == Append(args, a)
<1>1. /\ a \in ArgumentRecord /\ a.short = option.short /\ a.long = option.long
      /\ args \in Seq(ArgumentRecord)
  BY ArgumentFields DEF ArgsRight
<1> HIDE DEF a
<1>2. both[n] = a /\ DOMAIN args = 1 .. n - 1 /\ \A id \in 1 .. n - 1 : both[id] = args[id]
  BY <1>1
<1> HIDE DEF both
<1>3. \A name : EntersIn(both, n, "long", name) <=> name = option.long /\ new
  <2>1. (\A other \in 1 .. n - 1 : both[other].short # both[n].short \/ both[n].short = None) <=> new
    BY <1>1, <1>2
  <2>2. both[n]["long"] = option.long
    BY <1>1, <1>2
  <2> QED
    BY <2>1, <2>2 DEF EntersIn
<1>4. CASE option.long = None \/ ~ new
  <2>1. \A name \in Named("long") : ~ EntersIn(both, n, "long", name)
    BY <1>3, <1>4 DEF Named
  <2>2. IsTable(d, both, "long")
    BY <1>1, <2>1, SameTable DEF both
  <2> QED
    BY <1>4, <2>2 DEF a, both
<1>5. CASE option.long # None /\ new
  <2>1. a.long \in Named("long") /\ EntersIn(both, n, "long", a.long)
    BY <1>1, <1>3, <1>5 DEF Named, FieldNames
  <2>2. a["long"] = a.long
    OBVIOUS
  <2>3. IsTable(Put(d, <<a["long"]>>, n), both, "long")
    BY <1>1, <2>1, <2>2, PutTable DEF both
  <2> QED
    BY <1>1, <1>5, <2>2, <2>3 DEF a, both
<1> QED
  BY <1>4, <1>5

LEMMA ArgsKept ==
  ASSUME NEW a, ArgsRight(a), NEW b, Kept(b, a)
  PROVE  ArgsRight(b)
BY DEF ArgsRight, Kept

LEMMA NamesInit == Init => NamesInv
<1> SUFFICES ASSUME Init PROVE NamesInv
  OBVIOUS
<1>1. ArgsRight(<<>>)
  BY DEF ArgsRight
<1> QED
  BY <1>1, ClearedTable DEF Init, NamesInv

LEMMA NamesDefine ==
  ASSUME NamesInv, NEW option \in Options, Define(option)
  PROVE  NamesInv'
<1> DEFINE id == Len(arguments) + 1
           newShort == option.short = None \/ ~ Has(shortOptions, <<option.short>>)
<1>1. /\ arguments' = Append(arguments, Argument(option))
      /\ shortOptions' = IF option.short = None THEN shortOptions
                         ELSE Put(shortOptions, <<option.short>>, id)
      /\ longOptions' = IF option.long = None \/ ~ newShort THEN longOptions
                        ELSE Put(longOptions, <<option.long>>, id)
      /\ handles' \subseteq handles \cup {id}
  BY DEF Define
<1>2. newShort <=> \/ option.short = None
                   \/ \A i \in DOMAIN arguments : arguments[i].short # option.short
  BY NewShort DEF NamesInv
<1>3. ArgsRight(arguments')
  BY <1>1, ArgsAppended DEF NamesInv
<1>4. IsTable(shortOptions', arguments', "short")
  BY <1>1, ShortEntered DEF NamesInv
<1>5. IsTable(longOptions', arguments', "long")
  <2> DEFINE new == newShort
  <2>1. new \in BOOLEAN
    OBVIOUS
  <2>2. longOptions' = IF option.long = None \/ ~ new THEN longOptions
                       ELSE Put(longOptions, <<option.long>>, Len(arguments) + 1)
    BY <1>1
  <2>3. new <=> \/ option.short = None
                \/ \A i \in DOMAIN arguments : arguments[i].short # option.short
    BY <1>2
  <2> HIDE DEF new
  <2> QED
    BY <1>1, <2>1, <2>2, <2>3, LongEntered DEF NamesInv
<1>6. handles' \subseteq DOMAIN arguments'
  <2>1. ArgsRight(arguments) /\ handles \subseteq DOMAIN arguments
    BY DEF NamesInv
  <2>2. Argument(option) \in ArgumentRecord
    BY ArgumentFields
  <2>3. DOMAIN arguments' = DOMAIN arguments \cup {id}
    BY <1>1, <2>1, <2>2 DEF ArgsRight
  <2> QED
    BY <1>1, <2>1, <2>3
<1> QED
  BY <1>3, <1>4, <1>5, <1>6 DEF NamesInv

LEMMA NamesParse ==
  ASSUME NamesInv, UserParses
  PROVE  NamesInv'
<1>1. PICK items \in Wishes, unknown \in Unknowns, dashes \in BOOLEAN, words \in Finals :
        LET end == End(dashes, words)
            argv == Written(items) \o unknown \o end
        IN  Parse(argv, [items |-> items, unknown |-> unknown # <<>>, final |-> end])
  BY DEF UserParses, End
<1> DEFINE argv == Written(items) \o unknown \o End(dashes, words)
<1>2. argv \in Words
  BY ArgvWords DEF NamesInv
<1>3. /\ arguments' = Parsed(argv).arguments
      /\ UNCHANGED <<handles, shortOptions, longOptions>>
  BY <1>1 DEF Parse
<1> HIDE DEF argv
<1>4. Kept(arguments', arguments)
  BY <1>2, <1>3, ParsedKeeps DEF NamesInv, KeptScan
<1>5. ArgsRight(arguments') /\ arguments \in Seq(ArgumentRecord)
  BY <1>4, ArgsKept DEF NamesInv, ArgsRight
<1>6. IsTable(shortOptions, arguments', "short") /\ IsTable(longOptions, arguments', "long")
  BY <1>4, <1>5, KeptTable DEF NamesInv
<1>7. handles \subseteq DOMAIN arguments'
  BY <1>4 DEF Kept, NamesInv
<1> QED
  BY <1>3, <1>5, <1>6, <1>7 DEF NamesInv

(* For every set of options, hash function and table size, a name leads    *)
(* through collisions, wrap-around and rehashing to the argument that      *)
(* entered it last, a name nobody entered to null, and a slot of each      *)
(* table stays free.                                                       *)
THEOREM NamesFoundAlways == Spec => []NamesFound
<1>1. NamesInv /\ [Next]_vars => NamesInv'
  <2> SUFFICES ASSUME NamesInv, [Next]_vars PROVE NamesInv'
    OBVIOUS
  <2>1. CASE UNCHANGED vars
    BY <2>1 DEF vars, NamesInv
  <2> QED
    BY <2>1, NamesDefine, NamesParse DEF Next
<1>2. NamesInv => NamesFound
  BY TableIsMap DEF NamesInv, NamesFound
<1> QED
  BY <1>1, <1>2, NamesInit, PTL DEF Spec

-----------------------------------------------------------------------------
(* How a long option splits into its name and its value.                   *)
Text == Seq(Symbol)
IsJoin(r, s, t) == r = s \o t

Joined(r, s, t) ==
  /\ Len(r) = Len(s) + Len(t) /\ Len(s) \in Nat /\ Len(t) \in Nat
  /\ \A i \in 1 .. Len(s) : r[i] = s[i]
  /\ \A i \in 1 .. Len(t) : r[Len(s) + i] = t[i]

(* A part of a text.                                                       *)
IsPart(r, s, m, n) == r = SubSeq(s, m, n)

LEMMA TextPart ==
  ASSUME NEW s \in Text, NEW m \in Nat \ {0}, NEW n \in Nat, n <= Len(s), m <= n + 1, NEW r, IsPart(r, s, m, n)
  PROVE  /\ r \in Text /\ Len(r) = n - m + 1
         /\ \A i \in 1 .. n - m + 1 : r[i] = s[i + m - 1]
<1>1. Len(s) \in Nat
  BY DEF Text
<1>2. \A i \in m .. n : i \in 1 .. Len(s)
  BY <1>1
<1>3. Len(r) = n - m + 1 /\ \A i \in 1 .. n - m + 1 : r[i] = s[i + m - 1]
  BY <1>1 DEF IsPart
<1>4. r \in Text
  BY <1>1, <1>2 DEF IsPart, Text
<1> QED
  BY <1>3, <1>4

PartFields(r, s, k, l) ==
  r \in Text /\ Len(r) = l /\ \A i \in 1 .. l : r[i] = s[i + k]

LEMMA TextPartIs ==
  ASSUME NEW s \in Text, NEW m \in Nat \ {0}, NEW n \in Nat, n <= Len(s), m <= n + 1,
         NEW r, IsPart(r, s, m, n), NEW k, k = m - 1, NEW l, l = n - k
  PROVE  PartFields(r, s, k, l)
<1>1. l = n - m + 1 /\ \A i \in Int : i + k = i + m - 1
  OBVIOUS
<1>2. /\ r \in Text /\ Len(r) = n - m + 1
      /\ \A i \in 1 .. n - m + 1 : r[i] = s[i + m - 1]
  BY TextPart
<1> QED
  BY <1>1, <1>2 DEF PartFields

LEMMA TextOne ==
  ASSUME NEW n \in Symbol
  PROVE  <<n>> \in Text /\ Len(<<n>>) = 1 /\ <<n>>[1] = n
BY DEF Text

LEMMA TextJoin ==
  ASSUME NEW s \in Text, NEW t \in Text, NEW r, IsJoin(r, s, t)
  PROVE  r \in Text /\ Joined(r, s, t)
<1>1. Len(s) \in Nat /\ Len(t) \in Nat
  BY DEF Text
<1>2. r \in Text /\ Len(r) = Len(s) + Len(t)
  BY DEF IsJoin, Text
<1>3. \A i \in 1 .. Len(s) : r[i] = s[i]
  BY DEF IsJoin, Text
<1>4. \A i \in 1 .. Len(t) : r[Len(s) + i] = t[i]
  BY DEF IsJoin, Text
<1> QED
  BY <1>1, <1>2, <1>3, <1>4 DEF Joined

LEMMA TextEqual ==
  ASSUME NEW s \in Text, NEW t \in Text, Len(s) = Len(t), \A i \in 1 .. Len(s) : s[i] = t[i]
  PROVE  s = t
BY DEF Text

LEMMA WordsJoin ==
  ASSUME NEW s \in Words, NEW t \in Words, NEW r, IsJoin(r, s, t)
  PROVE  r \in Words /\ Joined(r, s, t)
<1>1. Len(s) \in Nat /\ Len(t) \in Nat
  BY DEF Words
<1>2. r \in Words /\ Len(r) = Len(s) + Len(t)
  BY DEF IsJoin, Words
<1>3. \A i \in 1 .. Len(s) : r[i] = s[i]
  BY DEF IsJoin, Words
<1>4. \A i \in 1 .. Len(t) : r[Len(s) + i] = t[i]
  BY DEF IsJoin, Words
<1> QED
  BY <1>1, <1>2, <1>3, <1>4 DEF Joined

LEMMA EqualsAt ==
  ASSUME NEW body \in Text, NEW n \in Nat,
         IF n = 0 THEN \A i \in 1 .. Len(body) : body[i] # "="
         ELSE /\ n \in 1 .. Len(body) /\ body[n] = "="
              /\ \A i \in 1 .. n - 1 : body[i] # "="
  PROVE  SelectInSeq(body, LAMBDA c : c = "=") = n
<1> DEFINE I == {i \in 1 .. Len(body) : body[i] = "="}
           equals == SelectInSeq(body, LAMBDA c : c = "=")
<1>1. equals = IF I # {} THEN Min(I) ELSE 0
  BY DEF SelectInSeq
<1>2. CASE n = 0
  <2>1. I = {}
    BY <1>2
  <2> QED
    BY <1>1, <1>2, <2>1
<1>3. CASE n # 0
  <2>1. n \in I /\ \A i \in I : n <= i
    <3>1. n \in I
      BY <1>3
    <3>2. ASSUME NEW i \in I PROVE n <= i
      <4>1. i \in 1 .. Len(body) /\ body[i] = "="
        OBVIOUS
      <4>2. i \notin 1 .. n - 1
        BY <1>3, <4>1
      <4> QED
        BY <4>1, <4>2
    <3> QED
      BY <3>1, <3>2
  <2>2. \A i \in I : i \in Int
    OBVIOUS
  <2> HIDE DEF I
  <2>3. \E m \in I : \A i \in I : m <= i
    BY <2>1
  <2>4. Min(I) \in I /\ \A i \in I : Min(I) <= i
    BY <2>3 DEF Min
  <2>5. Min(I) = n
    <3> DEFINE m == Min(I)
    <3>1. m \in I /\ m <= n /\ n <= m
      BY <2>1, <2>4
    <3>2. m \in Int /\ n \in Int
      BY <2>2, <3>1
    <3> HIDE DEF m
    <3>3. m = n
      BY <3>1, <3>2
    <3> QED
      BY <3>3 DEF m
  <2> HIDE DEF equals
  <2> QED
    BY <1>1, <2>1, <2>5 DEF equals
<1> QED
  BY <1>2, <1>3

LEMMA SplitsName ==
  ASSUME NEW n \in Symbol, n # "="
  PROVE  Splits(<<"-", "-", n>>, <<n>>, <<>>)
<1> DEFINE word == <<"-", "-", n>>
           body == SubSeq(word, 3, Len(word))
<1>1. word \in Text /\ Len(word) = 3 /\ word[3] = n
  BY Symbols, SymbolTuples DEF Text
<1> HIDE DEF word
<1>6. IsPart(body, word, 3, Len(word))
  BY DEF IsPart
<1> HIDE DEF body
<1>2. body \in Text /\ Len(body) = 1 /\ body[1] = n
  <2>1. PartFields(body, word, 2, 1)
    BY <1>1, <1>6, TextPartIs
  <2>2. Len(body) = 1 /\ \A i \in 1 .. 1 : body[i] = word[i + 2]
    BY <2>1 DEF PartFields
  <2>3. 1 \in 1 .. 1 /\ 1 + 2 = 3
    OBVIOUS
  <2>5. body[1] = word[3]
    BY <2>2, <2>3
  <2> QED
    BY <1>1, <2>1, <2>2, <2>5 DEF PartFields
<1> DEFINE key == <<n>>
<1>3. key \in Text /\ Len(key) = 1 /\ key[1] = n
  BY TextOne
<1> HIDE DEF key
<1>4. body = key
  <2>1. \A i \in 1 .. Len(body) : body[i] = key[i]
    BY <1>2, <1>3
  <2> QED
    BY <1>2, <1>3, <2>1, TextEqual
<1>5. SelectInSeq(body, LAMBDA c : c = "=") = 0
  <2>1. \A i \in 1 .. Len(body) : body[i] # "="
    BY <1>2
  <2> QED
    BY <1>2, <2>1, EqualsAt
<1> QED
  BY <1>4, <1>5 DEF Splits, word, key, body

Valued(n, t) == <<"-", "-", n>> \o <<"=">> \o t

LEMMA ValuedFields ==
  ASSUME NEW n \in Symbol, NEW t \in Text
  PROVE  /\ Valued(n, t) \in Text /\ Len(Valued(n, t)) = Len(t) + 4
         /\ Valued(n, t)[1] = "-" /\ Valued(n, t)[2] = "-" /\ Valued(n, t)[3] = n
         /\ Valued(n, t)[4] = "="
         /\ \A i \in 1 .. Len(t) : Valued(n, t)[i + 4] = t[i]
<1> DEFINE x == <<"-", "-", n>>
           y == <<"=">>
<1>1. /\ x \in Text /\ Len(x) = 3 /\ x[1] = "-" /\ x[2] = "-" /\ x[3] = n
      /\ y \in Text /\ Len(y) = 1 /\ y[1] = "="
  BY Symbols, SymbolTuples DEF Text
<1>2. Valued(n, t) = (x \o y) \o t
  BY DEF Valued
<1> HIDE DEF x, y
<1> DEFINE z == x \o y
<1>3. /\ z \in Text /\ Len(z) = 4 /\ z[1] = "-" /\ z[2] = "-" /\ z[3] = n /\ z[4] = "="
  <2>4. IsJoin(z, x, y)
    BY DEF IsJoin
  <2> HIDE DEF z
  <2>5. z \in Text /\ Joined(z, x, y)
    BY <1>1, <2>4, TextJoin
  <2>1. /\ z \in Text /\ Len(z) = Len(x) + Len(y)
        /\ \A i \in 1 .. Len(x) : z[i] = x[i]
        /\ \A i \in 1 .. Len(y) : z[Len(x) + i] = y[i]
    BY <2>5 DEF Joined
  <2>2. 1 \in 1 .. Len(x) /\ 2 \in 1 .. Len(x) /\ 3 \in 1 .. Len(x) /\ 1 \in 1 .. Len(y)
        /\ Len(x) + 1 = 4
    BY <1>1
  <2>3. z[Len(x) + 1] = y[1]
    BY <2>1, <2>2
  <2> QED
    BY <1>1, <2>1, <2>2, <2>3
<1>4. Valued(n, t) = z \o t
  BY <1>2
<1> HIDE DEF z
<1> DEFINE v == z \o t
<1>10. IsJoin(v, z, t)
  BY DEF IsJoin
<1> HIDE DEF v
<1>11. v \in Text /\ Joined(v, z, t)
  BY <1>3, <1>10, TextJoin
<1>5. /\ v \in Text /\ Len(v) = Len(z) + Len(t) /\ Len(t) \in Nat
      /\ \A i \in 1 .. Len(z) : v[i] = z[i]
      /\ \A i \in 1 .. Len(t) : v[Len(z) + i] = t[i]
  BY <1>11 DEF Joined
<1>6. 1 \in 1 .. Len(z) /\ 2 \in 1 .. Len(z) /\ 3 \in 1 .. Len(z) /\ 4 \in 1 .. Len(z)
  BY <1>3
<1>7. v[1] = "-" /\ v[2] = "-" /\ v[3] = n /\ v[4] = "="
  BY <1>3, <1>5, <1>6
<1>8. ASSUME NEW i \in 1 .. Len(t) PROVE v[i + 4] = t[i]
  <2>1. Len(z) + i = i + 4
    BY <1>3
  <2> QED
    BY <1>5, <2>1
<1>9. Len(v) = Len(t) + 4
  BY <1>3, <1>5
<1> QED
  BY <1>4, <1>5, <1>7, <1>8, <1>9 DEF v

LEMMA SplitsValue ==
  ASSUME NEW n \in Symbol, n # "=", NEW t \in Text
  PROVE  Splits(Valued(n, t), <<n>>, t)
<1> DEFINE word == Valued(n, t)
           body == SubSeq(word, 3, Len(word))
           key == <<n>>
<1>1. /\ word \in Text /\ Len(word) = Len(t) + 4 /\ word[3] = n /\ word[4] = "="
      /\ \A i \in 1 .. Len(t) : word[i + 4] = t[i]
  BY ValuedFields
<1>2. Len(t) \in Nat
  BY DEF Text
<1> HIDE DEF word
<1>11. IsPart(body, word, 3, Len(word))
  BY DEF IsPart
<1> HIDE DEF body
<1>3. /\ body \in Text /\ Len(body) = Len(t) + 2 /\ body[1] = n /\ body[2] = "="
      /\ \A i \in 1 .. Len(t) + 2 : body[i] = word[i + 2]
  <2>1. 3 <= Len(word) + 1 /\ Len(word) \in Nat
    BY <1>1, <1>2
  <2>2. body \in Text /\ Len(body) = Len(word) - 3 + 1
        /\ \A i \in 1 .. Len(word) - 3 + 1 : body[i] = word[i + 3 - 1]
    BY <1>1, <1>11, <2>1, TextPart
  <2>3. Len(word) - 3 + 1 = Len(t) + 2 /\ \A i \in Int : i + 3 - 1 = i + 2
    BY <1>1, <1>2
  <2>4. \A i \in 1 .. Len(t) + 2 : body[i] = word[i + 2]
    BY <2>2, <2>3
  <2>5. 1 \in 1 .. Len(t) + 2 /\ 2 \in 1 .. Len(t) + 2
    BY <1>2
  <2>6. body[1] = word[3] /\ body[2] = word[4]
    BY <2>4, <2>5
  <2> QED
    BY <1>1, <2>2, <2>3, <2>4, <2>6
<1>4. SelectInSeq(body, LAMBDA c : c = "=") = 2
  <2>1. 2 \in 1 .. Len(body) /\ \A i \in 1 .. 2 - 1 : body[i] # "="
    BY <1>2, <1>3
  <2> QED
    BY <1>3, <2>1, EqualsAt
<1>5. SubSeq(body, 1, 2 - 1) = key
  <2> DEFINE s == SubSeq(body, 1, 2 - 1)
  <2>5. IsPart(s, body, 1, 1)
    BY DEF IsPart
  <2> HIDE DEF s
  <2>6. 1 <= Len(body) /\ 1 \in Nat \ {0} /\ 1 <= 1 + 1
    BY <1>2, <1>3
  <2>7. PartFields(s, body, 0, 1)
    BY <1>3, <2>5, <2>6, TextPartIs
  <2>8. 1 \in 1 .. 1 /\ 1 + 0 = 1
    OBVIOUS
  <2>1. s \in Text /\ Len(s) = 1 /\ s[1] = n
    BY <1>3, <2>7, <2>8 DEF PartFields
  <2>2. key \in Text /\ Len(key) = 1 /\ key[1] = n
    BY TextOne
  <2> HIDE DEF key
  <2>3. \A i \in 1 .. Len(s) : s[i] = key[i]
    BY <2>1, <2>2
  <2>4. s = key
    BY <2>1, <2>2, <2>3, TextEqual
  <2> QED
    BY <2>4 DEF s
<1>6. SubSeq(body, 2 + 1, Len(body)) = t
  <2> DEFINE s == SubSeq(body, 2 + 1, Len(body))
  <2>4. IsPart(s, body, 3, Len(body))
    BY DEF IsPart
  <2> HIDE DEF s
  <2>1. s \in Text /\ Len(s) = Len(t) /\ \A i \in 1 .. Len(t) : s[i] = body[i + 2]
    <3>1. 3 <= Len(body) + 1 /\ Len(body) \in Nat
      BY <1>2, <1>3
    <3>2. s \in Text /\ Len(s) = Len(body) - 3 + 1
          /\ \A i \in 1 .. Len(body) - 3 + 1 : s[i] = body[i + 3 - 1]
      BY <1>3, <2>4, <3>1, TextPart
    <3>3. Len(body) - 3 + 1 = Len(t) /\ \A i \in Int : i + 3 - 1 = i + 2
      BY <1>2, <1>3
    <3> QED
      BY <3>2, <3>3
  <2>2. ASSUME NEW i \in 1 .. Len(t) PROVE s[i] = t[i]
    <3>1. i + 2 \in 1 .. Len(t) + 2 /\ i + 2 + 2 = i + 4
      BY <1>2
    <3>2. body[i + 2] = word[i + 2 + 2]
      BY <1>3, <3>1
    <3> QED
      BY <1>1, <2>1, <3>1, <3>2
  <2>3. s = t
    BY <2>1, <2>2, TextEqual
  <2> QED
    BY <2>3 DEF s
<1>7. /\ key = SubSeq(body, 1, 2 - 1)
      /\ t = SubSeq(body, 2 + 1, Len(body))
      /\ SelectInSeq(body, LAMBDA c : c = "=") = 2
  BY <1>4, <1>5, <1>6
<1> DEFINE equals == SelectInSeq(body, LAMBDA c : c = "=")
<1>8. Splits(word, key, t) <=>
        /\ key = IF equals = 0 THEN body ELSE SubSeq(body, 1, equals - 1)
        /\ t = IF equals = 0 THEN <<>> ELSE SubSeq(body, equals + 1, Len(body))
  BY DEF Splits, body
<1> HIDE DEF key, equals
<1>9. equals = 2
  BY <1>4 DEF equals
<1>10. Splits(word, key, t)
  BY <1>7, <1>8, <1>9
<1> QED
  BY <1>10 DEF word, key

LEMMA FalseValued ==
  ASSUME NEW n \in Symbol
  PROVE  <<"-", "-", n>> \o <<"=", "false">> = Valued(n, <<"false">>)
<1> DEFINE x == <<"-", "-", n>>
           y == <<"=", "false">>
           f == <<"false">>
           w == x \o y
           v == Valued(n, f)
<1>1. /\ x \in Text /\ Len(x) = 3 /\ x[1] = "-" /\ x[2] = "-" /\ x[3] = n
      /\ y \in Text /\ Len(y) = 2 /\ y[1] = "=" /\ y[2] = "false"
      /\ f \in Text /\ Len(f) = 1 /\ f[1] = "false"
  BY Symbols, SymbolTuples DEF Text
<1> HIDE DEF x, y, f
<1>2. /\ w \in Text /\ Len(w) = 5 /\ w[1] = "-" /\ w[2] = "-" /\ w[3] = n /\ w[4] = "="
      /\ w[5] = "false"
  <2>4. IsJoin(w, x, y)
    BY DEF IsJoin
  <2> HIDE DEF w
  <2>5. w \in Text /\ Joined(w, x, y)
    BY <1>1, <2>4, TextJoin
  <2>1. /\ w \in Text /\ Len(w) = Len(x) + Len(y)
        /\ \A i \in 1 .. Len(x) : w[i] = x[i]
        /\ \A i \in 1 .. Len(y) : w[Len(x) + i] = y[i]
    BY <2>5 DEF Joined
  <2>2. 1 \in 1 .. Len(x) /\ 2 \in 1 .. Len(x) /\ 3 \in 1 .. Len(x) /\ 1 \in 1 .. Len(y)
        /\ 2 \in 1 .. Len(y) /\ Len(x) + 1 = 4 /\ Len(x) + 2 = 5
    BY <1>1
  <2>3. w[Len(x) + 1] = y[1] /\ w[Len(x) + 2] = y[2]
    BY <2>1, <2>2
  <2> QED
    BY <1>1, <2>1, <2>2, <2>3
<1>3. /\ v \in Text /\ Len(v) = Len(f) + 4 /\ v[1] = "-" /\ v[2] = "-" /\ v[3] = n
      /\ v[4] = "=" /\ \A i \in 1 .. Len(f) : v[i + 4] = f[i]
  BY <1>1, ValuedFields
<1> HIDE DEF w, v
<1>4. Len(v) = 5 /\ v[5] = "false"
  <2>1. 1 \in 1 .. Len(f) /\ 1 + 4 = 5
    BY <1>1
  <2> QED
    BY <1>1, <1>3, <2>1
<1>5. \A i \in 1 .. 5 : w[i] = v[i]
  BY <1>2, <1>3, <1>4
<1>6. w = v
  BY <1>2, <1>3, <1>4, <1>5, TextEqual
<1> QED
  BY <1>6 DEF w, v, x, y, f

-----------------------------------------------------------------------------
(* What the names an option is written with lead to.  Nobody later has     *)
(* them, and the long name of an argument the client has a pointer to was  *)
(* entered.                                                                *)
Fresh ==
  /\ \A id \in DOMAIN arguments :
       /\ ~ arguments[id].set
       /\ arguments[id].value = IF arguments[id].class = "STRING" THEN <<>> ELSE FALSE
  /\ \A id \in handles : \A other \in 1 .. id - 1 :
       arguments[other].short # arguments[id].short \/ arguments[id].short = None
  /\ helpArgument \in {0} \cup DOMAIN arguments
  /\ helpArgument # 0 => arguments[helpArgument].class = "HELP"

LEMMA KnownNames ==
  ASSUME NamesInv, Fresh, NEW id \in Known
  PROVE  /\ id \in DOMAIN arguments /\ arguments[id] \in ArgumentRecord
         /\ arguments[id].short # None => /\ Get(shortOptions, <<arguments[id].short>>) = id
                                          /\ arguments[id].short # "-"
         /\ arguments[id].long # None => /\ Get(longOptions, <<arguments[id].long>>) = id
                                         /\ arguments[id].long # "="
<1> DEFINE a == arguments[id]
<1>1. /\ id \in DOMAIN arguments /\ arguments[id] \in ArgumentRecord
      /\ DOMAIN arguments = 1 .. Len(arguments) /\ Len(arguments) \in Nat
      /\ a.short \in FieldNames("short") /\ a.long \in FieldNames("long")
  BY DEF Known, NamesInv, ArgsRight
<1>2. ASSUME NEW field \in {"short", "long"}, a[field] # None, EntersIn(arguments, id, field, a[field])
      PROVE  OwnerIn(arguments, field, a[field]) = id
  <2> DEFINE name == a[field]
  <2>1. id \in Entering(arguments, field, name)
    BY <1>1, <1>2 DEF Entering
  <2>2. ASSUME NEW other \in Entering(arguments, field, name) PROVE other <= id
    <3>1. other \in DOMAIN arguments /\ arguments[other][field] = name
      BY DEF Entering, EntersIn
    <3>2. name \in Names(other) /\ name \in Names(id)
      BY <1>2, <3>1 DEF Names
    <3>3. ~ other > id
      BY <3>1, <3>2 DEF Known
    <3> QED
      BY <1>1, <3>1, <3>3
  <2> HIDE DEF name
  <2> QED
    BY <1>1, <2>1, <2>2, OwnerLast DEF name
<1>3. ASSUME a.short # None PROVE Get(shortOptions, <<a.short>>) = id
  <2>1. a["short"] = a.short /\ EntersIn(arguments, id, "short", a.short)
    BY DEF EntersIn
  <2>2. OwnerIn(arguments, "short", a.short) = id
    BY <1>2, <1>3, <2>1
  <2> QED
    BY <1>1, <1>3, <2>2 DEF NamesInv, IsTable, Named
<1>4. ASSUME a.long # None PROVE Get(longOptions, <<a.long>>) = id
  <2>1. a["long"] = a.long /\ EntersIn(arguments, id, "long", a.long)
    BY DEF EntersIn, Fresh, Known
  <2>2. OwnerIn(arguments, "long", a.long) = id
    BY <1>2, <1>4, <2>1
  <2> QED
    BY <1>1, <1>4, <2>2 DEF NamesInv, IsTable, Named
<1>5. a.short # "-" /\ a.long # "="
  BY <1>1, CommandLineAssumption DEF FieldNames
<1> QED
  BY <1>1, <1>3, <1>4, <1>5

(* The names of no option.                                                 *)
LEMMA UnknownNames ==
  ASSUME NamesInv
  PROVE  Get(shortOptions, <<"z">>) = 0 /\ Get(longOptions, <<"zz">>) = 0
<1>1. ASSUME NEW d, NEW field \in {"short", "long"}, IsTable(d, arguments, field),
             NEW name \in {"z", "zz"}, name \notin FieldNames(field)
      PROVE  Get(d, <<name>>) = 0
  <2>1. <<name>> \in AllKeys
    BY DEF AllKeys
  <2>2. Sound(d, AllKeys) /\ d.count < d.allocated
    BY <1>1 DEF IsTable, Roomy
  <2>3. \A m : <<name>> = <<m>> => name = m
    <3> TAKE m
    <3>1. <<name>>[1] = name /\ <<m>>[1] = m
      OBVIOUS
    <3> QED
      BY <3>1
  <2>4. <<name>> \notin KeysOf(d)
    BY <1>1, <2>3 DEF IsTable, Keys, OwnedIn, Named
  <2> QED
    BY <2>1, <2>2, <2>4, Lookups
<1>2. "z" \notin FieldNames("short") /\ "zz" \notin FieldNames("long")
  BY CommandLineAssumption DEF FieldNames
<1> QED
  BY <1>1, <1>2 DEF NamesInv


-----------------------------------------------------------------------------
(* After p words the loop stands at the next one, with these arguments; the *)
(* next one is this.                                                       *)
At(argv, p, args) == Reading(argv)[p] = Scan(args, p + 1, No, No, No)
IsNext(argv, p, word) == p \in 0 .. Len(argv) - 1 /\ argv[p + 1] = word

LongWord(word) == word \in Text /\ Len(word) >= 3 /\ word[1] = "-" /\ word[2] = "-"
ShortWord(word) == word \in Text /\ Len(word) >= 2 /\ word[1] = "-" /\ word[2] # "-"

LEMMA DashesOf ==
  ASSUME NEW word
  PROVE  /\ LongWord(word) => Dashes(word) = 2 /\ word # <<"-", "-">>
         /\ ShortWord(word) => Dashes(word) = 1 /\ word # <<"-", "-">>
<1>1. Len(<<"-", "-">>) = 2 /\ <<"-", "-">>[2] = "-"
  OBVIOUS
<1>2. word \in Text /\ Len(word) >= 2 => word # <<>> /\ Len(word) > 1
  BY DEF Text
<1>3. LongWord(word) => Dashes(word) = 2
  BY <1>2 DEF LongWord, Dashes, Text
<1>4. ShortWord(word) => Dashes(word) = 1
  BY <1>2 DEF ShortWord, Dashes, Text
<1> DEFINE d == <<"-", "-">>
<1>5. Len(d) = 2 /\ d[2] = "-"
  BY <1>1
<1> HIDE DEF d
<1>6. LongWord(word) => word # d
  <2> SUFFICES ASSUME LongWord(word), word = d PROVE FALSE
    OBVIOUS
  <2>1. Len(word) = 2 /\ Len(word) >= 3
    BY <1>5 DEF LongWord
  <2> DEFINE l == Len(word)
  <2>2. l = 2 /\ l >= 3
    BY <2>1
  <2> HIDE DEF l
  <2> QED
    BY <2>2
<1>7. ShortWord(word) => word # d
  BY <1>5 DEF ShortWord
<1> QED
  BY <1>3, <1>4, <1>6, <1>7 DEF d

LEMMA WordAt ==
  ASSUME NEW argv \in Words, NEW p, NEW args, NEW word, IsNext(argv, p, word), At(argv, p, args)
  PROVE  Reading(argv)[p + 1] =
           IF Dashes(word) = 0 \/ word = <<"-", "-">> THEN Scan(args, p + 1, No, No, Yes)
           ELSE IF Dashes(word) = 2 THEN LongOption(Scan(args, p + 1, No, No, No), word)
           ELSE ShortOptions(Scan(args, p + 1, No, No, No), argv)
<1> DEFINE s == Scan(args, p + 1, No, No, No)
           n == p + 1
           f == Reading(argv)
<1>1. Len(argv) \in Nat
  BY DEF Words
<1>2. n \in 1 .. Len(argv) /\ n - 1 = p /\ argv[n] = word
  BY <1>1 DEF IsNext
<1>3. f[n] = Word(f[n - 1], n, argv)
  BY <1>1, <1>2, ReadingSteps
<1>4. f[n - 1] = s
  BY <1>2 DEF At
<1>5. s.i = n /\ s.unknown = No /\ s.ended = No
  BY ScanFields
<1>6. SetEnded(s, Yes) = Scan(args, n, No, No, Yes)
  BY ScanEnded
<1> HIDE DEF s, n, f
<1>7. ~ s.unknown /\ ~ s.ended
  BY <1>5 DEF No
<1>8. Word(s, n, argv) = IF Dashes(word) = 0 \/ word = <<"-", "-">> THEN SetEnded(s, Yes)
                         ELSE IF Dashes(word) = 2 THEN LongOption(s, word)
                         ELSE ShortOptions(s, argv)
  BY <1>2, <1>5, <1>7 DEF Word, SetEnded, Yes
<1> QED
  BY <1>3, <1>4, <1>6, <1>8 DEF s, n, f

(* A word another one's letter has taken.                                  *)
LEMMA WordSkipped ==
  ASSUME NEW argv \in Words, NEW p, NEW args, p \in 0 .. Len(argv) - 1,
         Reading(argv)[p] = Scan(args, p + 2, No, No, No)
  PROVE  At(argv, p + 1, args)
<1> DEFINE s == Scan(args, p + 2, No, No, No)
           n == p + 1
           f == Reading(argv)
<1>1. Len(argv) \in Nat
  BY DEF Words
<1>2. n \in 1 .. Len(argv) /\ n - 1 = p /\ n # p + 2 /\ n + 1 = p + 2
  BY <1>1
<1>3. f[n] = Word(f[n - 1], n, argv)
  BY <1>1, <1>2, ReadingSteps
<1>4. s.i = p + 2
  BY ScanFields
<1> HIDE DEF s, n, f
<1>5. Word(s, n, argv) = s
  BY <1>2, <1>4 DEF Word
<1>6. f[n] = s
  BY <1>2, <1>3, <1>5 DEF f, s
<1> QED
  BY <1>2, <1>6 DEF At, f, s, n

(* Behind an unknown name, or a word that is no option, nothing is read.   *)
LEMMA NothingRead ==
  ASSUME NEW argv \in Words, NEW p, p \in 0 .. Len(argv), NEW s, Reading(argv)[p] = s,
         s.unknown = Yes \/ s.ended = Yes
  PROVE  Parsed(argv) = s
<1> DEFINE f == Reading(argv)
           L == Len(argv)
           Bad == {q \in p .. L : f[q] # s}
<1>1. L \in Nat
  BY DEF Words
<1>2. \A j \in 1 .. L : f[j] = Word(f[j - 1], j, argv)
  BY <1>1, ReadingSteps
<1>3. s.unknown \/ s.ended
  BY DEF Yes
<1>4. \A j : Word(s, j, argv) = s
  BY <1>3 DEF Word
<1> HIDE DEF f, L
<1>5. Bad = {}
  <2>1. SUFFICES ASSUME Bad # {} PROVE FALSE
    OBVIOUS
  <2>2. PICK j \in Bad : \A k \in Bad : j <= k
    <3>1. Bad \in SUBSET Nat
      BY <1>1 DEF L
    <3> HIDE DEF Bad
    <3> QED
      BY <2>1, <3>1, Least
  <2>3. j \in p .. L /\ f[j] # s /\ j # p
    BY DEF f
  <2>4. j - 1 \in p .. L /\ j \in 1 .. L /\ j - 1 \notin Bad
    BY <1>1, <2>2, <2>3 DEF L
  <2>5. f[j - 1] = s
    BY <2>4
  <2> QED
    BY <1>2, <1>4, <2>3, <2>4, <2>5
<1>6. f[L] = s
  BY <1>1, <1>5 DEF L
<1> QED
  BY <1>6, ParsedIs DEF f, L

LEMMA LongRead ==
  ASSUME NEW argv \in Words, NEW p, NEW args, NEW word, IsNext(argv, p, word), At(argv, p, args),
         LongWord(word), NEW key, NEW value, Splits(word, key, value), NEW b, b = Get(longOptions, key)
  PROVE  IF b = 0 THEN Reading(argv)[p + 1] = Scan(args, p + 1, No, Yes, No)
         ELSE At(argv, p + 1, Given(args, b, value))
<1> DEFINE r == Reading(argv)[p + 1]
           s == Scan(args, p + 1, No, No, No)
<1>1. r = LongOption(s, word)
  BY DashesOf, WordAt
<1>2. LongOption(s, word) =
        IF b = 0 THEN Scan(args, p + 1, No, Yes, No)
        ELSE Scan(Given(args, b, value), p + 1 + 1, No, No, No)
  BY LongIs
<1> HIDE DEF s
<1> QED
  BY <1>1, <1>2 DEF At

(* The letters of the next word: the first is where the word begins.       *)
Spelled(argv, p, args) == Spelling(Scan(args, p + 1, No, No, No), argv)

LEMMA ShortRead ==
  ASSUME NEW argv \in Words, NEW p, NEW args, NEW word, IsNext(argv, p, word), At(argv, p, args),
         ShortWord(word)
  PROVE  /\ Reading(argv)[p + 1] = Finished(Spelled(argv, p, args)[Len(word)])
         /\ Spelled(argv, p, args)[1] = Scan(args, p + 1, No, No, No)
         /\ \A j \in 2 .. Len(word) :
              Spelled(argv, p, args)[j] = Letter(Spelled(argv, p, args)[j - 1], j, argv)
<1> DEFINE s == Scan(args, p + 1, No, No, No)
<1>1. Reading(argv)[p + 1] = ShortOptions(s, argv)
  BY DashesOf, WordAt
<1>2. s.i = p + 1
  BY ScanFields
<1>3. argv[s.i] = word
  BY <1>2 DEF IsNext
<1> HIDE DEF s
<1>4. ShortOptions(s, argv) = Finished(Spelling(s, argv)[Len(word)])
  BY <1>3, ShortOptionsAre
<1>5. Len(argv[s.i]) \in Nat \ {0}
  BY <1>3 DEF ShortWord, Text
<1>6. /\ Spelling(s, argv)[1] = s
      /\ \A j \in 2 .. Len(word) : Spelling(s, argv)[j] = Letter(Spelling(s, argv)[j - 1], j, argv)
  BY <1>3, <1>5, SpellingSteps
<1> QED
  BY <1>1, <1>4, <1>6 DEF Spelled, s

-----------------------------------------------------------------------------
(* A letter that is an option the user may write: a flag, a string with    *)
(* the next word, a string with the rest of its own.                       *)
LEMMA FlagLetter ==
  ASSUME NEW a, NEW i, NEW n, NEW argv, NEW b, b = Get(shortOptions, <<argv[i][n]>>), b # 0,
         arguments[b].class # "STRING"
  PROVE  Letter(Scan(a, i, No, No, No), n, argv) = Scan(Given(a, b, Nothing), i, No, No, No)
<1> DEFINE rest == SubSeq(argv[i], n + 1, Len(argv[i]))
           c == Scan(a, i, No, No, No)
<1>1. Meets(argv, i, n, b, rest)
  BY DEF Meets
<1> HIDE DEF rest
<1>2. Letter(c, n, argv) =
        IF b = 0 THEN Scan(a, i, No, Yes, No)
        ELSE IF arguments[b].class # "STRING" THEN Scan(Given(a, b, Nothing), i, No, No, No)
        ELSE IF n = Len(argv[i]) /\ i < Len(argv)
          THEN Scan(Given(a, b, argv[i + 1]), i + 1, Yes, No, No)
        ELSE Scan(Given(a, b, rest), i, Yes, No, No)
  BY <1>1, LetterIs
<1> HIDE DEF c
<1> QED
  BY <1>2 DEF c

LEMMA StringLetter ==
  ASSUME NEW a, NEW i, NEW n, NEW argv, NEW b, b = Get(shortOptions, <<argv[i][n]>>), b # 0,
         arguments[b].class = "STRING"
  PROVE  Letter(Scan(a, i, No, No, No), n, argv) =
           IF n = Len(argv[i]) /\ i < Len(argv)
           THEN Scan(Given(a, b, argv[i + 1]), i + 1, Yes, No, No)
           ELSE Scan(Given(a, b, SubSeq(argv[i], n + 1, Len(argv[i]))), i, Yes, No, No)
<1> DEFINE rest == SubSeq(argv[i], n + 1, Len(argv[i]))
           c == Scan(a, i, No, No, No)
<1>1. Meets(argv, i, n, b, rest)
  BY DEF Meets
<1> HIDE DEF rest
<1>2. Letter(c, n, argv) =
        IF b = 0 THEN Scan(a, i, No, Yes, No)
        ELSE IF arguments[b].class # "STRING" THEN Scan(Given(a, b, Nothing), i, No, No, No)
        ELSE IF n = Len(argv[i]) /\ i < Len(argv)
          THEN Scan(Given(a, b, argv[i + 1]), i + 1, Yes, No, No)
        ELSE Scan(Given(a, b, rest), i, Yes, No, No)
  BY <1>1, LetterIs
<1> HIDE DEF c
<1> QED
  BY <1>2 DEF c, rest

LEMMA UnknownLetter ==
  ASSUME NEW a, NEW i, NEW n, NEW argv, 0 = Get(shortOptions, <<argv[i][n]>>)
  PROVE  Letter(Scan(a, i, No, No, No), n, argv) = Scan(a, i, No, Yes, No)
<1> DEFINE rest == SubSeq(argv[i], n + 1, Len(argv[i]))
           c == Scan(a, i, No, No, No)
           zero == 0
<1>1. Meets(argv, i, n, zero, rest)
  BY DEF Meets
<1> HIDE DEF rest, zero
<1>2. Letter(c, n, argv) =
        IF zero = 0 THEN Scan(a, i, No, Yes, No)
        ELSE IF arguments[zero].class # "STRING" THEN Scan(Given(a, zero, Nothing), i, No, No, No)
        ELSE IF n = Len(argv[i]) /\ i < Len(argv)
          THEN Scan(Given(a, zero, argv[i + 1]), i + 1, Yes, No, No)
        ELSE Scan(Given(a, zero, rest), i, Yes, No, No)
  BY <1>1, LetterIs
<1> HIDE DEF c
<1> QED
  BY <1>2 DEF c, zero

(* A word of letters from the n-th one on: what is left to find out.       *)
Remains(argv, p, args, n) ==
  \E f : /\ Reading(argv)[p + 1] = Finished(f[Len(argv[p + 1])])
         /\ f[n] = Scan(args, p + 1, No, No, No)
         /\ \A j \in n + 1 .. Len(argv[p + 1]) : f[j] = Letter(f[j - 1], j, argv)

LEMMA RemainsFirst ==
  ASSUME NEW argv \in Words, NEW p, NEW args, NEW word, IsNext(argv, p, word), At(argv, p, args),
         ShortWord(word)
  PROVE  Remains(argv, p, args, 1)
<1> DEFINE f == Spelled(argv, p, args)
<1>1. /\ Reading(argv)[p + 1] = Finished(f[Len(word)])
      /\ f[1] = Scan(args, p + 1, No, No, No)
      /\ \A j \in 2 .. Len(word) : f[j] = Letter(f[j - 1], j, argv)
  BY ShortRead
<1>2. argv[p + 1] = word /\ 1 + 1 = 2
  BY DEF IsNext
<1> HIDE DEF f
<1> QED
  BY <1>1, <1>2 DEF Remains

LEMMA RemainsNone ==
  ASSUME NEW argv, NEW p \in Nat, NEW args, NEW n, n = Len(argv[p + 1]), Remains(argv, p, args, n)
  PROVE  At(argv, p + 1, args)
<1>1. PICK f : /\ Reading(argv)[p + 1] = Finished(f[Len(argv[p + 1])])
               /\ f[n] = Scan(args, p + 1, No, No, No)
  BY DEF Remains
<1>2. Finished(Scan(args, p + 1, No, No, No)) = Scan(args, p + 1 + 1, No, No, No)
  BY ScanFinished
<1> QED
  BY <1>1, <1>2 DEF At

LEMMA RemainsFlag ==
  ASSUME NEW argv, NEW p \in Nat, NEW args, NEW n \in Nat, n + 1 <= Len(argv[p + 1]),
         Len(argv[p + 1]) \in Nat,
         Remains(argv, p, args, n), NEW b, b = Get(shortOptions, <<argv[p + 1][n + 1]>>), b # 0,
         arguments[b].class # "STRING"
  PROVE  Remains(argv, p, Given(args, b, Nothing), n + 1)
<1>1. PICK f : /\ Reading(argv)[p + 1] = Finished(f[Len(argv[p + 1])])
               /\ f[n] = Scan(args, p + 1, No, No, No)
               /\ \A j \in n + 1 .. Len(argv[p + 1]) : f[j] = Letter(f[j - 1], j, argv)
  BY DEF Remains
<1>2. Letter(Scan(args, p + 1, No, No, No), n + 1, argv) =
        Scan(Given(args, b, Nothing), p + 1, No, No, No)
  BY FlagLetter
<1>3. n + 1 - 1 = n /\ n + 1 \in n + 1 .. Len(argv[p + 1])
      /\ \A j \in n + 1 + 1 .. Len(argv[p + 1]) : j \in n + 1 .. Len(argv[p + 1])
  OBVIOUS
<1>4. f[n + 1] = Letter(f[n], n + 1, argv)
  BY <1>1, <1>3
<1>5. f[n + 1] = Scan(Given(args, b, Nothing), p + 1, No, No, No)
  BY <1>1, <1>2, <1>4
<1>6. \A j \in n + 1 + 1 .. Len(argv[p + 1]) : f[j] = Letter(f[j - 1], j, argv)
  BY <1>1, <1>3
<1> QED
  BY <1>1, <1>5, <1>6 DEF Remains

(* What nothing behind it disturbs.                                        *)
LEMMA LettersDone ==
  ASSUME NEW argv, NEW f, NEW n \in Nat, NEW m \in Nat, n <= m, NEW c, f[n] = c,
         \A j \in n + 1 .. m : f[j] = Letter(f[j - 1], j, argv),
         c.unknown = Yes \/ c.taken = Yes
  PROVE  f[m] = c
<1> DEFINE Bad == {j \in n .. m : f[j] # c}
<1>1. \A j : Letter(c, j, argv) = c
  BY LetterDone
<1>2. Bad = {}
  <2>1. SUFFICES ASSUME Bad # {} PROVE FALSE
    OBVIOUS
  <2>2. PICK j \in Bad : \A k \in Bad : j <= k
    <3>1. Bad \in SUBSET Nat
      OBVIOUS
    <3> HIDE DEF Bad
    <3> QED
      BY <2>1, <3>1, Least
  <2>3. j \in n .. m /\ f[j] # c /\ j # n
    OBVIOUS
  <2>4. j - 1 \in n .. m /\ j \in n + 1 .. m /\ j - 1 \notin Bad
    BY <2>2, <2>3
  <2>5. f[j - 1] = c
    BY <2>4
  <2> QED
    BY <1>1, <2>3, <2>4, <2>5
<1> QED
  BY <1>2

LEMMA RemainsNext ==
  ASSUME NEW argv \in Words, NEW p \in Nat, NEW args, NEW n \in Nat, n + 1 = Len(argv[p + 1]),
         p + 1 < Len(argv),
         Remains(argv, p, args, n), NEW b, b = Get(shortOptions, <<argv[p + 1][n + 1]>>), b # 0,
         arguments[b].class = "STRING"
  PROVE  At(argv, p + 2, Given(args, b, argv[p + 2]))
<1> DEFINE given == Given(args, b, argv[p + 2])
<1>1. PICK f : /\ Reading(argv)[p + 1] = Finished(f[n + 1])
               /\ f[n] = Scan(args, p + 1, No, No, No)
               /\ \A j \in n + 1 .. n + 1 : f[j] = Letter(f[j - 1], j, argv)
  BY DEF Remains
<1>2. Letter(Scan(args, p + 1, No, No, No), n + 1, argv) = Scan(given, p + 2, Yes, No, No)
  <2>1. p + 1 + 1 = p + 2
    OBVIOUS
  <2>2. Letter(Scan(args, p + 1, No, No, No), n + 1, argv) =
          IF n + 1 = Len(argv[p + 1]) /\ p + 1 < Len(argv)
          THEN Scan(Given(args, b, argv[p + 1 + 1]), p + 1 + 1, Yes, No, No)
          ELSE Scan(Given(args, b, SubSeq(argv[p + 1], n + 1 + 1, Len(argv[p + 1]))), p + 1, Yes, No, No)
    BY StringLetter
  <2> QED
    BY <2>1, <2>2
<1>3. n + 1 - 1 = n /\ n + 1 \in n + 1 .. n + 1
  OBVIOUS
<1>4. f[n + 1] = Letter(f[n], n + 1, argv)
  BY <1>1, <1>3
<1> HIDE DEF given
<1>5. Reading(argv)[p + 1] = Scan(given, p + 2 + 1, No, No, No)
  BY <1>1, <1>2, <1>4, ScanFinished
<1> DEFINE q == p + 1
<1>6. q \in 0 .. Len(argv) - 1 /\ p + 2 + 1 = q + 2 /\ q + 1 = p + 2
  <2> DEFINE l == Len(argv)
  <2>1. l \in Nat /\ p + 1 < l
    BY DEF Words
  <2> HIDE DEF l
  <2>2. q \in 0 .. l - 1 /\ p + 2 + 1 = q + 2 /\ q + 1 = p + 2
    BY <2>1
  <2> QED
    BY <2>2 DEF l
<1>7. Reading(argv)[q] = Scan(given, q + 2, No, No, No)
  BY <1>5, <1>6
<1> HIDE DEF q
<1>8. At(argv, q + 1, given)
  BY <1>6, <1>7, WordSkipped
<1> QED
  BY <1>6, <1>8 DEF given

LEMMA RemainsRest ==
  ASSUME NEW argv \in Words, NEW p \in Nat, NEW args, NEW n \in Nat,
         Len(argv[p + 1]) \in Nat, n + 1 < Len(argv[p + 1]),
         Remains(argv, p, args, n), NEW b, b = Get(shortOptions, <<argv[p + 1][n + 1]>>), b # 0,
         arguments[b].class = "STRING",
         NEW rest, IsPart(rest, argv[p + 1], n + 2, Len(argv[p + 1]))
  PROVE  At(argv, p + 1, Given(args, b, rest))
<1> DEFINE given == Given(args, b, rest)
           m == Len(argv[p + 1])
           c == Scan(given, p + 1, Yes, No, No)
<1>1. PICK f : /\ Reading(argv)[p + 1] = Finished(f[m])
               /\ f[n] = Scan(args, p + 1, No, No, No)
               /\ \A j \in n + 1 .. m : f[j] = Letter(f[j - 1], j, argv)
  BY DEF Remains
<1>2. Letter(Scan(args, p + 1, No, No, No), n + 1, argv) = c
  <2>1. n + 1 + 1 = n + 2 /\ n + 1 # m
    OBVIOUS
  <2>2. Letter(Scan(args, p + 1, No, No, No), n + 1, argv) =
          IF n + 1 = Len(argv[p + 1]) /\ p + 1 < Len(argv)
          THEN Scan(Given(args, b, argv[p + 1 + 1]), p + 1 + 1, Yes, No, No)
          ELSE Scan(Given(args, b, SubSeq(argv[p + 1], n + 1 + 1, Len(argv[p + 1]))), p + 1, Yes, No, No)
    BY StringLetter
  <2> QED
    BY <2>1, <2>2 DEF IsPart
<1>3. n + 1 - 1 = n /\ n + 1 \in n + 1 .. m /\ m \in Nat
      /\ \A j \in n + 1 + 1 .. m : j \in n + 1 .. m
  <2>1. m \in Nat /\ n + 1 < m
    OBVIOUS
  <2> HIDE DEF m
  <2> QED
    BY <2>1
<1>4. f[n + 1] = Letter(f[n], n + 1, argv)
  BY <1>1, <1>3
<1>5. c.taken = Yes
  BY ScanFields
<1> HIDE DEF given, c, m
<1>6. f[n + 1] = c
  BY <1>1, <1>2, <1>4
<1> DEFINE k == n + 1
<1>7. k \in Nat /\ k <= m /\ f[k] = c /\ \A j \in k + 1 .. m : f[j] = Letter(f[j - 1], j, argv)
  BY <1>1, <1>3, <1>6 DEF m
<1> HIDE DEF k
<1>8. f[m] = c
  BY <1>3, <1>5, <1>7, LettersDone
<1>9. Finished(c) = Scan(given, p + 1 + 1, No, No, No)
  BY ScanFinished DEF c
<1> QED
  BY <1>1, <1>8, <1>9 DEF At, given

LEMMA RemainsUnknown ==
  ASSUME NEW argv, NEW p \in Nat, NEW args, Len(argv[p + 1]) = 2,
         Remains(argv, p, args, 1), 0 = Get(shortOptions, <<argv[p + 1][2]>>)
  PROVE  Reading(argv)[p + 1] = Scan(args, p + 1 + 1, No, Yes, No)
<1>1. PICK f : /\ Reading(argv)[p + 1] = Finished(f[2])
               /\ f[1] = Scan(args, p + 1, No, No, No)
               /\ \A j \in 1 + 1 .. 2 : f[j] = Letter(f[j - 1], j, argv)
  BY DEF Remains
<1>2. f[2] = Letter(f[1], 2, argv)
  <2>1. 2 \in 1 + 1 .. 2 /\ 2 - 1 = 1
    OBVIOUS
  <2> QED
    BY <1>1, <2>1
<1>3. Letter(Scan(args, p + 1, No, No, No), 2, argv) = Scan(args, p + 1, No, Yes, No)
  BY UnknownLetter
<1> QED
  BY <1>1, <1>2, <1>3, ScanFinished

-----------------------------------------------------------------------------
(* The words of the forms, read.                                           *)
LEMMA NextFields ==
  ASSUME NEW argv \in Words, NEW p, NEW word, IsNext(argv, p, word)
  PROVE  /\ p \in Nat /\ p + 1 <= Len(argv) /\ argv[p + 1] = word /\ word \in Text
         /\ Len(argv) \in Nat
<1>1. Len(argv) \in Nat
  BY DEF Words
<1>2. p \in Nat /\ p + 1 \in 1 .. Len(argv) /\ argv[p + 1] = word
  BY <1>1 DEF IsNext
<1> QED
  BY <1>1, <1>2 DEF Words, Text

LEMMA ReadLong ==
  ASSUME NamesInv, Fresh, NEW id \in Known, arguments[id].long # None,
         NEW argv \in Words, NEW p, NEW args, IsNext(argv, p, Dashed(arguments[id])),
         At(argv, p, args)
  PROVE  At(argv, p + 1, Given(args, id, Nothing))
<1> DEFINE n == arguments[id].long
           word == <<"-", "-", n>>
           key == <<n>>
<1>1. n \in Symbol /\ n # "=" /\ Get(longOptions, key) = id /\ id # 0
  <2>1. /\ id \in DOMAIN arguments /\ arguments[id] \in ArgumentRecord
        /\ Get(longOptions, <<n>>) = id /\ n # "="
    BY KnownNames
  <2>2. id # 0
    BY <2>1 DEF NamesInv, ArgsRight
  <2> QED
    BY <2>1, <2>2 DEF ArgumentRecord
<1>2. IsNext(argv, p, word)
  BY DEF Dashed
<1>3. word \in Text /\ Len(word) = 3 /\ word[1] = "-" /\ word[2] = "-"
  BY <1>1, Symbols, SymbolTuples DEF Text
<1> HIDE DEF n
<1>4. Splits(word, key, Nothing)
  BY <1>1, SplitsName DEF Nothing
<1> HIDE DEF word, key
<1>5. LongWord(word)
  BY <1>3 DEF LongWord
<1>6. IF id = 0 THEN Reading(argv)[p + 1] = Scan(args, p + 1, No, Yes, No)
      ELSE At(argv, p + 1, Given(args, id, Nothing))
  BY <1>1, <1>2, <1>4, <1>5, LongRead
<1> QED
  BY <1>1, <1>6

LEMMA ReadValued ==
  ASSUME NamesInv, Fresh, NEW id \in Known, arguments[id].long # None, NEW t \in Text,
         NEW argv \in Words, NEW p, NEW args, IsNext(argv, p, Valued(arguments[id].long, t)),
         At(argv, p, args)
  PROVE  At(argv, p + 1, Given(args, id, t))
<1> DEFINE n == arguments[id].long
           word == Valued(n, t)
           key == <<n>>
<1>1. n \in Symbol /\ n # "=" /\ Get(longOptions, key) = id /\ id # 0
  <2>1. /\ id \in DOMAIN arguments /\ arguments[id] \in ArgumentRecord
        /\ Get(longOptions, <<n>>) = id /\ n # "="
    BY KnownNames
  <2>2. id # 0
    BY <2>1 DEF NamesInv, ArgsRight
  <2> QED
    BY <2>1, <2>2 DEF ArgumentRecord
<1> HIDE DEF n
<1>2. word \in Text /\ Len(word) = Len(t) + 4 /\ word[1] = "-" /\ word[2] = "-"
  BY <1>1, ValuedFields
<1>3. Splits(word, key, t)
  BY <1>1, SplitsValue
<1>4. IsNext(argv, p, word)
  BY DEF n
<1> HIDE DEF word, key
<1>5. LongWord(word)
  BY <1>2 DEF LongWord, Text
<1>6. IF id = 0 THEN Reading(argv)[p + 1] = Scan(args, p + 1, No, Yes, No)
      ELSE At(argv, p + 1, Given(args, id, t))
  BY <1>1, <1>3, <1>4, <1>5, LongRead
<1> QED
  BY <1>1, <1>6

(* A word that begins with a dash and the letter of an option.             *)
Letters(word, id) == ShortWord(word) /\ word[2] = arguments[id].short

LEMMA LetteredFields ==
  ASSUME NamesInv, Fresh, NEW id \in Known, arguments[id].short # None
  PROVE  /\ Letters(Lettered(arguments[id]), id) /\ Len(Lettered(arguments[id])) = 2
         /\ Lettered(arguments[id]) \in Text
         /\ Get(shortOptions, <<arguments[id].short>>) = id /\ id # 0
         /\ id \in DOMAIN arguments /\ arguments[id].short \in Symbol
<1> DEFINE n == arguments[id].short
           word == <<"-", n>>
<1>1. /\ id \in DOMAIN arguments /\ n \in Symbol /\ n # "-"
      /\ Get(shortOptions, <<n>>) = id /\ id # 0
  <2>1. /\ id \in DOMAIN arguments /\ arguments[id] \in ArgumentRecord
        /\ Get(shortOptions, <<n>>) = id /\ n # "-"
    BY KnownNames
  <2>2. id # 0
    BY <2>1 DEF NamesInv, ArgsRight
  <2> QED
    BY <2>1, <2>2 DEF ArgumentRecord
<1>2. word = Lettered(arguments[id])
  BY DEF Lettered
<1>3. word \in Text /\ Len(word) = 2 /\ word[1] = "-" /\ word[2] = n
  BY <1>1, Symbols, SymbolTuples DEF Text
<1> HIDE DEF word
<1>4. Letters(word, id)
  BY <1>1, <1>3 DEF Letters, ShortWord
<1> QED
  BY <1>1, <1>2, <1>3, <1>4

LEMMA LetteredJoin ==
  ASSUME NamesInv, Fresh, NEW id \in Known, arguments[id].short # None, NEW t \in Text,
         NEW word, word = Lettered(arguments[id]) \o t
  PROVE  /\ Letters(word, id) /\ word \in Text /\ Len(word) = Len(t) + 2 /\ Len(t) \in Nat
         /\ \A i \in 1 .. Len(t) : word[i + 2] = t[i]
<1> DEFINE l == Lettered(arguments[id])
<1>1. l \in Text /\ Len(l) = 2 /\ ShortWord(l) /\ l[2] = arguments[id].short
  BY LetteredFields DEF Letters
<1>2. IsJoin(word, l, t)
  BY DEF IsJoin
<1> HIDE DEF l
<1>3. word \in Text /\ Joined(word, l, t)
  BY <1>1, <1>2, TextJoin
<1>4. /\ Len(word) = 2 + Len(t) /\ Len(t) \in Nat
      /\ \A i \in 1 .. 2 : word[i] = l[i]
      /\ \A i \in 1 .. Len(t) : word[2 + i] = t[i]
  BY <1>1, <1>3 DEF Joined
<1>5. 1 \in 1 .. 2 /\ 2 \in 1 .. 2 /\ \A i \in 1 .. Len(t) : 2 + i = i + 2
  OBVIOUS
<1>6. word[1] = l[1] /\ word[2] = l[2]
  BY <1>4, <1>5
<1>7. Len(word) >= 2
  <2> DEFINE m == Len(t)
  <2>1. m \in Nat /\ Len(word) = 2 + m
    BY <1>4
  <2> HIDE DEF m
  <2> QED
    BY <2>1
<1>8. ShortWord(word)
  BY <1>1, <1>3, <1>6, <1>7 DEF ShortWord
<1>9. \A i \in 1 .. Len(t) : word[i + 2] = t[i]
  BY <1>4, <1>5
<1>10. Len(word) = Len(t) + 2
  BY <1>4
<1> QED
  BY <1>1, <1>3, <1>4, <1>6, <1>8, <1>9, <1>10 DEF Letters

(* The first letter is a flag.                                             *)
LEMMA FirstFlag ==
  ASSUME NamesInv, Fresh, NEW id \in Known, arguments[id].short # None,
         arguments[id].class # "STRING", NEW word, Letters(word, id),
         NEW argv \in Words, NEW p, NEW args, IsNext(argv, p, word), At(argv, p, args)
  PROVE  Remains(argv, p, Given(args, id, Nothing), 2)
<1>1. Remains(argv, p, args, 1) /\ p \in Nat /\ argv[p + 1] = word
  BY RemainsFirst, NextFields DEF Letters
<1>2. Get(shortOptions, <<arguments[id].short>>) = id /\ id # 0
  BY LetteredFields
<1> DEFINE n == 1
<1>3. n \in Nat /\ n + 1 <= Len(argv[p + 1]) /\ Len(argv[p + 1]) \in Nat /\ n + 1 = 2
  BY <1>1 DEF Letters, ShortWord, Text
<1>4. Remains(argv, p, args, n)
  BY <1>1
<1> HIDE DEF n
<1>5. id = Get(shortOptions, <<argv[p + 1][n + 1]>>)
  BY <1>1, <1>2, <1>3 DEF Letters
<1>6. Remains(argv, p, Given(args, id, Nothing), n + 1)
  BY <1>1, <1>2, <1>3, <1>4, <1>5, RemainsFlag
<1> QED
  BY <1>3, <1>6

LEMMA ReadFlag ==
  ASSUME NamesInv, Fresh, NEW id \in Known, arguments[id].short # None,
         arguments[id].class # "STRING",
         NEW argv \in Words, NEW p, NEW args, IsNext(argv, p, Lettered(arguments[id])),
         At(argv, p, args)
  PROVE  At(argv, p + 1, Given(args, id, Nothing))
<1> DEFINE word == Lettered(arguments[id])
<1>1. Letters(word, id) /\ Len(word) = 2
  BY LetteredFields
<1>2. IsNext(argv, p, word)
  OBVIOUS
<1> HIDE DEF word
<1>3. Remains(argv, p, Given(args, id, Nothing), 2)
  BY <1>1, <1>2, FirstFlag
<1>4. p \in Nat /\ 2 = Len(argv[p + 1])
  BY <1>1, <1>2, NextFields
<1> QED
  BY <1>3, <1>4, RemainsNone

LEMMA ReadString ==
  ASSUME NamesInv, Fresh, NEW id \in Known, arguments[id].short # None,
         arguments[id].class = "STRING", NEW t,
         NEW argv \in Words, NEW p, NEW args, IsNext(argv, p, Lettered(arguments[id])),
         IsNext(argv, p + 1, t), At(argv, p, args)
  PROVE  At(argv, p + 2, Given(args, id, t))
<1> DEFINE word == Lettered(arguments[id])
<1>1. /\ Letters(word, id) /\ Len(word) = 2
      /\ Get(shortOptions, <<arguments[id].short>>) = id /\ id # 0
  BY LetteredFields
<1>2. IsNext(argv, p, word)
  OBVIOUS
<1> HIDE DEF word
<1>3. Remains(argv, p, args, 1)
  BY <1>1, <1>2, RemainsFirst DEF Letters
<1>4. p \in Nat /\ argv[p + 1] = word
  BY <1>2, NextFields
<1>5. p + 1 < Len(argv) /\ argv[p + 2] = t
  <2>1. p + 1 \in Nat /\ p + 1 + 1 <= Len(argv) /\ argv[p + 1 + 1] = t /\ Len(argv) \in Nat
    BY NextFields
  <2> DEFINE l == Len(argv)
  <2>2. p + 1 + 1 <= l /\ l \in Nat /\ p + 1 + 1 = p + 2
    BY <1>4, <2>1
  <2> HIDE DEF l
  <2>3. p + 1 < l
    BY <1>4, <2>2
  <2> QED
    BY <2>1, <2>2, <2>3 DEF l
<1> DEFINE n == 1
<1>6. n \in Nat /\ n + 1 = 2 /\ n + 1 = Len(argv[p + 1]) /\ Remains(argv, p, args, n)
  BY <1>1, <1>3, <1>4
<1> HIDE DEF n
<1>7. id = Get(shortOptions, <<argv[p + 1][n + 1]>>)
  BY <1>1, <1>4, <1>6 DEF Letters
<1>8. At(argv, p + 2, Given(args, id, argv[p + 2]))
  BY <1>1, <1>4, <1>5, <1>6, <1>7, RemainsNext
<1> QED
  BY <1>5, <1>8

LEMMA ReadLast ==
  ASSUME NamesInv, Fresh, NEW id \in Known, arguments[id].short # None,
         arguments[id].class = "STRING", NEW t \in Text, t # <<>>,
         NEW argv \in Words, NEW p, NEW args, IsNext(argv, p, Lettered(arguments[id]) \o t),
         At(argv, p, args)
  PROVE  At(argv, p + 1, Given(args, id, t))
<1> DEFINE word == Lettered(arguments[id]) \o t
           rest == SubSeq(word, 3, Len(word))
<1>1. /\ Letters(word, id) /\ word \in Text /\ Len(word) = Len(t) + 2 /\ Len(t) \in Nat
      /\ \A i \in 1 .. Len(t) : word[i + 2] = t[i]
  BY LetteredJoin
<1>2. Get(shortOptions, <<arguments[id].short>>) = id /\ id # 0
  BY LetteredFields
<1>3. IsNext(argv, p, word)
  OBVIOUS
<1> HIDE DEF word
<1>4. IsPart(rest, word, 3, Len(word))
  BY DEF IsPart
<1> HIDE DEF rest
<1>5. Len(t) > 0
  BY DEF Text
<1> DEFINE l == Len(word)
           m == Len(t)
<1>6. l \in Nat /\ l = m + 2 /\ m \in Nat /\ m > 0
  BY <1>1, <1>5
<1> HIDE DEF l, m
<1>7. 3 <= l + 1 /\ m = l - 2 /\ 3 \in Nat \ {0} /\ 2 = 3 - 1 /\ l <= l /\ 2 < l
  BY <1>6
<1>8. PartFields(rest, word, 2, m)
  BY <1>1, <1>4, <1>6, <1>7, TextPartIs DEF l
<1>9. rest = t
  <2>1. rest \in Text /\ Len(rest) = m /\ \A i \in 1 .. m : rest[i] = word[i + 2]
    BY <1>8 DEF PartFields
  <2>2. \A i \in 1 .. Len(rest) : rest[i] = t[i]
    BY <1>1, <2>1 DEF m
  <2>3. Len(rest) = Len(t)
    BY <2>1 DEF m
  <2> QED
    BY <2>1, <2>2, <2>3, TextEqual
<1>10. p \in Nat /\ argv[p + 1] = word
  BY <1>3, NextFields
<1>11. Remains(argv, p, args, 1)
  BY <1>1, <1>3, RemainsFirst DEF Letters
<1> DEFINE n == 1
<1>12. /\ n \in Nat /\ n + 1 = 2 /\ n + 2 = 3 /\ Remains(argv, p, args, n)
       /\ Len(argv[p + 1]) \in Nat /\ n + 1 < Len(argv[p + 1])
  BY <1>6, <1>7, <1>10, <1>11 DEF l
<1> HIDE DEF n
<1>13. id = Get(shortOptions, <<argv[p + 1][n + 1]>>)
  BY <1>1, <1>2, <1>10, <1>12 DEF Letters
<1>14. IsPart(rest, argv[p + 1], n + 2, Len(argv[p + 1]))
  BY <1>4, <1>10, <1>12
<1>15. At(argv, p + 1, Given(args, id, rest))
  BY <1>2, <1>10, <1>12, <1>13, <1>14, RemainsRest
<1> QED
  BY <1>9, <1>15

(* A letter joined to one that is a flag.                                  *)
LEMMA ReadJoined ==
  ASSUME NamesInv, Fresh, NEW id \in Known, arguments[id].short # None,
         arguments[id].class # "STRING", NEW other \in Known, arguments[other].short # None,
         NEW argv \in Words, NEW p, NEW args,
         IsNext(argv, p, Lettered(arguments[id]) \o <<arguments[other].short>>),
         At(argv, p, args), NEW t
  PROVE  /\ arguments[other].class # "STRING" =>
              At(argv, p + 1, Given(Given(args, id, Nothing), other, Nothing))
         /\ arguments[other].class = "STRING" /\ IsNext(argv, p + 1, t) =>
              At(argv, p + 2, Given(Given(args, id, Nothing), other, t))
<1> DEFINE c == <<arguments[other].short>>
           word == Lettered(arguments[id]) \o c
<1>1. /\ Get(shortOptions, c) = other /\ other # 0 /\ arguments[other].short \in Symbol
  BY LetteredFields
<1>2. c \in Text /\ Len(c) = 1 /\ c[1] = arguments[other].short
  BY <1>1, TextOne
<1>3. IsNext(argv, p, word)
  OBVIOUS
<1>4. c = <<arguments[other].short>>
  OBVIOUS
<1> HIDE DEF c
<1>13. word = Lettered(arguments[id]) \o c
  OBVIOUS
<1> HIDE DEF word
<1>5. /\ Letters(word, id) /\ word \in Text /\ Len(word) = Len(c) + 2
      /\ \A i \in 1 .. Len(c) : word[i + 2] = c[i]
  BY <1>2, <1>13, LetteredJoin
<1>6. Len(word) = 3 /\ word[3] = arguments[other].short
  <2>1. 1 \in 1 .. Len(c) /\ 1 + 2 = 3
    BY <1>2
  <2>2. word[3] = c[1]
    BY <1>5, <2>1
  <2> QED
    BY <1>2, <1>5, <2>2
<1> DEFINE given == Given(args, id, Nothing)
           n == 2
<1>7. Remains(argv, p, given, n)
  BY <1>3, <1>5, FirstFlag
<1>8. p \in Nat /\ argv[p + 1] = word
  BY <1>3, NextFields
<1>9. n \in Nat /\ n + 1 = 3 /\ Len(argv[p + 1]) = 3
  BY <1>6, <1>8
<1> HIDE DEF n, given
<1>10. other = Get(shortOptions, <<argv[p + 1][n + 1]>>)
  BY <1>1, <1>4, <1>6, <1>8, <1>9
<1>11. ASSUME arguments[other].class # "STRING"
       PROVE  At(argv, p + 1, Given(given, other, Nothing))
  <2>1. n + 1 <= Len(argv[p + 1]) /\ Len(argv[p + 1]) \in Nat
    BY <1>9
  <2>2. Remains(argv, p, Given(given, other, Nothing), n + 1)
    BY <1>1, <1>7, <1>8, <1>9, <1>10, <1>11, <2>1, RemainsFlag
  <2>3. n + 1 = Len(argv[p + 1])
    BY <1>9
  <2> QED
    BY <1>8, <2>2, <2>3, RemainsNone
<1>12. ASSUME arguments[other].class = "STRING", IsNext(argv, p + 1, t)
       PROVE  At(argv, p + 2, Given(given, other, t))
  <2>1. p + 1 < Len(argv) /\ argv[p + 2] = t
    <3>1. p + 1 \in Nat /\ p + 1 + 1 <= Len(argv) /\ argv[p + 1 + 1] = t /\ Len(argv) \in Nat
      BY <1>12, NextFields
    <3> DEFINE l == Len(argv)
    <3>2. p + 1 + 1 <= l /\ l \in Nat /\ p + 1 + 1 = p + 2
      BY <1>8, <3>1
    <3> HIDE DEF l
    <3>3. p + 1 < l
      BY <1>8, <3>2
    <3> QED
      BY <3>1, <3>2, <3>3 DEF l
  <2>2. n + 1 = Len(argv[p + 1])
    BY <1>9
  <2>3. At(argv, p + 2, Given(given, other, argv[p + 2]))
    BY <1>1, <1>7, <1>8, <1>9, <1>10, <1>12, <2>1, <2>2, RemainsNext
  <2> QED
    BY <2>1, <2>3
<1> QED
  BY <1>11, <1>12 DEF given

-----------------------------------------------------------------------------
(* What is written for an option is read as its value.                     *)
Follows(argv, p, words) ==
  p \in Nat /\ \A i \in 1 .. Len(words) : IsNext(argv, p + i - 1, words[i])

LEMMA FollowsOne ==
  ASSUME NEW argv, NEW p, NEW w, Follows(argv, p, <<w>>)
  PROVE  IsNext(argv, p, w)
<1> DEFINE words == <<w>>
<1>1. Len(words) = 1 /\ words[1] = w
  OBVIOUS
<1>2. p \in Nat /\ \A i \in 1 .. Len(words) : IsNext(argv, p + i - 1, words[i])
  BY DEF Follows
<1> HIDE DEF words
<1>3. 1 \in 1 .. Len(words) /\ p + 1 - 1 = p
  BY <1>1, <1>2
<1> QED
  BY <1>1, <1>2, <1>3

LEMMA FollowsTwo ==
  ASSUME NEW argv, NEW p, NEW v, NEW w, Follows(argv, p, <<v, w>>)
  PROVE  IsNext(argv, p, v) /\ IsNext(argv, p + 1, w)
<1> DEFINE words == <<v, w>>
<1>1. Len(words) = 2 /\ words[1] = v /\ words[2] = w
  OBVIOUS
<1>2. p \in Nat /\ \A i \in 1 .. Len(words) : IsNext(argv, p + i - 1, words[i])
  BY DEF Follows
<1> HIDE DEF words
<1>3. 1 \in 1 .. Len(words) /\ 2 \in 1 .. Len(words) /\ p + 1 - 1 = p /\ p + 2 - 1 = p + 1
  BY <1>1, <1>2
<1>4. IsNext(argv, p + 1 - 1, words[1]) /\ IsNext(argv, p + 2 - 1, words[2])
  BY <1>2, <1>3
<1> QED
  BY <1>1, <1>3, <1>4

FalseText == <<"false">>

LEMMA FalseTextFields == FalseText \in Text /\ Nothing \in Text /\ Nothing # FalseText
<1>1. Len(FalseText) = 1 /\ Len(Nothing) = 0 /\ Nothing \in Text
  BY DEF FalseText, Nothing, Text
<1>2. FalseText \in Text
  BY Symbols, TextOne DEF FalseText
<1> QED
  BY <1>1, <1>2

Right(item, v) ==
  /\ item.id \in DOMAIN arguments /\ v \in Text
  /\ IF arguments[item.id].class = "STRING" THEN item.value = v
     ELSE \/ item.value = Yes /\ v # FalseText
          \/ item.value = No /\ v = FalseText

Does(argv, p, args, item) ==
  \E v : Right(item, v) /\ At(argv, p, Given(args, item.id, v))

LEMMA ItemRead ==
  ASSUME NamesInv, Fresh, NEW id \in Known, NEW item \in Forms(id), item.form # "joined",
         NEW argv \in Words, NEW p, NEW args, At(argv, p, args), Follows(argv, p, item.words)
  PROVE  Does(argv, p + Len(item.words), args, item)
<1> DEFINE a == arguments[id]
<1>1. id \in DOMAIN arguments /\ a \in ArgumentRecord
  BY KnownNames
<1>2. FlagForm(item, id, a) \/ StringForm(item, id, a)
  BY FormsAre
<1>3. p \in Nat
  BY DEF Follows
<1>4. CASE FlagForm(item, id, a)
  <2>1. a.class # "STRING"
    BY <1>4 DEF FlagForm
  <2>2. CASE a.long # None /\ item = Item(id, "long", Yes, <<Dashed(a)>>)
    <3>1. item.id = id /\ item.value = Yes /\ item.words = <<Dashed(a)>>
      BY <2>2, ItemFields
    <3>2. IsNext(argv, p, Dashed(a)) /\ Len(item.words) = 1
      BY <3>1, FollowsOne
    <3>3. At(argv, p + 1, Given(args, id, Nothing))
      BY <2>2, <3>2, ReadLong
    <3>4. Right(item, Nothing)
      BY <1>1, <2>1, <3>1, FalseTextFields DEF Right
    <3> QED
      BY <3>1, <3>2, <3>3, <3>4 DEF Does
  <2>3. CASE a.long # None /\ item = Item(id, "long", No, <<Dashed(a) \o <<"=", "false">>>>)
    <3> DEFINE w == Valued(a.long, FalseText)
    <3>1. w = Dashed(a) \o <<"=", "false">>
      BY <1>1, FalseValued DEF ArgumentRecord, FalseText, Dashed
    <3>2. item.id = id /\ item.value = No /\ item.words = <<Dashed(a) \o <<"=", "false">>>>
      BY <2>3, ItemFields
    <3> HIDE DEF w
    <3>6. item.words = <<w>>
      BY <3>1, <3>2
    <3>3. IsNext(argv, p, w) /\ Len(item.words) = 1
      BY <3>6, FollowsOne
    <3>4. At(argv, p + 1, Given(args, id, FalseText))
      BY <2>3, <3>3, ReadValued, FalseTextFields DEF w
    <3>5. Right(item, FalseText)
      BY <1>1, <2>1, <3>2, FalseTextFields DEF Right
    <3> QED
      BY <3>2, <3>3, <3>4, <3>5 DEF Does
  <2>4. CASE a.short # None /\ item = Item(id, "short", Yes, <<Lettered(a)>>)
    <3>1. item.id = id /\ item.value = Yes /\ item.words = <<Lettered(a)>>
      BY <2>4, ItemFields
    <3>2. IsNext(argv, p, Lettered(a)) /\ Len(item.words) = 1
      BY <3>1, FollowsOne
    <3>3. At(argv, p + 1, Given(args, id, Nothing))
      BY <2>1, <2>4, <3>2, ReadFlag
    <3>4. Right(item, Nothing)
      BY <1>1, <2>1, <3>1, FalseTextFields DEF Right
    <3> QED
      BY <3>1, <3>2, <3>3, <3>4 DEF Does
  <2>5. ~ (a.short # None /\ item = Item(id, "joined", Yes, <<<<a.short>>>>))
    BY ItemFields
  <2> HIDE DEF a
  <2> QED
    BY <1>4, <2>2, <2>3, <2>4, <2>5 DEF FlagForm
<1>5. CASE StringForm(item, id, a)
  <2>1. a.class = "STRING"
    BY <1>5 DEF StringForm
  <2>2. CASE a.long # None /\ item = Item(id, "long", <<>>, <<Dashed(a)>>)
    <3>1. item.id = id /\ item.value = Nothing /\ item.words = <<Dashed(a)>>
      BY <2>2, ItemFields DEF Nothing
    <3>2. IsNext(argv, p, Dashed(a)) /\ Len(item.words) = 1
      BY <3>1, FollowsOne
    <3>3. At(argv, p + 1, Given(args, id, Nothing))
      BY <2>2, <3>2, ReadLong
    <3>4. Right(item, Nothing)
      BY <1>1, <2>1, <3>1, FalseTextFields DEF Right
    <3> QED
      BY <3>1, <3>2, <3>3, <3>4 DEF Does
  <2>3. ASSUME NEW t \in Texts,
               a.long # None /\ item = Item(id, "long", t, <<Dashed(a) \o <<"=">> \o t>>)
        PROVE  Does(argv, p + Len(item.words), args, item)
    <3> DEFINE w == Valued(a.long, t)
    <3>1. w = Dashed(a) \o <<"=">> \o t
      BY DEF Valued, Dashed
    <3>2. item.id = id /\ item.value = t /\ item.words = <<Dashed(a) \o <<"=">> \o t>>
      BY <2>3, ItemFields
    <3> HIDE DEF w
    <3>6. item.words = <<w>>
      BY <3>1, <3>2
    <3>7. t \in Text
      BY SymbolSeqs DEF Text
    <3>3. IsNext(argv, p, w) /\ Len(item.words) = 1
      BY <3>6, FollowsOne
    <3>4. At(argv, p + 1, Given(args, id, t))
      BY <2>3, <3>3, <3>7, ReadValued DEF w
    <3>5. Right(item, t)
      BY <1>1, <2>1, <3>2, <3>7 DEF Right
    <3> QED
      BY <3>2, <3>3, <3>4, <3>5 DEF Does
  <2>4. ASSUME NEW t \in Texts,
               a.short # None /\ item = Item(id, "short", t, <<Lettered(a), t>>)
        PROVE  Does(argv, p + Len(item.words), args, item)
    <3>1. item.id = id /\ item.value = t /\ item.words = <<Lettered(a), t>>
      BY <2>4, ItemFields
    <3>2. IsNext(argv, p, Lettered(a)) /\ IsNext(argv, p + 1, t) /\ Len(item.words) = 2
      BY <3>1, FollowsTwo
    <3>3. At(argv, p + 2, Given(args, id, t))
      BY <2>1, <2>4, <3>2, ReadString
    <3>4. t \in Text
      BY SymbolSeqs DEF Text
    <3>5. Right(item, t)
      BY <1>1, <2>1, <3>1, <3>4 DEF Right
    <3> QED
      BY <3>1, <3>2, <3>3, <3>5 DEF Does
  <2>5. ASSUME NEW t \in Texts,
               a.short # None /\ item = Item(id, "last", t, <<Lettered(a) \o t>>)
        PROVE  Does(argv, p + Len(item.words), args, item)
    <3> DEFINE w == Lettered(a) \o t
    <3>1. item.id = id /\ item.value = t /\ item.words = <<w>>
      BY <2>5, ItemFields
    <3>2. t \in Text /\ t # <<>>
      BY SymbolSeqs DEF Text
    <3> HIDE DEF w
    <3>3. IsNext(argv, p, w) /\ Len(item.words) = 1
      BY <3>1, FollowsOne
    <3>4. At(argv, p + 1, Given(args, id, t))
      BY <2>1, <2>5, <3>2, <3>3, ReadLast DEF w
    <3>5. Right(item, t)
      BY <1>1, <2>1, <3>1, <3>2 DEF Right
    <3> QED
      BY <3>1, <3>3, <3>4, <3>5 DEF Does
  <2>6. \A t \in Texts : ~ (a.short # None /\ item = Item(id, "joined", t, <<<<a.short>>, t>>))
    BY ItemFields
  <2> HIDE DEF a
  <2> QED
    BY <1>5, <2>2, <2>3, <2>4, <2>5, <2>6 DEF StringForm
<1> QED
  BY <1>2, <1>4, <1>5

LEMMA JoiningOne ==
  ASSUME NEW v \in Text, NEW w \in Text
  PROVE  Joining(<<v>>, <<w>>) = <<v \o w>>
<1>1. Front(<<v>>) = <<>> /\ Last(<<v>>) = v /\ <<w>>[1] = w /\ Tail(<<w>>) = <<>>
  BY DEF Front, Last
<1> DEFINE x == v \o w
<1>2. Joining(<<v>>, <<w>>) = (<<>> \o <<x>>) \o <<>>
  BY <1>1 DEF Joining
<1> HIDE DEF x
<1>3. (<<>> \o <<x>>) \o <<>> = <<x>>
  OBVIOUS
<1> QED
  BY <1>2, <1>3 DEF x

LEMMA TwoOnes ==
  ASSUME NEW x \in Text, NEW t \in Text
  PROVE  <<x>> \o <<t>> = <<x, t>>
<1> DEFINE a == <<x>>
           b == <<t>>
           c == a \o b
<1>1. a \in Words /\ b \in Words /\ Len(a) = 1 /\ Len(b) = 1 /\ a[1] = x /\ b[1] = t
  BY DEF Words, Text
<1>2. IsJoin(c, a, b)
  BY DEF IsJoin
<1> HIDE DEF a, b, c
<1>3. c \in Words /\ Joined(c, a, b)
  BY <1>1, <1>2, WordsJoin
<1>4. Len(c) = 2 /\ c[1] = x /\ c[2] = t
  <2>1. /\ Len(c) = 1 + 1 /\ \A i \in 1 .. 1 : c[i] = a[i]
        /\ \A i \in 1 .. 1 : c[1 + i] = b[i]
    BY <1>1, <1>3 DEF Joined
  <2>2. 1 \in 1 .. 1 /\ 1 + 1 = 2
    OBVIOUS
  <2>3. c[1] = a[1] /\ c[2] = b[1]
    BY <2>1, <2>2
  <2> QED
    BY <1>1, <2>1, <2>3
<1>5. c = <<c[1], c[2]>>
  BY <1>3, <1>4 DEF Words
<1> QED
  BY <1>4, <1>5 DEF c, a, b

LEMMA JoiningTwo ==
  ASSUME NEW v \in Text, NEW w \in Text, NEW t \in Text
  PROVE  Joining(<<v>>, <<w, t>>) = <<v \o w, t>>
<1>1. Front(<<v>>) = <<>> /\ Last(<<v>>) = v /\ <<w, t>>[1] = w /\ Tail(<<w, t>>) = <<t>>
  BY DEF Front, Last
<1> DEFINE x == v \o w
<1>2. Joining(<<v>>, <<w, t>>) = (<<>> \o <<x>>) \o <<t>>
  BY <1>1 DEF Joining
<1> HIDE DEF x
<1>3. (<<>> \o <<x>>) \o <<t>> = <<x, t>>
  <2>1. <<>> \o <<x>> = <<x>>
    OBVIOUS
  <2>2. <<x>> \o <<t>> = <<x, t>>
    <3>1. x \in Text
      BY DEF Text, x
    <3> QED
      BY <3>1, TwoOnes
  <2> QED
    BY <2>1, <2>2
<1> QED
  BY <1>2, <1>3 DEF x

(* Which form an option has, by its kind.                                  *)
LEMMA FormKinds ==
  ASSUME NEW id, NEW item \in Forms(id)
  PROVE  /\ item.id = id
         /\ arguments[id].class # "STRING" /\ item.form = "short" =>
              arguments[id].short # None /\ item = Item(id, "short", Yes, <<Lettered(arguments[id])>>)
         /\ arguments[id].class # "STRING" /\ item.form = "joined" =>
              arguments[id].short # None /\ item = Item(id, "joined", Yes, <<<<arguments[id].short>>>>)
         /\ arguments[id].class = "STRING" /\ item.form = "joined" =>
              \E t \in Texts : /\ item = Item(id, "joined", t, <<<<arguments[id].short>>, t>>)
                              /\ arguments[id].short # None
<1> DEFINE a == arguments[id]
           l1 == <<Dashed(a)>>
           l2 == <<Dashed(a) \o <<"=", "false">>>>
           s1 == <<Lettered(a)>>
           j1 == <<<<a.short>>>>
           l3(t) == <<Dashed(a) \o <<"=">> \o t>>
           s3(t) == <<Lettered(a), t>>
           j3(t) == <<<<a.short>>, t>>
           s4(t) == <<Lettered(a) \o t>>
           none == <<>>
<1>1. FlagForm(item, id, a) \/ StringForm(item, id, a)
  BY FormsAre
<1>2. \/ /\ a.class # "STRING"
         /\ \/ item = Item(id, "long", Yes, l1)
            \/ item = Item(id, "long", No, l2)
            \/ a.short # None /\ item = Item(id, "short", Yes, s1)
            \/ a.short # None /\ item = Item(id, "joined", Yes, j1)
      \/ /\ a.class = "STRING"
         /\ \/ item = Item(id, "long", none, l1)
            \/ \E t \in Texts : \/ item = Item(id, "long", t, l3(t))
                                \/ item = Item(id, "short", t, s3(t))
                                \/ a.short # None /\ item = Item(id, "joined", t, j3(t))
                                \/ item = Item(id, "last", t, s4(t))
  BY <1>1 DEF FlagForm, StringForm
<1> HIDE DEF a, l1, l2, s1, j1, l3, s3, j3, s4, none
<1>3. /\ item.id = id
      /\ a.class # "STRING" /\ item.form = "short" =>
           a.short # None /\ item = Item(id, "short", Yes, s1)
      /\ a.class # "STRING" /\ item.form = "joined" =>
           a.short # None /\ item = Item(id, "joined", Yes, j1)
      /\ a.class = "STRING" /\ item.form = "joined" =>
           \E t \in Texts : item = Item(id, "joined", t, j3(t)) /\ a.short # None
  BY <1>2, ItemFields
<1> QED
  BY <1>3 DEF a, s1, j1, j3

DoesBoth(argv, p, args, item, other) ==
  \E v, w : /\ Right(item, v) /\ Right(other, w)
            /\ At(argv, p, Given(Given(args, item.id, v), other.id, w))

LEMMA JoinedRead ==
  ASSUME NamesInv, Fresh, NEW id \in Known, NEW item \in Forms(id), NEW oid \in Known,
         NEW other \in Forms(oid), item.form # "joined", other.form = "joined",
         MayFollow(item, other), NEW argv \in Words, NEW p, NEW args, At(argv, p, args),
         Follows(argv, p, Joining(item.words, other.words))
  PROVE  DoesBoth(argv, p + Len(Joining(item.words, other.words)), args, item, other)
<1> DEFINE a == arguments[id]
           b == arguments[oid]
           l == Lettered(a)
           c == <<b.short>>
<1>1. /\ id \in DOMAIN arguments /\ a \in ArgumentRecord
      /\ oid \in DOMAIN arguments /\ b \in ArgumentRecord
  BY KnownNames
<1>4. p \in Nat
  BY DEF Follows
<1>5. item.id = id
  BY FormKinds
<1>6. item.form = "short" /\ a.class # "STRING"
  BY <1>5 DEF MayFollow
<1>7. a.short # None /\ item.value = Yes /\ item.words = <<l>>
  <2>1. a.short # None /\ item = Item(id, "short", Yes, <<l>>)
    BY <1>6, FormKinds
  <2> HIDE DEF l
  <2> QED
    BY <2>1, ItemFields
<1>8. l \in Text
  BY <1>7, LetteredFields
<1>9. Right(item, Nothing)
  BY <1>1, <1>5, <1>6, <1>7, FalseTextFields DEF Right
<1> HIDE DEF l
<1>10. CASE b.class # "STRING"
  <2>1. other = Item(oid, "joined", Yes, <<c>>) /\ b.short # None
    BY <1>10, FormKinds
  <2>2. other.id = oid /\ other.value = Yes /\ other.words = <<c>>
    BY <2>1, ItemFields
  <2>3. c \in Text
    BY <1>1, TextOne DEF ArgumentRecord
  <2>4. c = <<b.short>>
    OBVIOUS
  <2> HIDE DEF c
  <2> DEFINE w == l \o c
             words == Joining(item.words, other.words)
  <2>5. words = <<w>>
    BY <1>7, <1>8, <2>2, <2>3, JoiningOne
  <2> HIDE DEF w, words
  <2>6. IsNext(argv, p, w) /\ Len(words) = 1
    BY <2>5, FollowsOne DEF words
  <2>7. IsNext(argv, p, Lettered(arguments[id]) \o <<arguments[oid].short>>)
    BY <2>4, <2>6 DEF w, l
  <2>8. At(argv, p + 1, Given(Given(args, id, Nothing), oid, Nothing))
    BY <1>6, <1>7, <1>10, <2>1, <2>7, ReadJoined
  <2>9. Right(other, Nothing)
    BY <1>1, <1>10, <2>2, FalseTextFields DEF Right
  <2>10. DoesBoth(argv, p + Len(words), args, item, other)
    BY <1>5, <1>9, <2>2, <2>6, <2>8, <2>9 DEF DoesBoth
  <2> QED
    BY <2>10 DEF words
<1>11. CASE b.class = "STRING"
  <2>1. PICK t \in Texts : other = Item(oid, "joined", t, <<c, t>>) /\ b.short # None
    BY <1>11, FormKinds
  <2>2. other.id = oid /\ other.value = t /\ other.words = <<c, t>>
    BY <2>1, ItemFields
  <2>3. c \in Text /\ t \in Text
    BY <1>1, TextOne, SymbolSeqs DEF ArgumentRecord, Text
  <2>4. c = <<b.short>>
    OBVIOUS
  <2> HIDE DEF c
  <2> DEFINE w == l \o c
             words == Joining(item.words, other.words)
  <2>5. words = <<w, t>>
    <3>1. Joining(<<l>>, <<c, t>>) = <<l \o c, t>>
      BY <1>8, <2>3, JoiningTwo
    <3> QED
      BY <1>7, <2>2, <3>1
  <2> HIDE DEF w, words
  <2>6. IsNext(argv, p, w) /\ IsNext(argv, p + 1, t) /\ Len(words) = 2
    BY <2>5, FollowsTwo DEF words
  <2>7. IsNext(argv, p, Lettered(arguments[id]) \o <<arguments[oid].short>>)
    BY <2>4, <2>6 DEF w, l
  <2>8. At(argv, p + 2, Given(Given(args, id, Nothing), oid, t))
    BY <1>6, <1>7, <1>11, <2>1, <2>6, <2>7, ReadJoined
  <2>9. Right(other, t)
    BY <1>1, <1>11, <2>2, <2>3 DEF Right
  <2>10. DoesBoth(argv, p + Len(words), args, item, other)
    BY <1>5, <1>9, <2>2, <2>6, <2>8, <2>9 DEF DoesBoth
  <2> QED
    BY <2>10 DEF words
<1> QED
  BY <1>10, <1>11

-----------------------------------------------------------------------------
(* The arguments account for what was meant.                               *)
About(items, id) == {n \in DOMAIN items : items[n].id = id}
Wanted(items, id) == items[Max(About(items, id))].value

Accounts(items, args) ==
  /\ Kept(args, arguments)
  /\ \A id \in DOMAIN arguments :
       /\ About(items, id) = {} => args[id] = arguments[id]
       /\ About(items, id) # {} => args[id].set /\ args[id].value = Wanted(items, id)

Extends(more, items, n, item) ==
  /\ n \in Nat /\ DOMAIN items = 1 .. n /\ DOMAIN more = 1 .. n + 1
  /\ more[n + 1] = item /\ \A i \in 1 .. n : more[i] = items[i]

LEMMA AboutExtended ==
  ASSUME NEW more, NEW items, NEW n, NEW item, Extends(more, items, n, item), NEW id
  PROVE  /\ item.id = id => About(more, id) # {} /\ Wanted(more, id) = item.value
         /\ item.id # id => /\ About(more, id) = About(items, id)
                            /\ About(items, id) # {} => Wanted(more, id) = Wanted(items, id)
<1>1. n \in Nat /\ DOMAIN items = 1 .. n /\ DOMAIN more = 1 .. n + 1
      /\ more[n + 1] = item /\ \A i \in 1 .. n : more[i] = items[i]
  BY DEF Extends
<1>2. CASE item.id = id
  <2> DEFINE A == About(more, id)
  <2>1. n + 1 \in A /\ A \subseteq 0 .. n + 1 /\ A # {} /\ n + 1 \in Nat
    BY <1>1, <1>2 DEF About
  <2> HIDE DEF A
  <2>2. Max(A) \in A /\ \A x \in A : x <= Max(A)
    BY <2>1, Greatest
  <2>3. Max(A) = n + 1
    <3> DEFINE m == Max(A)
    <3>1. m \in 0 .. n + 1 /\ n + 1 <= m
      BY <2>1, <2>2
    <3> HIDE DEF m
    <3>2. m = n + 1
      BY <1>1, <3>1
    <3> QED
      BY <3>2 DEF m
  <2> QED
    BY <1>1, <1>2, <2>1, <2>3 DEF Wanted, A
<1>3. CASE item.id # id
  <2> DEFINE A == About(items, id)
  <2>1. About(more, id) = A
    BY <1>1, <1>3 DEF About
  <2>2. A \subseteq 1 .. n /\ A \subseteq 0 .. n
    BY <1>1 DEF About
  <2>3. ASSUME A # {} PROVE Wanted(more, id) = Wanted(items, id)
    <3> HIDE DEF A
    <3>1. Max(A) \in A
      BY <1>1, <2>2, <2>3, Greatest
    <3>2. more[Max(A)] = items[Max(A)]
      BY <1>1, <2>2, <3>1
    <3> QED
      BY <2>1, <3>2 DEF Wanted, A
  <2> QED
    BY <1>3, <2>1, <2>3
<1> QED
  BY <1>2, <1>3

LEMMA AccountsNone ==
  ASSUME ArgsRight(arguments)
  PROVE  Accounts(<<>>, arguments)
<1>1. Kept(arguments, arguments)
  BY DEF Kept, ArgsRight
<1>2. \A id : About(<<>>, id) = {}
  BY DEF About
<1> QED
  BY <1>1, <1>2 DEF Accounts

LEMMA RightValue ==
  ASSUME NEW item, NEW v, Right(item, v), NEW a \in ArgumentRecord,
         a.class = arguments[item.id].class
  PROVE  WithValue(a, v).set /\ WithValue(a, v).value = item.value
<1>1. v \in Seq(Symbol)
  BY DEF Right, Text
<1>2. /\ WithValue(a, v).set
      /\ WithValue(a, v).value = IF a.class = "STRING" THEN v ELSE v # <<"false">>
  BY <1>1, WithValueFields
<1>3. CASE a.class = "STRING"
  BY <1>2, <1>3 DEF Right
<1>4. CASE a.class # "STRING"
  <2>1. CASE item.value = Yes /\ v # FalseText
    <3>1. (v # <<"false">>) = TRUE
      BY <2>1 DEF FalseText
    <3> QED
      BY <1>2, <1>4, <2>1, <3>1 DEF Yes
  <2>2. CASE item.value = No /\ v = FalseText
    <3>1. (v # <<"false">>) = FALSE
      BY <2>2 DEF FalseText
    <3> QED
      BY <1>2, <1>4, <2>2, <3>1 DEF No
  <2> QED
    BY <1>4, <2>1, <2>2 DEF Right
<1> QED
  BY <1>3, <1>4

LEMMA AccountsMore ==
  ASSUME ArgsRight(arguments), NEW items, NEW args, Accounts(items, args), NEW item, NEW v,
         Right(item, v), NEW more, NEW n, Extends(more, items, n, item)
  PROVE  Accounts(more, Given(args, item.id, v))
<1> DEFINE given == Given(args, item.id, v)
<1>1. v \in Seq(Symbol) /\ item.id \in DOMAIN arguments
  BY DEF Right, Text
<1>2. /\ Kept(args, arguments) /\ args \in Seq(ArgumentRecord) /\ DOMAIN args = DOMAIN arguments
  BY DEF Accounts, Kept
<1>3. Kept(given, arguments)
  BY <1>1, <1>2, GivenKept
<1>4. \A id \in DOMAIN args : given[id] = IF id = item.id THEN WithValue(args[item.id], v) ELSE args[id]
  BY <1>1, <1>2, GivenFields
<1> HIDE DEF given
<1>5. ASSUME NEW id \in DOMAIN arguments
      PROVE  /\ About(more, id) = {} => given[id] = arguments[id]
             /\ About(more, id) # {} => given[id].set /\ given[id].value = Wanted(more, id)
  <2>1. CASE id = item.id
    <3>1. About(more, id) # {} /\ Wanted(more, id) = item.value
      BY <2>1, AboutExtended
    <3>2. given[id] = WithValue(args[id], v)
      BY <1>2, <1>4, <2>1
    <3>3. args[id] \in ArgumentRecord /\ args[id].class = arguments[item.id].class
      BY <1>2, <2>1 DEF Kept
    <3>4. WithValue(args[id], v).set /\ WithValue(args[id], v).value = item.value
      BY <3>3, RightValue
    <3> QED
      BY <3>1, <3>2, <3>4
  <2>2. CASE id # item.id
    <3>1. /\ About(more, id) = About(items, id)
          /\ About(items, id) # {} => Wanted(more, id) = Wanted(items, id)
      BY <2>2, AboutExtended
    <3>2. given[id] = args[id]
      BY <1>2, <1>4, <2>2
    <3> QED
      BY <3>1, <3>2 DEF Accounts
  <2> QED
    BY <2>1, <2>2
<1> QED
  BY <1>3, <1>5 DEF Accounts, given

(* A word after another.                                                   *)
LEMMA FollowsJoined ==
  ASSUME NEW argv, NEW p, NEW v \in Words, NEW w \in Words, NEW both, IsJoin(both, v, w),
         Follows(argv, p, both)
  PROVE  /\ Follows(argv, p, v) /\ Follows(argv, p + Len(v), w)
         /\ Len(both) = Len(v) + Len(w) /\ Len(v) \in Nat /\ Len(w) \in Nat
<1>2. Joined(both, v, w)
  BY WordsJoin
<1>3. p \in Nat /\ \A i \in 1 .. Len(both) : IsNext(argv, p + i - 1, both[i])
  BY DEF Follows
<1>4. /\ Len(both) = Len(v) + Len(w) /\ Len(v) \in Nat /\ Len(w) \in Nat
      /\ \A i \in 1 .. Len(v) : both[i] = v[i]
      /\ \A i \in 1 .. Len(w) : both[Len(v) + i] = w[i]
  BY <1>2 DEF Joined
<1> DEFINE m == Len(v)
           k == Len(w)
           l == Len(both)
<1>5. m \in Nat /\ k \in Nat /\ l = m + k
  BY <1>4
<1>6. /\ \A i \in 1 .. l : IsNext(argv, p + i - 1, both[i])
      /\ \A i \in 1 .. m : both[i] = v[i]
      /\ \A i \in 1 .. k : both[m + i] = w[i]
  BY <1>3, <1>4
<1> HIDE DEF m, k, l
<1>7. ASSUME NEW i \in 1 .. m PROVE IsNext(argv, p + i - 1, v[i])
  <2>1. i \in 1 .. l
    BY <1>5
  <2> QED
    BY <1>6, <2>1
<1>8. ASSUME NEW i \in 1 .. k PROVE IsNext(argv, p + m + i - 1, w[i])
  <2>1. m + i \in 1 .. l /\ p + (m + i) - 1 = p + m + i - 1
    BY <1>3, <1>5
  <2>2. IsNext(argv, p + (m + i) - 1, both[m + i])
    BY <1>6, <2>1
  <2> QED
    BY <1>6, <2>1, <2>2
<1>9. p + m \in Nat
  BY <1>3, <1>5
<1> QED
  BY <1>3, <1>4, <1>7, <1>8, <1>9 DEF Follows, m, k

(* Everything meant is read.                                               *)
LEMMA WishesRead ==
  ASSUME NamesInv, Fresh, NEW items \in Wishes, NEW argv \in Words,
         Follows(argv, 0, Written(items))
  PROVE  \E args : At(argv, Len(Written(items)), args) /\ Accounts(items, args)
<1>1. At(argv, 0, arguments)
  <2>1. Len(argv) \in Nat
    BY DEF Words
  <2>2. Reading(argv)[0] = Scan(arguments, 1, No, No, No)
    BY <2>1, ReadingSteps DEF Begun
  <2> QED
    BY <2>2 DEF At
<1>2. Accounts(<<>>, arguments)
  BY AccountsNone DEF NamesInv
<1>3. ArgsRight(arguments) /\ handles \subseteq DOMAIN arguments
  BY DEF NamesInv
<1>4. \A item \in Items : \E id \in Known : item \in Forms(id)
  BY DEF Items
<1>5. \A item \in Items : item.words \in Words /\ item.words # <<>>
  BY <1>3, KnownArguments, FormWords
<1>6. CASE items = <<>> /\ Written(items) = <<>>
  <2>1. Len(Written(items)) = 0
    BY <1>6
  <2> QED
    BY <1>1, <1>2, <1>6, <2>1
<1>7. ASSUME NEW item \in Items, item.form # "joined", items = <<item>>,
             Written(items) = item.words
      PROVE  \E args : At(argv, Len(Written(items)), args) /\ Accounts(items, args)
  <2>1. Does(argv, 0 + Len(item.words), arguments, item)
    BY <1>1, <1>4, <1>7, ItemRead
  <2>2. 0 + Len(item.words) = Len(item.words)
    BY <1>5 DEF Words
  <2>3. PICK v : Right(item, v) /\ At(argv, Len(item.words), Given(arguments, item.id, v))
    BY <2>1, <2>2 DEF Does
  <2>4. Extends(items, <<>>, 0, item)
    BY <1>7 DEF Extends
  <2>5. Accounts(items, Given(arguments, item.id, v))
    BY <1>2, <1>3, <2>3, <2>4, AccountsMore
  <2> QED
    BY <1>7, <2>3, <2>5
<1>8. ASSUME NEW first \in Items, NEW second \in Items, first.form # "joined",
             MayFollow(first, second), items = <<first, second>>,
             Written(items) = IF second.form = "joined" THEN Joining(first.words, second.words)
                              ELSE first.words \o second.words
      PROVE  \E args : At(argv, Len(Written(items)), args) /\ Accounts(items, args)
  <2>1. DoesBoth(argv, Len(Written(items)), arguments, first, second)
    <3>1. CASE second.form = "joined"
      <4>1. Written(items) = Joining(first.words, second.words)
        BY <1>8, <3>1
      <4>2. DoesBoth(argv, 0 + Len(Joining(first.words, second.words)), arguments, first, second)
        BY <1>1, <1>4, <1>8, <3>1, <4>1, JoinedRead
      <4>3. 0 + Len(Written(items)) = Len(Written(items))
        <5>1. Written(items) \in Words
          BY <1>5, <4>1, JoiningWords
        <5> QED
          BY <5>1 DEF Words
      <4> QED
        BY <4>1, <4>2, <4>3
    <3>2. CASE second.form # "joined"
      <4> DEFINE v == first.words
                 w == second.words
                 both == Written(items)
                 zero == 0
      <4>1. IsJoin(both, v, w) /\ v \in Words /\ w \in Words
        BY <1>5, <1>8, <3>2 DEF IsJoin
      <4> HIDE DEF both, v, w, zero
      <4>7. Follows(argv, zero, both)
        BY DEF zero, both
      <4>2. /\ Follows(argv, zero, v) /\ Follows(argv, zero + Len(v), w)
            /\ Len(both) = Len(v) + Len(w) /\ Len(v) \in Nat /\ Len(w) \in Nat
        BY <4>1, <4>7, FollowsJoined
      <4>3. zero + Len(v) = Len(v)
        BY <4>2 DEF zero
      <4>4. Does(argv, zero + Len(v), arguments, first)
        BY <1>1, <1>4, <1>8, <4>2, ItemRead DEF v, zero
      <4>5. PICK x : Right(first, x) /\ At(argv, Len(v), Given(arguments, first.id, x))
        BY <4>3, <4>4 DEF Does
      <4> DEFINE given == Given(arguments, first.id, x)
      <4>8. At(argv, Len(v), given)
        BY <4>5
      <4> HIDE DEF given
      <4>9. Follows(argv, Len(v), w)
        BY <4>2, <4>3
      <4>6. Does(argv, Len(v) + Len(w), given, second)
        BY <1>4, <3>2, <4>8, <4>9, ItemRead DEF w
      <4>10. PICK y : Right(second, y) /\ At(argv, Len(both), Given(given, second.id, y))
        BY <4>2, <4>6 DEF Does
      <4> QED
        BY <4>5, <4>10 DEF DoesBoth, given, both
    <3> QED
      BY <3>1, <3>2
  <2>2. PICK v, w : /\ Right(first, v) /\ Right(second, w)
                    /\ At(argv, Len(Written(items)),
                          Given(Given(arguments, first.id, v), second.id, w))
    BY <2>1 DEF DoesBoth
  <2> DEFINE one == <<first>>
             given == Given(arguments, first.id, v)
  <2>3. Extends(one, <<>>, 0, first)
    BY DEF Extends
  <2>4. Extends(items, one, 1, second)
    BY <1>8 DEF Extends
  <2> HIDE DEF one, given
  <2>5. Accounts(one, given)
    BY <1>2, <1>3, <2>2, <2>3, AccountsMore DEF given
  <2>6. Accounts(items, Given(given, second.id, w))
    BY <1>3, <2>2, <2>4, <2>5, AccountsMore
  <2> QED
    BY <2>2, <2>6 DEF given
<1> QED
  BY <1>6, <1>7, <1>8, WrittenIs

-----------------------------------------------------------------------------
(* The whole command line: the options, perhaps an unknown name, the end.  *)
LEMMA WordsEqual ==
  ASSUME NEW s \in Words, NEW t \in Words, Len(s) = Len(t), \A i \in 1 .. Len(s) : s[i] = t[i]
  PROVE  s = t
<1> DEFINE S == Text
<1>1. s \in Seq(S) /\ t \in Seq(S)
  BY DEF Words, Text
<1> HIDE DEF S
<1> QED
  BY <1>1

LEMMA RestIs ==
  ASSUME NEW v \in Words, NEW e \in Words, NEW both, IsJoin(both, v, e), NEW r,
         IsPart(r, both, Len(v) + 1, Len(both))
  PROVE  r = e
<1>1. both \in Words /\ Joined(both, v, e)
  BY WordsJoin
<1> DEFINE m == Len(v)
           k == Len(e)
           l == Len(both)
<1>2. /\ m \in Nat /\ k \in Nat /\ l = m + k
      /\ \A i \in 1 .. k : both[m + i] = e[i]
  BY <1>1 DEF Joined
<1>3. r = SubSeq(both, m + 1, l)
  BY DEF IsPart
<1>4. both \in Seq(Text)
  BY <1>1 DEF Words, Text
<1> HIDE DEF m, k
<1>5. \A i \in m + 1 .. l : i \in 1 .. Len(both)
  BY <1>2 DEF l
<1>6. r \in Seq(Text)
  BY <1>2, <1>3, <1>4, <1>5
<1> HIDE DEF l
<1>7. Len(r) = k /\ \A i \in 1 .. k : r[i] = both[m + i]
  <2>1. Len(r) = l - (m + 1) + 1
    BY <1>2, <1>3
  <2>2. \A i \in 1 .. l - (m + 1) + 1 : r[i] = both[m + 1 + i - 1]
    BY <1>2, <1>3
  <2>3. l - (m + 1) + 1 = k
    BY <1>2
  <2>4. ASSUME NEW i \in 1 .. k PROVE r[i] = both[m + i]
    <3>1. m + 1 + i - 1 = m + i
      BY <1>2
    <3>2. r[i] = both[m + 1 + i - 1]
      BY <2>2, <2>3
    <3> QED
      BY <3>1, <3>2
  <2> QED
    BY <2>1, <2>3, <2>4
<1>8. r \in Words
  BY <1>6 DEF Words, Text
<1> QED
  BY <1>2, <1>7, <1>8, WordsEqual DEF k

LEMMA FollowsAll ==
  ASSUME NEW argv \in Words
  PROVE  Follows(argv, 0, argv)
<1> DEFINE l == Len(argv)
<1>1. l \in Nat
  BY DEF Words
<1> HIDE DEF l
<1>2. ASSUME NEW i \in 1 .. l PROVE IsNext(argv, 0 + i - 1, argv[i])
  <2>1. 0 + i - 1 \in 0 .. l - 1 /\ 0 + i - 1 + 1 = i
    BY <1>1
  <2> QED
    BY <2>1 DEF IsNext, l
<1> QED
  BY <1>2 DEF Follows, l

LEMMA EndFirst ==
  ASSUME NEW dashes \in BOOLEAN, NEW words \in Finals, End(dashes, words) # <<>>
  PROVE  Dashes(End(dashes, words)[1]) = 0 \/ End(dashes, words)[1] = <<"-", "-">>
<1> DEFINE d == <<"-", "-">>
<1>1. words \in Words /\ d \in Text
  BY SymbolSeqs, Symbols, SymbolTuples DEF Words, Text
<1>2. words # <<>> => Dashes(words[1]) = 0
  BY CommandLineAssumption
<1>3. End(dashes, words) = (IF dashes THEN <<d>> ELSE <<>>) \o words
  BY DEF End
<1> HIDE DEF d
<1>4. CASE dashes
  <2> DEFINE one == <<d>>
             both == one \o words
  <2>1. one \in Words /\ Len(one) = 1 /\ one[1] = d
    BY <1>1 DEF Words, Text
  <2>2. IsJoin(both, one, words) /\ End(dashes, words) = both
    BY <1>3, <1>4 DEF IsJoin
  <2> HIDE DEF one, both
  <2>3. Joined(both, one, words)
    BY <1>1, <2>1, <2>2, WordsJoin
  <2>4. 1 \in 1 .. Len(one)
    BY <2>1
  <2>5. both[1] = d
    BY <2>1, <2>3, <2>4 DEF Joined
  <2> QED
    BY <2>2, <2>5 DEF d
<1>5. CASE ~ dashes
  <2>1. End(dashes, words) = <<>> \o words
    BY <1>3, <1>5
  <2>2. <<>> \o words = words
    BY <1>1 DEF Words
  <2> QED
    BY <1>2, <2>1, <2>2
<1> QED
  BY <1>4, <1>5

(* The words behind what was read: the loop ends at them.                  *)
LEMMA EndRead ==
  ASSUME NEW argv \in Words, NEW v \in Words, NEW e \in Words, IsJoin(argv, v, e), NEW args,
         At(argv, Len(v), args),
         e # <<>> => Dashes(e[1]) = 0 \/ e[1] = <<"-", "-">>
  PROVE  /\ Parsed(argv).arguments = args /\ Parsed(argv).unknown = No
         /\ SubSeq(argv, Parsed(argv).i, Len(argv)) = e
<1> DEFINE p == Len(v)
<1>1. /\ Follows(argv, 0, v) /\ Follows(argv, 0 + Len(v), e)
      /\ Len(argv) = Len(v) + Len(e) /\ Len(v) \in Nat /\ Len(e) \in Nat
  <2> DEFINE zero == 0
  <2>1. Follows(argv, zero, argv)
    BY FollowsAll
  <2> HIDE DEF zero
  <2>2. /\ Follows(argv, zero, v) /\ Follows(argv, zero + Len(v), e)
        /\ Len(argv) = Len(v) + Len(e) /\ Len(v) \in Nat /\ Len(e) \in Nat
    BY <2>1, FollowsJoined
  <2> QED
    BY <2>2 DEF zero
<1>2. p \in Nat /\ 0 + p = p /\ Follows(argv, p, e)
  BY <1>1
<1>3. \E y : Parsed(argv) = Scan(args, p + 1, No, No, y)
  <2>1. CASE e = <<>>
    <3>1. Len(argv) = p
      BY <1>1, <2>1
    <3>2. Parsed(argv) = Scan(args, p + 1, No, No, No)
      BY <3>1, ParsedIs DEF At
    <3> QED
      BY <3>2
  <2>2. CASE e # <<>>
    <3> DEFINE h == e[1]
    <3>1. 1 \in 1 .. Len(e)
      BY <1>1, <2>2 DEF Words
    <3>2. IsNext(argv, p, h)
      <4> HIDE DEF p, h
      <4>1. IsNext(argv, p + 1 - 1, e[1]) /\ p + 1 - 1 = p
        BY <1>2, <3>1 DEF Follows
      <4> QED
        BY <4>1 DEF h
    <3>3. Dashes(h) = 0 \/ h = <<"-", "-">>
      BY <2>2
    <3> DEFINE s == Scan(args, p + 1, No, No, Yes)
    <3> HIDE DEF h
    <3>4. Reading(argv)[p + 1] = s
      BY <3>2, <3>3, WordAt
    <3>5. s.ended = Yes
      BY ScanFields
    <3>6. p + 1 \in 0 .. Len(argv)
      <4> DEFINE l == Len(argv)
                 k == Len(e)
      <4>1. l = p + k /\ k \in Nat /\ 1 \in 1 .. k
        BY <1>1, <3>1
      <4> HIDE DEF l, k, p
      <4>2. p + 1 \in 0 .. l
        BY <1>2, <4>1
      <4> QED
        BY <4>2 DEF l
    <3> HIDE DEF s, p
    <3>7. Parsed(argv) = s
      BY <3>4, <3>5, <3>6, NothingRead
    <3> QED
      BY <3>7 DEF s
  <2> QED
    BY <2>1, <2>2
<1> HIDE DEF p
<1>4. Parsed(argv).arguments = args /\ Parsed(argv).unknown = No /\ Parsed(argv).i = p + 1
  BY <1>3, ScanFields
<1> DEFINE r == SubSeq(argv, p + 1, Len(argv))
<1>5. IsPart(r, argv, Len(v) + 1, Len(argv))
  BY DEF IsPart, p
<1> HIDE DEF r
<1>6. r = e
  BY <1>5, RestIs
<1> QED
  BY <1>4, <1>6 DEF r

LEMMA UnknownRead ==
  ASSUME NamesInv, NEW argv \in Words, NEW p, NEW args, At(argv, p, args),
         NEW word \in {<<"-", "-", "zz">>, <<"-", "z">>}, IsNext(argv, p, word)
  PROVE  Parsed(argv).arguments = args /\ Parsed(argv).unknown = Yes
<1>1. p \in Nat /\ p + 1 <= Len(argv) /\ argv[p + 1] = word /\ Len(argv) \in Nat
  BY NextFields
<1>2. Get(shortOptions, <<"z">>) = 0 /\ Get(longOptions, <<"zz">>) = 0
  BY UnknownNames
<1>3. \E i : Reading(argv)[p + 1] = Scan(args, i, No, Yes, No)
  <2>1. CASE word = <<"-", "-", "zz">>
    <3> DEFINE key == <<"zz">>
               b == 0
    <3>1. Splits(word, key, Nothing)
      BY <2>1, Symbols, SplitsName DEF Nothing
    <3>2. word \in Text /\ Len(word) = 3 /\ word[1] = "-" /\ word[2] = "-"
      BY <2>1, Symbols, SymbolTuples DEF Text
    <3>3. LongWord(word)
      BY <3>2 DEF LongWord
    <3>4. b = Get(longOptions, key)
      BY <1>2
    <3> HIDE DEF key, b
    <3>5. IF b = 0 THEN Reading(argv)[p + 1] = Scan(args, p + 1, No, Yes, No)
          ELSE At(argv, p + 1, Given(args, b, Nothing))
      BY <3>1, <3>3, <3>4, LongRead
    <3> QED
      BY <3>5 DEF b
  <2>2. CASE word = <<"-", "z">>
    <3>1. word \in Text /\ Len(word) = 2 /\ word[1] = "-" /\ word[2] = "z"
      BY <2>2, Symbols, SymbolTuples DEF Text
    <3>2. ShortWord(word)
      BY <3>1 DEF ShortWord
    <3>3. Remains(argv, p, args, 1)
      BY <3>2, RemainsFirst
    <3>4. Len(argv[p + 1]) = 2 /\ 0 = Get(shortOptions, <<argv[p + 1][2]>>)
      BY <1>1, <1>2, <3>1
    <3> QED
      BY <1>1, <3>3, <3>4, RemainsUnknown
  <2> QED
    BY <2>1, <2>2
<1>4. PICK i : Reading(argv)[p + 1] = Scan(args, i, No, Yes, No)
  BY <1>3
<1> DEFINE s == Scan(args, i, No, Yes, No)
           q == p + 1
<1>5. s.unknown = Yes /\ s.arguments = args
  BY ScanFields
<1>6. q \in 0 .. Len(argv)
  <2> DEFINE l == Len(argv)
  <2>1. l \in Nat /\ p + 1 <= l
    BY <1>1
  <2> HIDE DEF l
  <2>2. q \in 0 .. l
    BY <1>1, <2>1
  <2> QED
    BY <2>2 DEF l
<1> HIDE DEF s, q
<1>7. Reading(argv)[q] = s
  BY <1>4 DEF q, s
<1>8. Parsed(argv) = s
  BY <1>5, <1>6, <1>7, NothingRead
<1> QED
  BY <1>5, <1>8

IsCommandLine(argv, items, unknown, dashes, words) ==
  argv = Written(items) \o unknown \o End(dashes, words)

LEMMA CommandLineRead ==
  ASSUME NamesInv, Fresh, NEW items \in Wishes, NEW unknown \in Unknowns, NEW dashes \in BOOLEAN,
         NEW words \in Finals, NEW argv, IsCommandLine(argv, items, unknown, dashes, words)
  PROVE  /\ Accounts(items, Parsed(argv).arguments)
         /\ unknown # <<>> => Parsed(argv).unknown = Yes
         /\ unknown = <<>> => /\ Parsed(argv).unknown = No
                              /\ SubSeq(argv, Parsed(argv).i, Len(argv)) = End(dashes, words)
<1> DEFINE e == End(dashes, words)
           w == Written(items)
           x == w \o unknown
<1>1. argv \in Words /\ unknown \in Words /\ e \in Words
  BY ArgvWords DEF NamesInv, IsCommandLine
<1>2. w \in Words
  BY WrittenWords DEF NamesInv
<1>3. e # <<>> => Dashes(e[1]) = 0 \/ e[1] = <<"-", "-">>
  BY EndFirst
<1>4. argv = x \o e
  BY DEF IsCommandLine
<1> HIDE DEF w, e
<1>5. x \in Words
  <2>1. \A a, b \in Words : a \o b \in Words
    BY DEF Words
  <2> QED
    BY <1>1, <1>2, <2>1
<1>6. IsJoin(x, w, unknown) /\ IsJoin(argv, x, e)
  BY <1>4 DEF IsJoin
<1> HIDE DEF x
<1> DEFINE zero == 0
<1>7. Follows(argv, zero, argv)
  BY <1>1, FollowsAll
<1> HIDE DEF zero
<1>8. Follows(argv, zero, x)
  BY <1>1, <1>5, <1>6, <1>7, FollowsJoined
<1>9. Follows(argv, zero, w) /\ Follows(argv, zero + Len(w), unknown) /\ Len(w) \in Nat
  BY <1>1, <1>2, <1>6, <1>8, FollowsJoined
<1>10. PICK args : At(argv, Len(w), args) /\ Accounts(items, args)
  <2>1. Follows(argv, 0, Written(items))
    BY <1>9 DEF zero, w
  <2> QED
    BY <1>1, <2>1, WishesRead DEF w
<1>11. CASE unknown = <<>>
  <2>1. x = w
    <3>1. w \o <<>> = w
      BY <1>2 DEF Words
    <3> QED
      BY <1>11, <3>1 DEF x
  <2>2. /\ Parsed(argv).arguments = args /\ Parsed(argv).unknown = No
        /\ SubSeq(argv, Parsed(argv).i, Len(argv)) = e
    BY <1>1, <1>2, <1>3, <1>6, <1>10, <2>1, EndRead
  <2> QED
    BY <1>10, <1>11, <2>2 DEF e
<1>12. CASE unknown # <<>>
  <2>1. PICK word \in {<<"-", "-", "zz">>, <<"-", "z">>} : unknown = <<word>>
    BY <1>12 DEF Unknowns
  <2> HIDE DEF zero
  <2>2. zero + Len(w) = Len(w)
    BY <1>9 DEF zero
  <2>3. IsNext(argv, Len(w), word)
    BY <1>9, <2>1, <2>2, FollowsOne
  <2>4. Parsed(argv).arguments = args /\ Parsed(argv).unknown = Yes
    BY <1>1, <1>10, <2>3, UnknownRead
  <2> QED
    BY <1>10, <1>12, <2>4
<1> QED
  BY <1>11, <1>12

-----------------------------------------------------------------------------
(* Nothing is set before the words are parsed, which happens once.         *)
ParseInv == NamesInv /\ (phase = "defining" => Fresh) /\ ParseRight

LEMMA FreshDefine ==
  ASSUME NamesInv, Fresh, NEW option \in Options, Define(option)
  PROVE  Fresh'
<1> DEFINE n == Len(arguments) + 1
           new == Argument(option)
           newShort == option.short = None \/ ~ Has(shortOptions, <<option.short>>)
<1>1. /\ arguments' = Append(arguments, new)
      /\ handles' = handles \/ (newShort /\ handles' = handles \cup {n})
      /\ \/ helpArgument' = helpArgument
         \/ option.class = "HELP" /\ helpArgument' = n
  BY DEF Define
<1>2. /\ new \in ArgumentRecord /\ new.class = option.class /\ new.short = option.short
      /\ ~ new.set /\ new.value = IF option.class = "STRING" THEN <<>> ELSE FALSE
  BY ArgumentFields
<1>3. newShort <=> \/ option.short = None
                   \/ \A i \in DOMAIN arguments : arguments[i].short # option.short
  BY NewShort DEF NamesInv
<1>4. /\ arguments \in Seq(ArgumentRecord) /\ handles \subseteq DOMAIN arguments
  BY DEF NamesInv, ArgsRight
<1> HIDE DEF new, newShort
<1>5. /\ DOMAIN arguments = 1 .. n - 1 /\ n \in Nat \ {0} /\ DOMAIN arguments' = 1 .. n
      /\ arguments'[n] = new /\ \A id \in 1 .. n - 1 : arguments'[id] = arguments[id]
  BY <1>1, <1>2, <1>4
<1> HIDE DEF n
<1>6. ASSUME NEW id \in DOMAIN arguments'
      PROVE  /\ ~ arguments'[id].set
             /\ arguments'[id].value = IF arguments'[id].class = "STRING" THEN <<>> ELSE FALSE
  <2>1. CASE id = n
    BY <1>2, <1>5, <2>1
  <2>2. CASE id # n
    <3>1. id \in DOMAIN arguments /\ arguments'[id] = arguments[id]
      BY <1>5, <2>2
    <3> QED
      BY <3>1 DEF Fresh
  <2> QED
    BY <2>1, <2>2
<1>7. ASSUME NEW id \in handles', NEW other \in 1 .. id - 1
      PROVE  arguments'[other].short # arguments'[id].short \/ arguments'[id].short = None
  <2>1. CASE id \in handles
    <3>1. id \in 1 .. n - 1 /\ other \in 1 .. n - 1
      BY <1>4, <1>5, <2>1
    <3>2. arguments[other].short # arguments[id].short \/ arguments[id].short = None
      BY <2>1 DEF Fresh
    <3> QED
      BY <1>5, <3>1, <3>2
  <2>2. CASE id \notin handles
    <3>1. newShort /\ id = n
      BY <1>1, <2>2
    <3>2. other \in 1 .. n - 1 /\ arguments'[other] = arguments[other] /\ arguments'[id] = new
      BY <1>5, <3>1
    <3>3. other \in DOMAIN arguments
      BY <1>5, <3>2
    <3> QED
      BY <1>2, <1>3, <3>1, <3>2, <3>3
  <2> QED
    BY <2>1, <2>2
<1>8. /\ helpArgument' \in {0} \cup DOMAIN arguments'
      /\ helpArgument' # 0 => arguments'[helpArgument'].class = "HELP"
  <2>1. CASE helpArgument' = helpArgument
    <3>1. helpArgument \in {0} \cup 1 .. n - 1
      BY <1>5 DEF Fresh
    <3>2. helpArgument # 0 => arguments'[helpArgument] = arguments[helpArgument]
      BY <1>5, <3>1
    <3> QED
      BY <1>5, <2>1, <3>1, <3>2 DEF Fresh
  <2>2. CASE option.class = "HELP" /\ helpArgument' = n
    BY <1>2, <1>5, <2>2
  <2> QED
    BY <1>1, <2>1, <2>2
<1> QED
  BY <1>6, <1>7, <1>8 DEF Fresh

LEMMA RightParse ==
  ASSUME NamesInv, phase = "defining", Fresh, UserParses
  PROVE  ParseRight' /\ phase' # "defining"
<1>1. PICK items \in Wishes, unknown \in Unknowns, dashes \in BOOLEAN, words \in Finals :
        LET end == End(dashes, words)
            argv == Written(items) \o unknown \o end
        IN  Parse(argv, [items |-> items, unknown |-> unknown # <<>>, final |-> end])
  BY DEF UserParses, End
<1> DEFINE argv == Written(items) \o unknown \o End(dashes, words)
           e == End(dashes, words)
           m == [items |-> items, unknown |-> unknown # <<>>, final |-> e]
           s == Parsed(argv)
           rest == SubSeq(argv, s.i, Len(argv))
           help == helpArgument # 0 /\ s.arguments[helpArgument].value
           counts == Len(rest) \in FinalMin .. FinalMax /\ Len(rest) # 0
           helps == helpArgument # 0 /\ About(items, helpArgument) # {} /\ Wanted(items, helpArgument)
<1>2. /\ m.items = items /\ (m.unknown <=> unknown # <<>>) /\ m.final = e
  OBVIOUS
<1>3. Parse(argv, m)
  BY <1>1
<1>14. IsCommandLine(argv, items, unknown, dashes, words)
  BY DEF IsCommandLine
<1> HIDE DEF argv
<1>4. /\ Accounts(items, s.arguments)
      /\ unknown # <<>> => s.unknown = Yes
      /\ unknown = <<>> => s.unknown = No /\ rest = e
  BY <1>14, CommandLineRead
<1> HIDE DEF m, e
<1>5. /\ arguments' = s.arguments /\ meant' = m /\ helpArgument' = helpArgument
      /\ final' = IF s.unknown THEN final ELSE rest
      /\ IF s.unknown \/ help \/ ~ counts THEN phase' = "helped" ELSE phase' = "running"
  <2>1. /\ arguments' = s.arguments /\ meant' = m
        /\ final' = IF s.unknown THEN final ELSE rest
        /\ IF s.unknown \/ help \/ ~ counts THEN Help
           ELSE phase' = "running" /\ UNCHANGED <<allArguments, printed>>
        /\ UNCHANGED <<handles, shortOptions, longOptions, helpArgument>>
    BY <1>3 DEF Parse
  <2> HIDE DEF help, counts
  <2>2. Help => phase' = "helped"
    BY DEF Help
  <2> HIDE DEF s, rest
  <2>3. IF s.unknown \/ help \/ ~ counts THEN phase' = "helped" ELSE phase' = "running"
    BY <2>1, <2>2
  <2> QED
    BY <2>1, <2>3
<1> HIDE DEF s, rest
<1>6. s.unknown <=> unknown # <<>>
  BY <1>4 DEF Yes, No
<1>7. DOMAIN s.arguments = DOMAIN arguments
  BY <1>4 DEF Accounts, Kept
<1>8. help <=> helps
  <2>1. CASE helpArgument = 0
    BY <2>1
  <2>2. CASE helpArgument # 0
    <3> DEFINE h == helpArgument
    <3>1. h \in DOMAIN arguments /\ arguments[h].value = FALSE
      BY <2>2 DEF Fresh
    <3>2. CASE About(items, h) = {}
      <4>1. s.arguments[h].value = FALSE
        BY <1>4, <3>1, <3>2 DEF Accounts
      <4> QED
        BY <3>2, <4>1
    <3>3. CASE About(items, h) # {}
      <4>1. s.arguments[h].value = Wanted(items, h)
        BY <1>4, <3>1, <3>3 DEF Accounts
      <4> QED
        BY <2>2, <3>3, <4>1
    <3> QED
      BY <3>2, <3>3
  <2> QED
    BY <2>1, <2>2
<1>9. ASSUME NEW id \in DOMAIN arguments'
      PROVE  /\ arguments'[id].set <=> About(items, id) # {}
             /\ arguments'[id].set => arguments'[id].value = Wanted(items, id)
  <2>1. id \in DOMAIN arguments /\ ~ arguments[id].set
    BY <1>5, <1>7 DEF Fresh
  <2>2. /\ About(items, id) = {} => s.arguments[id] = arguments[id]
        /\ About(items, id) # {} => s.arguments[id].set /\ s.arguments[id].value = Wanted(items, id)
    BY <1>4, <2>1 DEF Accounts
  <2> QED
    BY <1>5, <2>1, <2>2
<1> HIDE DEF help, helps
<1>10. phase' = "running" <=> /\ ~ (unknown # <<>>) /\ ~ helps
                              /\ Len(e) \in (FinalMin .. FinalMax) \ {0}
  <2>1. unknown = <<>> => (counts <=> Len(e) \in (FinalMin .. FinalMax) \ {0})
    BY <1>4
  <2> HIDE DEF counts
  <2> QED
    BY <1>5, <1>6, <1>8, <2>1
<1>11. phase' = "running" => final' = e
  BY <1>4, <1>5, <1>6, <1>10
<1> HIDE DEF counts
<1>12. phase' # "defining"
  BY <1>5
<1>13. ParseRight'
  <2>1. meant'.items = items /\ (meant'.unknown <=> unknown # <<>>) /\ meant'.final = e
    BY <1>2, <1>5
  <2>2. helps <=> /\ helpArgument' # 0 /\ About(meant'.items, helpArgument') # {}
                  /\ Wanted(meant'.items, helpArgument')
    BY <1>5, <2>1 DEF helps
  <2>3. /\ \A id \in DOMAIN arguments' :
             /\ arguments'[id].set <=> About(meant'.items, id) # {}
             /\ arguments'[id].set => arguments'[id].value = Wanted(meant'.items, id)
        /\ phase' = "running" <=> /\ ~ meant'.unknown /\ ~ helps
                                  /\ Len(meant'.final) \in (FinalMin .. FinalMax) \ {0}
        /\ phase' = "running" => final' = meant'.final
    BY <1>9, <1>10, <1>11, <2>1
  <2> QED
    BY <2>2, <2>3 DEF ParseRight, About, Wanted
<1> QED
  BY <1>12, <1>13

(* Whatever the names hash to, parse() reads back what was written, in     *)
(* each of the forms an option can take: every argument has the value      *)
(* meant last or the one it was constructed with, and the image is run     *)
(* with exactly the words behind the options unless help was asked for, a  *)
(* name is unknown, or the number of words is wrong.                       *)
THEOREM ParseRightAlways == Spec => []ParseRight
<1>1. Init => ParseInv
  <2> SUFFICES ASSUME Init PROVE ParseInv
    OBVIOUS
  <2>1. Fresh
    BY DEF Init, Fresh
  <2>2. ParseRight
    BY DEF Init, ParseRight
  <2> QED
    BY <2>1, <2>2, NamesInit DEF ParseInv
<1>2. ParseInv /\ [Next]_vars => ParseInv'
  <2> SUFFICES ASSUME ParseInv, [Next]_vars PROVE ParseInv'
    OBVIOUS
  <2>1. CASE UNCHANGED vars
    BY <2>1 DEF vars, ParseInv, NamesInv, Fresh, ParseRight
  <2>2. ASSUME NEW option \in Options, Define(option) PROVE ParseInv'
    <3>1. phase = "defining" /\ phase' = "defining"
      BY <2>2 DEF Define
    <3>2. ParseRight'
      BY <3>1 DEF ParseRight
    <3> QED
      BY <2>2, <3>1, <3>2, NamesDefine, FreshDefine DEF ParseInv
  <2>3. CASE UserParses
    <3>1. phase = "defining"
      BY <2>3 DEF UserParses
    <3> QED
      BY <2>3, <3>1, NamesParse, RightParse DEF ParseInv
  <2> QED
    BY <2>1, <2>2, <2>3 DEF Next
<1>3. ParseInv => ParseRight
  BY DEF ParseInv
<1> QED
  BY <1>1, <1>2, <1>3, PTL DEF Spec

-----------------------------------------------------------------------------
(* The vector of the arguments: its growth, the quicksort, and the help.   *)

IsSizes(f, length, n) ==
  f = [m \in 0 .. n |->
         IF m = 0 THEN MinSize ELSE IF f[m - 1] < length THEN 2 * f[m - 1] ELSE f[m - 1]]
Sizes(length) == CHOOSE f : IsSizes(f, length, length)

LEMMA SizesExist ==
  ASSUME NEW length, NEW n \in Nat
  PROVE  \E f : IsSizes(f, length, n)
<1> DEFINE Never == {k \in Nat : ~ \E f : IsSizes(f, length, k)}
<1>1. 0 \notin Never
  <2> DEFINE f == [m \in 0 .. 0 |-> MinSize]
  <2>1. f = [m \in 0 .. 0 |-> IF m = 0 THEN MinSize ELSE IF f[m - 1] < length THEN 2 * f[m - 1] ELSE f[m - 1]]
    OBVIOUS
  <2>2. IsSizes(f, length, 0)
    BY <2>1 DEF IsSizes
  <2> QED
    BY <2>2
<1>2. ASSUME NEW k \in Nat, k \notin Never PROVE k + 1 \notin Never
  <2>1. PICK f : IsSizes(f, length, k)
    BY <1>2
  <2> DEFINE last == IF f[k] < length THEN 2 * f[k] ELSE f[k]
             g == [m \in 0 .. k + 1 |-> IF m <= k THEN f[m] ELSE last]
  <2>2. /\ \A m \in 0 .. k : g[m] = f[m]
        /\ g[k + 1] = last
        /\ g = [m \in 0 .. k + 1 |-> g[m]]
    OBVIOUS
  <2>3. \A m \in 0 .. k : f[m] = IF m = 0 THEN MinSize ELSE IF f[m - 1] < length THEN 2 * f[m - 1] ELSE f[m - 1]
    BY <2>1 DEF IsSizes
  <2> HIDE DEF g
  <2>4. ASSUME NEW m \in 0 .. k + 1
        PROVE  g[m] = IF m = 0 THEN MinSize ELSE IF g[m - 1] < length THEN 2 * g[m - 1] ELSE g[m - 1]
    <3>1. CASE m \in 0 .. k
      <4>1. m # 0 => m - 1 \in 0 .. k
        BY <3>1
      <4>2. g[m] = f[m] /\ (m # 0 => g[m - 1] = f[m - 1])
        BY <2>2, <3>1, <4>1
      <4> QED
        BY <2>3, <3>1, <4>2
    <3>2. CASE m = k + 1
      <4>1. k \in 0 .. k /\ m - 1 = k /\ m # 0
        BY <3>2
      <4>2. g[k] = f[k]
        BY <2>2, <4>1
      <4> QED
        BY <2>2, <3>2, <4>1, <4>2
    <3> QED
      BY <3>1, <3>2
  <2>5. IsSizes(g, length, k + 1)
    BY <2>2, <2>4 DEF IsSizes
  <2> QED
    BY <2>5
<1>3. Never = {}
  <2>1. SUFFICES ASSUME Never # {} PROVE FALSE
    OBVIOUS
  <2>2. PICK m \in Never : \A k \in Never : m <= k
    <3>1. Never \subseteq Nat
      OBVIOUS
    <3> HIDE DEF Never
    <3> QED
      BY <2>1, <3>1, Least
  <2>3. m \in Nat /\ m # 0
    BY <1>1, <2>2
  <2>4. m - 1 \in Nat /\ m - 1 \notin Never
    BY <2>2, <2>3
  <2>5. m - 1 + 1 \notin Never
    BY <1>2, <2>4
  <2> QED
    BY <2>2, <2>3, <2>5
<1> QED
  BY <1>3

LEMMA Reserved ==
  ASSUME NEW length \in Nat
  PROVE  ReservedSize(length) \in Nat /\ ReservedSize(length) >= length
<1> DEFINE f == Sizes(length)
           Odd == {m \in 0 .. length : ~ (f[m] \in Nat \ {0} /\ (f[m] >= length \/ f[m] > m))}
<1>1. ReservedSize(length) = f[length]
  BY DEF ReservedSize, Sizes, IsSizes
<1>2. IsSizes(f, length, length)
  BY SizesExist DEF Sizes
<1> HIDE DEF f
<1>3. /\ f[0] = MinSize
      /\ \A m \in 1 .. length : f[m] = IF f[m - 1] < length THEN 2 * f[m - 1] ELSE f[m - 1]
  BY <1>2 DEF IsSizes
<1>4. Odd = {}
  <2>1. SUFFICES ASSUME Odd # {} PROVE FALSE
    OBVIOUS
  <2>2. PICK m \in Odd : \A k \in Odd : m <= k
    <3>1. Odd \subseteq Nat
      OBVIOUS
    <3> HIDE DEF Odd
    <3> QED
      BY <2>1, <3>1, Least
  <2>3. m \in 0 .. length /\ m # 0
    BY <1>3, <2>2, VectorAssumption
  <2>4. m - 1 \in 0 .. length /\ m - 1 \notin Odd /\ m \in 1 .. length
    BY <2>2, <2>3
  <2> DEFINE a == f[m - 1]
             b == f[m]
  <2>5. a \in Nat \ {0} /\ (a >= length \/ a > m - 1)
    BY <2>4
  <2>6. b = IF a < length THEN 2 * a ELSE a
    BY <1>3, <2>4
  <2>7. ~ (b \in Nat \ {0} /\ (b >= length \/ b > m))
    BY <2>2
  <2> HIDE DEF a, b, Odd
  <2> QED
    BY <2>3, <2>5, <2>6, <2>7
<1>5. length \in 0 .. length /\ length \notin Odd
  BY <1>4
<1> QED
  BY <1>1, <1>5

(* A vector of the first n numbers.                                        *)
Lists(v, n) ==
  /\ v = [data |-> v.data, count |-> n]
  /\ v.data \in Seq(Nat) /\ Len(v.data) >= n /\ \A i \in 1 .. n : v.data[i] = i

LEMMA PushLists ==
  ASSUME NEW v, NEW n \in Nat, Lists(v, n)
  PROVE  Lists(PushBack(v, n + 1), n + 1)
<1> DEFINE d == v.data
           size == ReservedSize(n + 1)
           room == Resize(v, n + 1)
           r == room.data
           w == [r EXCEPT ![n + 1] = n + 1]
<1>1. v = [data |-> d, count |-> n] /\ d \in Seq(Nat) /\ Len(d) >= n /\ \A i \in 1 .. n : d[i] = i
  BY DEF Lists
<1>2. size \in Nat /\ size >= n + 1
  BY Reserved
<1> HIDE DEF d, size
<1>3. v.count = n /\ v.data = d
  BY <1>1
<1>4. /\ room = [data |-> r, count |-> n + 1] /\ r \in Seq(Nat) /\ Len(r) >= n + 1
      /\ \A i \in 1 .. n : r[i] = i
  <2>1. CASE Len(d) >= n + 1
    <3>1. room = [data |-> d, count |-> n + 1]
      BY <1>1, <1>3, <2>1 DEF Resize
    <3> QED
      BY <1>1, <2>1, <3>1
  <2>2. CASE ~ (Len(d) >= n + 1)
    <3> DEFINE e == [i \in 1 .. size |-> IF i <= n THEN d[i] ELSE 0]
    <3>1. room = [data |-> e, count |-> n + 1]
      BY <1>3, <2>2 DEF Resize, size
    <3>2. \A i \in 1 .. size : e[i] \in Nat
      <4> TAKE i \in 1 .. size
      <4>1. CASE i <= n
        BY <1>1, <4>1
      <4>2. CASE ~ (i <= n)
        BY <4>2
      <4> QED
        BY <4>1, <4>2
    <3>3. e = [i \in 1 .. size |-> e[i]]
      OBVIOUS
    <3>4. \A i \in 1 .. n : e[i] = i
      BY <1>1, <1>2
    <3> HIDE DEF e
    <3>5. e \in Seq(Nat) /\ Len(e) = size
      BY <1>2, <3>2, <3>3
    <3> QED
      BY <1>2, <3>1, <3>4, <3>5
  <2> QED
    BY <2>1, <2>2
<1> HIDE DEF room, r
<1>5. room.count = n + 1 /\ room.data = r
  BY <1>4
<1>6. PushBack(v, n + 1) = [room EXCEPT !.data[n + 1] = n + 1]
  BY <1>3, <1>5 DEF PushBack, room
<1>7. PushBack(v, n + 1) = [data |-> w, count |-> n + 1]
  BY <1>4, <1>5, <1>6
<1>8. n + 1 \in 1 .. Len(r)
  BY <1>4
<1>9. w \in Seq(Nat) /\ Len(w) = Len(r) /\ w[n + 1] = n + 1 /\ \A i \in 1 .. n : w[i] = r[i]
  BY <1>4, <1>8
<1> HIDE DEF w
<1>10. \A i \in 1 .. n + 1 : w[i] = i
  BY <1>4, <1>9
<1>11. Len(w) >= n + 1
  BY <1>4, <1>9
<1> QED
  BY <1>7, <1>9, <1>10, <1>11 DEF Lists

LEMMA ListsElements ==
  ASSUME NEW v, NEW n \in Nat, Lists(v, n)
  PROVE  Elements(v) = [i \in 1 .. n |-> i]
<1> DEFINE d == v.data
           e == SubSeq(d, 1, n)
<1>1. v.count = n /\ d \in Seq(Nat) /\ Len(d) >= n /\ \A i \in 1 .. n : d[i] = i
  BY DEF Lists
<1> HIDE DEF d
<1>2. e = [i \in 1 .. n |-> d[i]]
  BY <1>1
<1> QED
  BY <1>1, <1>2 DEF Elements, d

(* The elements a function has at some places.                             *)
Vals(data, J) == {data[j] : j \in J}

Swaps(t, u, J, a, b) ==
  /\ a \in J /\ b \in J /\ t[a] = u[b] /\ t[b] = u[a]
  /\ \A j \in J \ {a, b} : t[j] = u[j]
Shifts(t, u, J, K, a, b) ==
  /\ a \notin J /\ b \in J /\ K = (J \ {b}) \cup {a}
  /\ t[a] = u[b] /\ \A j \in J \ {b} : t[j] = u[j]

LEMMA Swapped ==
  ASSUME NEW u, NEW t, NEW J, NEW a, NEW b, Swaps(t, u, J, a, b)
  PROVE  Vals(t, J) = Vals(u, J)
<1>0. /\ a \in J /\ b \in J /\ t[a] = u[b] /\ t[b] = u[a]
      /\ \A j \in J \ {a, b} : t[j] = u[j]
  BY DEF Swaps
<1>1. ASSUME NEW j \in J PROVE t[j] \in Vals(u, J) /\ u[j] \in Vals(t, J)
  <2>1. CASE j \in {a, b}
    BY <1>0, <2>1 DEF Vals
  <2>2. CASE j \notin {a, b}
    BY <1>0, <2>2 DEF Vals
  <2> QED
    BY <2>1, <2>2
<1>2. Vals(t, J) = Vals(u, J)
  BY <1>1 DEF Vals
<1> QED
  BY <1>2

(* The element at b goes to a: the place left out moves from a to b.       *)
LEMMA Shifted ==
  ASSUME NEW u, NEW t, NEW J, NEW K, NEW a, NEW b, Shifts(t, u, J, K, a, b)
  PROVE  Vals(t, K) = Vals(u, J)
<1> DEFINE P(j) == IF j = a THEN b ELSE j
<1>0. /\ a \notin J /\ b \in J /\ K = (J \ {b}) \cup {a}
      /\ t[a] = u[b] /\ \A j \in J \ {b} : t[j] = u[j]
  BY DEF Shifts
<1>1. \A j \in K : P(j) \in J /\ t[j] = u[P(j)]
  BY <1>0
<1>3. \A i \in J : \E j \in K : t[j] = u[i]
  <2> TAKE i \in J
  <2>1. CASE i = b
    <3>1. a \in K /\ t[a] = u[i]
      BY <1>0, <2>1
    <3> QED
      BY <3>1
  <2>2. CASE i # b
    <3>1. i \in K /\ t[i] = u[i]
      BY <1>0, <2>2
    <3> QED
      BY <3>1
  <2> QED
    BY <2>1, <2>2
<1> HIDE DEF P
<1>4. Vals(t, K) = Vals(u, J)
  BY <1>1, <1>3 DEF Vals
<1> QED
  BY <1>4

IsPass(f, data, min, max, relation, n) ==
  f = [m \in 0 .. n |-> IF m = 0 THEN [data |-> data, i |-> min + 1, greater |-> max]
                        ELSE Look(f[m - 1], data[min], relation)]
Passing(data, min, max, relation) ==
  CHOOSE f : IsPass(f, data, min, max, relation, max - min - 1)

LEMMA PassIs ==
  ASSUME NEW data, NEW min, NEW max, NEW relation
  PROVE  Pass(data, min, max, relation) = Passing(data, min, max, relation)[max - min - 1]
BY DEF Pass, Passing, IsPass

LEMMA PassExist ==
  ASSUME NEW data, NEW min, NEW max, NEW relation, NEW n \in Nat
  PROVE  \E f : IsPass(f, data, min, max, relation, n)
<1> DEFINE Never == {k \in Nat : ~ \E f : IsPass(f, data, min, max, relation, k)}
<1>1. 0 \notin Never
  <2> DEFINE f == [m \in 0 .. 0 |-> [data |-> data, i |-> min + 1, greater |-> max]]
  <2>1. f = [m \in 0 .. 0 |-> IF m = 0 THEN [data |-> data, i |-> min + 1, greater |-> max] ELSE Look(f[m - 1], data[min], relation)]
    OBVIOUS
  <2>2. IsPass(f, data, min, max, relation, 0)
    BY <2>1 DEF IsPass
  <2> QED
    BY <2>2
<1>2. ASSUME NEW k \in Nat, k \notin Never PROVE k + 1 \notin Never
  <2>1. PICK f : IsPass(f, data, min, max, relation, k)
    BY <1>2
  <2> DEFINE last == Look(f[k], data[min], relation)
             g == [m \in 0 .. k + 1 |-> IF m <= k THEN f[m] ELSE last]
  <2>2. /\ \A m \in 0 .. k : g[m] = f[m]
        /\ g[k + 1] = last
        /\ g = [m \in 0 .. k + 1 |-> g[m]]
    OBVIOUS
  <2>3. \A m \in 0 .. k : f[m] = IF m = 0 THEN [data |-> data, i |-> min + 1, greater |-> max] ELSE Look(f[m - 1], data[min], relation)
    BY <2>1 DEF IsPass
  <2> HIDE DEF g
  <2>4. ASSUME NEW m \in 0 .. k + 1
        PROVE  g[m] = IF m = 0 THEN [data |-> data, i |-> min + 1, greater |-> max] ELSE Look(g[m - 1], data[min], relation)
    <3>1. CASE m \in 0 .. k
      <4>1. m # 0 => m - 1 \in 0 .. k
        BY <3>1
      <4>2. g[m] = f[m] /\ (m # 0 => g[m - 1] = f[m - 1])
        BY <2>2, <3>1, <4>1
      <4> QED
        BY <2>3, <3>1, <4>2
    <3>2. CASE m = k + 1
      <4>1. k \in 0 .. k /\ m - 1 = k /\ m # 0
        BY <3>2
      <4>2. g[k] = f[k]
        BY <2>2, <4>1
      <4> QED
        BY <2>2, <3>2, <4>1, <4>2
    <3> QED
      BY <3>1, <3>2
  <2>5. IsPass(g, data, min, max, relation, k + 1)
    BY <2>2, <2>4 DEF IsPass
  <2> QED
    BY <2>5
<1>3. Never = {}
  <2>1. SUFFICES ASSUME Never # {} PROVE FALSE
    OBVIOUS
  <2>2. PICK m \in Never : \A k \in Never : m <= k
    <3>1. Never \subseteq Nat
      OBVIOUS
    <3> HIDE DEF Never
    <3> QED
      BY <2>1, <3>1, Least
  <2>3. m \in Nat /\ m # 0
    BY <1>1, <2>2
  <2>4. m - 1 \in Nat /\ m - 1 \notin Never
    BY <2>2, <2>3
  <2>5. m - 1 + 1 \notin Never
    BY <1>2, <2>4
  <2> QED
    BY <2>2, <2>3, <2>5
<1> QED
  BY <1>3


(* Data of n elements; the places min .. max - 1; those from lo to hi - 1  *)
(* are not greater than the pivot, or are greater.                         *)
Row(d, n) == d \in [1 .. n -> Nat]
Span(min, max) == min .. max - 1
Low(d, q, lo, hi) == \A j \in lo .. hi - 1 : ~ (q[d[j]] < 0)
High(d, q, lo, hi) == \A j \in lo .. hi - 1 : q[d[j]] < 0
Outside(d, old, n, min, max) == \A j \in (1 .. n) \ Span(min, max) : d[j] = old[j]

LEMMA RowIs ==
  ASSUME NEW n \in Nat, NEW d
  PROVE  Row(d, n) <=> d \in Seq(Nat) /\ Len(d) = n
BY DEF Row

IsPlaced(t, d, k, x) == t = [d EXCEPT ![k] = x]
IsSwapped(t, d, a, b) == t = [d EXCEPT ![a] = d[b], ![b] = d[a]]

LEMMA PlacedRow ==
  ASSUME NEW n \in Nat, NEW d, Row(d, n), NEW k \in 1 .. n, NEW x \in Nat, NEW t,
         IsPlaced(t, d, k, x)
  PROVE  Row(t, n) /\ t[k] = x /\ \A j \in (1 .. n) \ {k} : t[j] = d[j]
BY DEF Row, IsPlaced

LEMMA SwappedRow ==
  ASSUME NEW n \in Nat, NEW d, Row(d, n), NEW a \in 1 .. n, NEW b \in 1 .. n, NEW t,
         IsSwapped(t, d, a, b)
  PROVE  Row(t, n) /\ t[a] = d[b] /\ t[b] = d[a] /\ \A j \in (1 .. n) \ {a, b} : t[j] = d[j]
<1> DEFINE x == d[a]
           y == d[b]
           e == [d EXCEPT ![a] = y]
<1>1. x \in Nat /\ y \in Nat
  BY DEF Row
<1>2. IsPlaced(e, d, a, y) /\ IsPlaced(t, e, b, x)
  BY DEF IsSwapped, IsPlaced
<1>3. a = b => x = y
  OBVIOUS
<1> HIDE DEF x, y, e
<1>4. Row(e, n) /\ e[a] = y /\ \A j \in (1 .. n) \ {a} : e[j] = d[j]
  BY <1>1, <1>2, PlacedRow
<1>5. Row(t, n) /\ t[b] = x /\ \A j \in (1 .. n) \ {b} : t[j] = e[j]
  BY <1>1, <1>2, <1>4, PlacedRow
<1>6. t[a] = y
  BY <1>3, <1>4, <1>5
<1> QED
  BY <1>4, <1>5, <1>6 DEF x, y

(* After some elements the pivot's place, which is left out, has moved up  *)
(* to i - 1; what is not greater lies below of it, what is greater from    *)
(* greater on.                                                             *)
Spots(n, min, max, i, greater) ==
  /\ n \in Nat /\ min \in Nat /\ max \in Nat /\ i \in Nat /\ greater \in Nat
  /\ 1 <= min /\ min < i /\ i <= greater /\ greater <= max /\ max <= n + 1

Parted(d, n, i, greater, old, min, max, q) ==
  /\ Row(d, n) /\ Outside(d, old, n, min, max)
  /\ Vals(d, Span(min, max) \ {i - 1}) = Vals(old, Span(min, max) \ {min})
  /\ Low(d, q, min, i - 1) /\ High(d, q, greater, max)

Spotted(n, min, max, i, g) ==
  /\ n \in Nat /\ i \in 1 .. n /\ g - 1 \in 1 .. n /\ i - 1 \in 1 .. n
  /\ Span(min, max) \subseteq 1 .. n
  /\ i \in Span(min, max) \ {i - 1} /\ g - 1 \in Span(min, max) \ {i - 1}
  /\ i - 1 \in Span(min, max)
  /\ Spots(n, min, max, i, g - 1) /\ Spots(n, min, max, i + 1, g)
  /\ \A j \in min .. i - 1 - 1 : j \in (1 .. n) \ {i, g - 1, i - 1}
  /\ \A j \in g .. max - 1 : j \in (1 .. n) \ {i, g - 1, i - 1}
  /\ \A j \in g - 1 .. max - 1 : j = g - 1 \/ j \in g .. max - 1
  /\ \A j \in min .. (i + 1) - 1 - 1 : j = i - 1 \/ j \in min .. i - 1 - 1
  /\ Span(min, max) \ {(i + 1) - 1} = ((Span(min, max) \ {i - 1}) \ {i}) \cup {i - 1}

LEMMA SpotsFields ==
  ASSUME NEW n, NEW min, NEW max, NEW i, NEW g, Spots(n, min, max, i, g), i < g
  PROVE  Spotted(n, min, max, i, g)
<1>1. /\ n \in Nat /\ i \in 1 .. n /\ g - 1 \in 1 .. n /\ i - 1 \in 1 .. n
      /\ (i + 1) - 1 = i
  BY DEF Spots
<1>2. /\ Span(min, max) \subseteq 1 .. n
      /\ i \in Span(min, max) \ {i - 1} /\ g - 1 \in Span(min, max) \ {i - 1}
      /\ i - 1 \in Span(min, max)
  BY DEF Spots, Span
<1>3. Spots(n, min, max, i, g - 1) /\ Spots(n, min, max, i + 1, g)
  BY DEF Spots
<1>4. /\ \A j \in min .. i - 1 - 1 : j \in (1 .. n) \ {i, g - 1, i - 1}
      /\ \A j \in g .. max - 1 : j \in (1 .. n) \ {i, g - 1, i - 1}
  BY DEF Spots
<1>5. /\ \A j \in g - 1 .. max - 1 : j = g - 1 \/ j \in g .. max - 1
      /\ \A j \in min .. (i + 1) - 1 - 1 : j = i - 1 \/ j \in min .. i - 1 - 1
  BY DEF Spots
<1>6. Span(min, max) \ {(i + 1) - 1} = ((Span(min, max) \ {i - 1}) \ {i}) \cup {i - 1}
  <2> DEFINE S == Span(min, max)
             h == i - 1
  <2>1. i \in S /\ h \in S /\ h # i /\ (i + 1) - 1 = i
    BY <1>1, <1>2
  <2> HIDE DEF S, h
  <2>2. S \ {i} = ((S \ {h}) \ {i}) \cup {h}
    BY <2>1
  <2> QED
    BY <2>1, <2>2 DEF S, h
<1> QED
  BY <1>1, <1>2, <1>3, <1>4, <1>5, <1>6 DEF Spotted

LEMMA RaisedPart ==
  ASSUME NEW old, NEW n, NEW min, NEW max, NEW i, NEW g, NEW q, NEW d,
         Spots(n, min, max, i, g), i < g,
         Parted(d, n, i, g, old, min, max, q), q[d[i]] < 0, NEW t,
         IsSwapped(t, d, g - 1, i)
  PROVE  Parted(t, n, i, g - 1, old, min, max, q)
<1> DEFINE R == Span(min, max)
           J == R \ {i - 1}
           h == g - 1
<1>1. /\ Row(d, n) /\ \A j \in (1 .. n) \ R : d[j] = old[j]
      /\ Vals(d, J) = Vals(old, R \ {min})
      /\ \A j \in min .. i - 1 - 1 : ~ (q[d[j]] < 0)
      /\ \A j \in g .. max - 1 : q[d[j]] < 0
  BY DEF Parted, Outside, Low, High
<1>2. /\ n \in Nat /\ i \in 1 .. n /\ h \in 1 .. n
      /\ R \subseteq 1 .. n /\ i \in J /\ h \in J
      /\ \A j \in min .. i - 1 - 1 : j \in (1 .. n) \ {i, h}
      /\ \A j \in g .. max - 1 : j \in (1 .. n) \ {i, h}
      /\ \A j \in h .. max - 1 : j = h \/ j \in g .. max - 1
  <2>1. Spotted(n, min, max, i, g)
    BY SpotsFields
  <2> QED
    BY <2>1 DEF Spotted
<1>3. IsSwapped(t, d, h, i)
  OBVIOUS
<1> HIDE DEF h
<1>4. Row(t, n) /\ t[h] = d[i] /\ t[i] = d[h] /\ \A j \in (1 .. n) \ {h, i} : t[j] = d[j]
  <2>1. Row(d, n) /\ n \in Nat /\ i \in 1 .. n /\ h \in 1 .. n
    BY <1>1, <1>2
  <2> QED
    BY <1>3, <2>1, SwappedRow
<1>5. Vals(t, J) = Vals(d, J)
  <2>1. Swaps(t, d, J, i, h)
    BY <1>2, <1>4 DEF Swaps
  <2> HIDE DEF J
  <2> QED
    BY <2>1, Swapped
<1>6. \A j \in (1 .. n) \ R : t[j] = old[j]
  BY <1>1, <1>2, <1>4
<1>7. \A j \in min .. i - 1 - 1 : ~ (q[t[j]] < 0)
  BY <1>1, <1>2, <1>4
<1>8. \A j \in h .. max - 1 : q[t[j]] < 0
  BY <1>1, <1>2, <1>4
<1> QED
  BY <1>1, <1>4, <1>5, <1>6, <1>7, <1>8 DEF Parted, Outside, Low, High, h

LEMMA LoweredPart ==
  ASSUME NEW old, NEW n, NEW min, NEW max, NEW i, NEW g, NEW q, NEW d,
         Spots(n, min, max, i, g), i < g,
         Parted(d, n, i, g, old, min, max, q), ~ (q[d[i]] < 0), NEW t,
         IsPlaced(t, d, i - 1, d[i])
  PROVE  Parted(t, n, i + 1, g, old, min, max, q)
<1> DEFINE R == Span(min, max)
           J == R \ {i - 1}
           K == R \ {(i + 1) - 1}
           h == i - 1
<1>1. /\ Row(d, n) /\ \A j \in (1 .. n) \ R : d[j] = old[j]
      /\ Vals(d, J) = Vals(old, R \ {min})
      /\ \A j \in min .. i - 1 - 1 : ~ (q[d[j]] < 0)
      /\ \A j \in g .. max - 1 : q[d[j]] < 0
  BY DEF Parted, Outside, Low, High
<1>2. /\ n \in Nat /\ i \in 1 .. n /\ h \in 1 .. n
      /\ R \subseteq 1 .. n /\ i \in J /\ h \in R
      /\ \A j \in min .. i - 1 - 1 : j \in (1 .. n) \ {h}
      /\ \A j \in g .. max - 1 : j \in (1 .. n) \ {h}
      /\ \A j \in min .. (i + 1) - 1 - 1 : j = h \/ j \in min .. i - 1 - 1
      /\ K = (J \ {i}) \cup {h}
  <2>1. Spotted(n, min, max, i, g)
    BY SpotsFields
  <2> QED
    BY <2>1 DEF Spotted
<1>3. IsPlaced(t, d, h, d[i]) /\ h \notin J
  OBVIOUS
<1> HIDE DEF h
<1>4. Row(t, n) /\ t[h] = d[i] /\ \A j \in (1 .. n) \ {h} : t[j] = d[j]
  <2>1. d[i] \in Nat
    BY <1>1, <1>2 DEF Row
  <2>2. Row(d, n) /\ n \in Nat /\ h \in 1 .. n
    BY <1>1, <1>2
  <2> QED
    BY <1>3, <2>1, <2>2, PlacedRow
<1>5. Vals(t, K) = Vals(d, J)
  <2>1. Shifts(t, d, J, K, h, i)
    <3>1. \A j \in J \ {i} : t[j] = d[j]
      BY <1>2, <1>3, <1>4
    <3> HIDE DEF J, K
    <3> QED
      BY <1>2, <1>3, <1>4, <3>1 DEF Shifts
  <2> HIDE DEF J, K
  <2> QED
    BY <2>1, Shifted
<1>6. \A j \in (1 .. n) \ R : t[j] = old[j]
  BY <1>1, <1>2, <1>4
<1>7. \A j \in min .. (i + 1) - 1 - 1 : ~ (q[t[j]] < 0)
  BY <1>1, <1>2, <1>4
<1>8. \A j \in g .. max - 1 : q[t[j]] < 0
  BY <1>1, <1>2, <1>4
<1> QED
  <2>1. /\ Outside(t, old, n, min, max)
        /\ Low(t, q, min, (i + 1) - 1) /\ High(t, q, g, max)
    BY <1>6, <1>7, <1>8 DEF Outside, Low, High
  <2> QED
    BY <1>1, <1>4, <1>5, <2>1 DEF Parted

PassAt(s, m, d, n, min, max, q) ==
  /\ s = [data |-> s.data, i |-> s.i, greater |-> s.greater]
  /\ Spots(n, min, max, s.i, s.greater) /\ s.greater - s.i = max - min - 1 - m
  /\ Parted(s.data, n, s.i, s.greater, d, min, max, q)

(* A part of the data that is sorted.                                      *)
Job(d, n, min, max) ==
  /\ n \in Nat /\ Row(d, n)
  /\ min \in Nat /\ max \in Nat /\ 1 <= min /\ min <= max /\ max <= n + 1

LEMMA PassFirst ==
  ASSUME NEW d, NEW n, NEW min, NEW max, NEW q, Job(d, n, min, max), min < max
  PROVE  PassAt([data |-> d, i |-> min + 1, greater |-> max], 0, d, n, min, max, q)
<1>1. /\ n \in Nat /\ Row(d, n) /\ min \in Nat /\ max \in Nat /\ max - min \in Nat
      /\ Spots(n, min, max, min + 1, max) /\ max - (min + 1) = max - min - 1 - 0
      /\ (min + 1) - 1 = min
  BY DEF Job, Spots
<1>2. Low(d, q, min, (min + 1) - 1) /\ High(d, q, max, max)
  BY <1>1 DEF Low, High
<1>3. Outside(d, d, n, min, max)
  BY DEF Outside
<1>4. Parted(d, n, min + 1, max, d, min, max, q)
  BY <1>1, <1>2, <1>3 DEF Parted
<1> QED
  BY <1>1, <1>4 DEF PassAt

LEMMA PassNext ==
  ASSUME NEW s, NEW m \in Nat, NEW d, NEW n, NEW min, NEW max, NEW relation,
         PassAt(s, m, d, n, min, max, relation[d[min]]), m < max - min - 1
  PROVE  PassAt(Look(s, d[min], relation), m + 1, d, n, min, max, relation[d[min]])
<1> DEFINE q == relation[d[min]]
           u == s.data
           i == s.i
           g == s.greater
           h == g - 1
           look == Look(s, d[min], relation)
<1>1. /\ s = [data |-> u, i |-> i, greater |-> g]
      /\ Spots(n, min, max, i, g) /\ g - i = max - min - 1 - m
      /\ Parted(u, n, i, g, d, min, max, q)
  BY DEF PassAt
<1>2. look = IF q[u[i]] < 0
             THEN [data |-> [u EXCEPT ![h] = u[i], ![i] = u[h]], i |-> i, greater |-> h]
             ELSE [s EXCEPT !.data[i - 1] = u[i], !.i = @ + 1]
  BY DEF Look
<1> HIDE DEF u, i, g, look, q
<1>3. /\ i < g /\ i \in Nat /\ g \in Nat /\ h \in Nat
      /\ h - i = max - min - 1 - (m + 1) /\ g - (i + 1) = max - min - 1 - (m + 1)
  BY <1>1 DEF Spots
<1>4. Spots(n, min, max, i, h) /\ Spots(n, min, max, i + 1, g)
  <2>1. Spotted(n, min, max, i, g)
    BY <1>1, <1>3, SpotsFields
  <2> QED
    BY <2>1 DEF Spotted
<1>5. CASE q[u[i]] < 0
  <2> DEFINE t == [u EXCEPT ![h] = u[i], ![i] = u[h]]
  <2>1. look = [data |-> t, i |-> i, greater |-> h]
    BY <1>2, <1>5
  <2>2. IsSwapped(t, u, h, i)
    BY DEF IsSwapped
  <2> HIDE DEF t
  <2>3. Parted(t, n, i, h, d, min, max, q)
    BY <1>1, <1>3, <1>5, <2>2, RaisedPart
  <2>4. look.data = t /\ look.i = i /\ look.greater = h
    BY <2>1
  <2> QED
    BY <1>3, <1>4, <2>1, <2>3, <2>4 DEF PassAt, look, q
<1>6. CASE ~ (q[u[i]] < 0)
  <2> DEFINE t == [u EXCEPT ![i - 1] = u[i]]
  <2>1. look = [data |-> t, i |-> i + 1, greater |-> g]
    BY <1>1, <1>2, <1>6
  <2>2. IsPlaced(t, u, i - 1, u[i])
    BY DEF IsPlaced
  <2> HIDE DEF t
  <2>3. Parted(t, n, i + 1, g, d, min, max, q)
    BY <1>1, <1>3, <1>6, <2>2, LoweredPart
  <2>4. look.data = t /\ look.i = i + 1 /\ look.greater = g
    BY <2>1
  <2> QED
    BY <1>3, <1>4, <2>1, <2>3, <2>4 DEF PassAt, look, q
<1> QED
  BY <1>5, <1>6

LEMMA PassEnd ==
  ASSUME NEW d, NEW n, NEW min, NEW max, NEW relation, Job(d, n, min, max), min < max
  PROVE  PassAt(Pass(d, min, max, relation), max - min - 1, d, n, min, max, relation[d[min]])
<1> DEFINE e == max - min - 1
           f == Passing(d, min, max, relation)
           Fits(m) == PassAt(f[m], m, d, n, min, max, relation[d[min]])
           Odd == {m \in 0 .. e : ~ Fits(m)}
<1>1. e \in Nat
  BY DEF Job
<1>2. IsPass(f, d, min, max, relation, e)
  <2> HIDE DEF e
  <2>1. \E g : IsPass(g, d, min, max, relation, e)
    BY <1>1, PassExist
  <2> QED
    BY <2>1 DEF Passing, e
<1> HIDE DEF e, f
<1>3. \A m \in 0 .. e : f[m] = IF m = 0 THEN [data |-> d, i |-> min + 1, greater |-> max]
                               ELSE Look(f[m - 1], d[min], relation)
  BY <1>2 DEF IsPass
<1>4. Fits(0)
  <2>1. f[0] = [data |-> d, i |-> min + 1, greater |-> max]
    BY <1>1, <1>3
  <2> QED
    BY <2>1, PassFirst
<1>5. ASSUME NEW m \in Nat, m < e, Fits(m) PROVE Fits(m + 1)
  <2>1. f[m + 1] = Look(f[m], d[min], relation)
    <3>1. m + 1 \in 0 .. e /\ m + 1 # 0 /\ (m + 1) - 1 = m
      BY <1>1, <1>5
    <3> QED
      BY <1>3, <3>1
  <2>2. PassAt(Look(f[m], d[min], relation), m + 1, d, n, min, max, relation[d[min]])
    BY <1>5, PassNext DEF e
  <2> QED
    BY <2>1, <2>2
<1> HIDE DEF Fits
<1>6. Odd = {}
  <2>1. SUFFICES ASSUME Odd # {} PROVE FALSE
    OBVIOUS
  <2>2. PICK m \in Odd : \A k \in Odd : m <= k
    <3>1. Odd \subseteq Nat
      BY <1>1
    <3> HIDE DEF Odd
    <3> QED
      BY <2>1, <3>1, Least
  <2>3. m \in 0 .. e /\ m # 0
    BY <1>4, <2>2
  <2>4. m - 1 \in Nat /\ m - 1 < e /\ m - 1 \in 0 .. e /\ m - 1 \notin Odd /\ (m - 1) + 1 = m
    BY <1>1, <2>2, <2>3
  <2>5. Fits(m - 1)
    BY <2>4
  <2>6. Fits((m - 1) + 1)
    BY <1>5, <2>4, <2>5
  <2> QED
    BY <2>2, <2>4, <2>6
<1>7. Fits(e)
  BY <1>1, <1>6
<1>8. Pass(d, min, max, relation) = f[e]
  BY PassIs DEF f, e
<1> QED
  BY <1>7, <1>8 DEF Fits, e

(* What a part becomes when it is split at a place, and when it is sorted. *)
Cut(t, at, d, n, min, max, q) ==
  /\ at \in Nat /\ min < at /\ at <= max
  /\ Row(t, n) /\ Outside(t, d, n, min, max)
  /\ Vals(t, Span(min, max)) = Vals(d, Span(min, max))
  /\ t[at - 1] = d[min] /\ Low(t, q, min, at - 1) /\ High(t, q, at, max)

Fills(t, u, d, R, k, m) ==
  /\ k \in R /\ m \in R /\ Vals(u, R \ {k}) = Vals(d, R \ {m}) /\ t[k] = d[m]
  /\ \A j \in R \ {k} : t[j] = u[j]

LEMMA FilledVals ==
  ASSUME NEW d, NEW t, NEW u, NEW R, NEW k, NEW m, Fills(t, u, d, R, k, m)
  PROVE  Vals(t, R) = Vals(d, R)
<1>0. /\ k \in R /\ m \in R /\ Vals(u, R \ {k}) = Vals(d, R \ {m}) /\ t[k] = d[m]
      /\ \A j \in R \ {k} : t[j] = u[j]
  BY DEF Fills
<1>1. ASSUME NEW j \in R PROVE t[j] \in Vals(d, R)
  <2>1. CASE j = k
    BY <1>0, <2>1 DEF Vals
  <2>2. CASE j # k
    <3>1. t[j] \in Vals(u, R \ {k})
      BY <1>0, <2>2 DEF Vals
    <3>2. t[j] \in Vals(d, R \ {m})
      BY <1>0, <3>1
    <3> QED
      BY <3>2 DEF Vals
  <2> QED
    BY <2>1, <2>2
<1>2. ASSUME NEW j \in R PROVE d[j] \in Vals(t, R)
  <2>1. CASE j = m
    BY <1>0, <2>1 DEF Vals
  <2>2. CASE j # m
    <3>1. d[j] \in Vals(d, R \ {m})
      BY <2>2 DEF Vals
    <3>2. d[j] \in Vals(u, R \ {k})
      BY <1>0, <3>1
    <3>3. PICK i \in R \ {k} : d[j] = u[i]
      BY <3>2 DEF Vals
    <3> QED
      BY <1>0, <3>3 DEF Vals
  <2> QED
    BY <2>1, <2>2
<1> QED
  BY <1>1, <1>2 DEF Vals

LEMMA PartitionCuts ==
  ASSUME NEW d, NEW n, NEW min, NEW max, NEW relation, Job(d, n, min, max), min < max
  PROVE  LET split == Partition(d, min, max, relation)
         IN  Cut(split.data, split.at, d, n, min, max, relation[d[min]])
<1> DEFINE end == Pass(d, min, max, relation)
           q == relation[d[min]]
           u == end.data
           i == end.i
           g == end.greater
           t == [u EXCEPT ![i - 1] = d[min]]
           R == Span(min, max)
           split == Partition(d, min, max, relation)
<1>1. PassAt(end, max - min - 1, d, n, min, max, q)
  BY PassEnd
<1>2. split.data = t /\ split.at = i
  BY DEF Partition
<1> HIDE DEF end, q, split, t
<1>3. Spots(n, min, max, i, g) /\ g - i = max - min - 1 - (max - min - 1)
  BY <1>1 DEF PassAt
<1>4. Parted(u, n, i, g, d, min, max, q)
  BY <1>1 DEF PassAt
<1> HIDE DEF u, i, g
<1>5. /\ n \in Nat /\ Row(d, n) /\ min \in Nat /\ max \in Nat /\ i \in Nat /\ min < i /\ i <= max
      /\ i - 1 \in R /\ min \in R /\ i - 1 \in 1 .. n /\ min \in 1 .. n /\ R \subseteq 1 .. n /\ g = i
  BY <1>3 DEF Job, Spots, Span
<1>6. /\ Row(u, n) /\ \A j \in (1 .. n) \ R : u[j] = d[j]
      /\ Vals(u, R \ {i - 1}) = Vals(d, R \ {min})
      /\ \A j \in min .. i - 1 - 1 : ~ (q[u[j]] < 0)
      /\ \A j \in i .. max - 1 : q[u[j]] < 0
  BY <1>4, <1>5 DEF Parted, Outside, Low, High
<1>7. Row(t, n) /\ t[i - 1] = d[min] /\ \A j \in (1 .. n) \ {i - 1} : t[j] = u[j]
  <2>1. IsPlaced(t, u, i - 1, d[min])
    BY DEF IsPlaced, t
  <2>2. d[min] \in Nat /\ n \in Nat /\ Row(u, n) /\ i - 1 \in 1 .. n
    BY <1>5, <1>6 DEF Row
  <2> QED
    BY <2>1, <2>2, PlacedRow
<1>8. Vals(t, R) = Vals(d, R)
  <2>1. \A j \in R \ {i - 1} : t[j] = u[j]
    BY <1>5, <1>7
  <2> HIDE DEF R
  <2>2. Fills(t, u, d, R, i - 1, min)
    BY <1>5, <1>6, <1>7, <2>1 DEF Fills
  <2> QED
    BY <2>2, FilledVals
<1>9. Outside(t, d, n, min, max)
  <2>1. \A j \in (1 .. n) \ R : t[j] = d[j]
    BY <1>5, <1>6, <1>7
  <2> QED
    BY <2>1 DEF Outside
<1>10. Low(t, q, min, i - 1)
  <2> SUFFICES ASSUME NEW j \in min .. i - 1 - 1 PROVE ~ (q[t[j]] < 0)
    BY DEF Low
  <2>1. j \in (1 .. n) \ {i - 1}
    BY <1>5
  <2>2. t[j] = u[j]
    BY <1>7, <2>1
  <2> QED
    BY <1>6, <2>2
<1>11. High(t, q, i, max)
  <2> SUFFICES ASSUME NEW j \in i .. max - 1 PROVE q[t[j]] < 0
    BY DEF High
  <2>1. j \in (1 .. n) \ {i - 1}
    BY <1>3, <1>5 DEF Spots
  <2>2. t[j] = u[j]
    BY <1>7, <2>1
  <2> QED
    BY <1>6, <2>2
<1>12. Cut(t, i, d, n, min, max, q)
  BY <1>5, <1>7, <1>8, <1>9, <1>10, <1>11 DEF Cut
<1> QED
  BY <1>2, <1>12 DEF split, q

(* The relation is antisymmetric on the elements.                          *)
Fair(relation, V) ==
  \A a, b \in V : /\ relation[a][b] \in Int
                  /\ ~ (relation[a][b] < 0) => relation[b][a] <= 0

Ordered(t, relation, min, max) == \A j \in min .. max - 2 : relation[t[j]][t[j + 1]] <= 0

Done(t, d, n, min, max, relation) ==
  /\ Row(t, n) /\ Outside(t, d, n, min, max)
  /\ Vals(t, Span(min, max)) = Vals(d, Span(min, max))
  /\ Ordered(t, relation, min, max)

(* The two parts and the element between them.                             *)
Joins(t, e, d, A, k, B) ==
  /\ Vals(e, A) = Vals(d, A) /\ \A j \in B \cup {k} : e[j] = d[j]
  /\ Vals(t, B) = Vals(e, B) /\ \A j \in A \cup {k} : t[j] = e[j]

LEMMA JoinedVals ==
  ASSUME NEW t, NEW e, NEW d, NEW A, NEW k, NEW B, Joins(t, e, d, A, k, B)
  PROVE  /\ Vals(t, A \cup {k} \cup B) = Vals(d, A \cup {k} \cup B)
         /\ Vals(t, A) = Vals(d, A) /\ Vals(t, B) = Vals(d, B) /\ t[k] = d[k]
<1>0. /\ Vals(e, A) = Vals(d, A) /\ \A j \in B \cup {k} : e[j] = d[j]
      /\ Vals(t, B) = Vals(e, B) /\ \A j \in A \cup {k} : t[j] = e[j]
  BY DEF Joins
<1>1. Vals(t, A) = Vals(d, A)
  <2>1. Vals(t, A) = Vals(e, A)
    BY <1>0 DEF Vals
  <2> QED
    BY <1>0, <2>1
<1>2. Vals(t, B) = Vals(d, B)
  <2>1. Vals(e, B) = Vals(d, B)
    BY <1>0 DEF Vals
  <2> QED
    BY <1>0, <2>1
<1>3. t[k] = d[k]
  BY <1>0
<1>4. ASSUME NEW f PROVE Vals(f, A \cup {k} \cup B) = Vals(f, A) \cup {f[k]} \cup Vals(f, B)
  BY DEF Vals
<1> QED
  BY <1>1, <1>2, <1>3, <1>4

LEMMA OneOf ==
  ASSUME NEW t, NEW d, NEW J, NEW j \in J, Vals(t, J) = Vals(d, J)
  PROVE  \E i \in J : t[j] = d[i]
<1>1. t[j] \in Vals(t, J)
  BY DEF Vals
<1>2. t[j] \in Vals(d, J)
  BY <1>1
<1> QED
  BY <1>2 DEF Vals

LEMMA Halves ==
  ASSUME NEW d, NEW n, NEW min, NEW max, Job(d, n, min, max), min < max,
         NEW relation, NEW V, Fair(relation, V), Vals(d, Span(min, max)) \subseteq V,
         NEW c, NEW at, Cut(c, at, d, n, min, max, relation[d[min]]),
         NEW e, Done(e, c, n, min, at - 1, relation),
         NEW t, Done(t, e, n, at, max, relation)
  PROVE  Done(t, d, n, min, max, relation)
<1> DEFINE R == Span(min, max)
           A == Span(min, at - 1)
           B == Span(at, max)
           k == at - 1
           p == d[min]
           q == relation[p]
<1>1. /\ at \in Nat /\ min < at /\ at <= max
      /\ \A j \in (1 .. n) \ R : c[j] = d[j]
      /\ Vals(c, R) = Vals(d, R) /\ c[k] = p
      /\ \A j \in A : ~ (q[c[j]] < 0)
      /\ \A j \in B : q[c[j]] < 0
  BY DEF Cut, Outside, Low, High, Span
<1>2. n \in Nat /\ min \in Nat /\ max \in Nat /\ 1 <= min /\ max <= n + 1
  BY DEF Job
<1>3. /\ \A j \in (1 .. n) \ A : e[j] = c[j]
      /\ Vals(e, A) = Vals(c, A)
      /\ \A j \in min .. k - 2 : relation[e[j]][e[j + 1]] <= 0
  BY DEF Done, Outside, Ordered
<1>4. /\ Row(t, n) /\ \A j \in (1 .. n) \ B : t[j] = e[j]
      /\ Vals(t, B) = Vals(e, B)
      /\ \A j \in at .. max - 2 : relation[t[j]][t[j + 1]] <= 0
  BY DEF Done, Outside, Ordered
<1>5. /\ R = A \cup {k} \cup B /\ R \subseteq 1 .. n /\ min \in R
      /\ \A j \in B \cup {k} : j \in (1 .. n) \ A
      /\ \A j \in A \cup {k} : j \in (1 .. n) \ B
  BY <1>1, <1>2 DEF Span
<1>6. Vals(t, R) = Vals(c, R) /\ Vals(t, A) = Vals(c, A) /\ Vals(t, B) = Vals(c, B) /\ t[k] = p
  <2>1. Joins(t, e, c, A, k, B)
    <3> HIDE DEF A, B, k
    <3> QED
      BY <1>3, <1>4, <1>5 DEF Joins
  <2>2. /\ Vals(t, A \cup {k} \cup B) = Vals(c, A \cup {k} \cup B)
        /\ Vals(t, A) = Vals(c, A) /\ Vals(t, B) = Vals(c, B) /\ t[k] = c[k]
    BY <2>1, JoinedVals
  <2> HIDE DEF R, A, B, k
  <2> QED
    BY <1>1, <1>5, <2>2
<1>7. ASSUME NEW a \in V, NEW b \in V
      PROVE relation[a][b] \in Int /\ (~ (relation[a][b] < 0) => relation[b][a] <= 0)
  BY DEF Fair
<1>8. \A j \in R : c[j] \in V /\ d[j] \in V
  <2>1. \A j \in R : c[j] \in Vals(c, R) /\ d[j] \in Vals(d, R)
    BY DEF Vals
  <2> QED
    BY <1>1, <2>1
<1>9. Outside(t, d, n, min, max)
  <2> SUFFICES ASSUME NEW j \in (1 .. n) \ R PROVE t[j] = d[j]
    BY DEF Outside
  <2>1. j \notin A /\ j \notin B
    BY <1>5
  <2> QED
    BY <1>1, <1>3, <1>4, <2>1
<1> HIDE DEF R, A, B, q
<1>10. Ordered(t, relation, min, max)
  <2> SUFFICES ASSUME NEW j \in min .. max - 2 PROVE relation[t[j]][t[j + 1]] <= 0
    BY DEF Ordered
  <2>1. CASE j < at - 2
    <3>1. j \in A /\ j + 1 \in A /\ j \in min .. k - 2
      BY <1>1, <1>2, <2>1 DEF A, Span
    <3>2. t[j] = e[j] /\ t[j + 1] = e[j + 1]
      BY <1>4, <1>5, <3>1
    <3> QED
      BY <1>3, <3>1, <3>2
  <2>2. CASE j = at - 2
    <3>1. j \in A /\ j + 1 = k
      BY <1>1, <1>2, <2>2 DEF A, Span
    <3>2. PICK i \in A : t[j] = c[i]
      <4>1. Vals(t, A) = Vals(c, A) /\ j \in A
        BY <1>6, <3>1
      <4>2. t[j] \in Vals(c, A)
        BY <4>1 DEF Vals
      <4> QED
        BY <4>2 DEF Vals
    <3>3. c[i] \in V /\ p \in V /\ ~ (q[c[i]] < 0)
      BY <1>1, <1>5, <1>8
    <3>4. ~ (relation[p][c[i]] < 0)
      BY <3>3 DEF q
    <3>5. relation[c[i]][p] <= 0
      BY <1>7, <3>3, <3>4
    <3> QED
      BY <1>6, <3>1, <3>2, <3>5
  <2>3. CASE j = k
    <3>1. j + 1 \in B
      BY <1>1, <1>2, <2>3 DEF B, Span
    <3>2. PICK i \in B : t[j + 1] = c[i]
      BY <1>6, <3>1, OneOf
    <3>3. c[i] \in V /\ p \in V /\ q[c[i]] < 0
      BY <1>1, <1>5, <1>8
    <3>4. relation[p][c[i]] < 0 /\ relation[p][c[i]] \in Int
      BY <1>7, <3>3 DEF q
    <3>5. relation[p][c[i]] <= 0
      BY <3>4
    <3> QED
      BY <1>6, <2>3, <3>2, <3>5
  <2>4. CASE j > k
    <3>1. j \in at .. max - 2
      BY <1>1, <1>2, <2>4
    <3> QED
      BY <1>4, <3>1
  <2> QED
    BY <1>1, <2>1, <2>2, <2>3, <2>4
<1> QED
  BY <1>1, <1>4, <1>6, <1>9, <1>10 DEF Done, R

IsSort(f, relation, n) ==
  f = [m \in 0 .. n |-> IF m = 0 THEN [s \in Parts |-> s.data]
                        ELSE [s \in Parts |-> SortPart(s, f[m - 1], relation)]]
Sorting(relation, n) == CHOOSE f : IsSort(f, relation, n)

LEMMA SortIs ==
  ASSUME NEW v, NEW relation
  PROVE  Sort(v, relation) =
           [v EXCEPT !.data = Sorting(relation, v.count)[v.count]
                                [[data |-> v.data, min |-> 1, max |-> v.count + 1]]]
BY DEF Sort, Sorting, IsSort

LEMMA SortExist ==
  ASSUME NEW relation, NEW n \in Nat
  PROVE  \E f : IsSort(f, relation, n)
<1> DEFINE Never == {k \in Nat : ~ \E f : IsSort(f, relation, k)}
<1>1. 0 \notin Never
  <2> DEFINE f == [m \in 0 .. 0 |-> [s \in Parts |-> s.data]]
  <2>1. f = [m \in 0 .. 0 |-> IF m = 0 THEN [s \in Parts |-> s.data] ELSE [s \in Parts |-> SortPart(s, f[m - 1], relation)]]
    OBVIOUS
  <2>2. IsSort(f, relation, 0)
    BY <2>1 DEF IsSort
  <2> QED
    BY <2>2
<1>2. ASSUME NEW k \in Nat, k \notin Never PROVE k + 1 \notin Never
  <2>1. PICK f : IsSort(f, relation, k)
    BY <1>2
  <2> DEFINE last == [s \in Parts |-> SortPart(s, f[k], relation)]
             g == [m \in 0 .. k + 1 |-> IF m <= k THEN f[m] ELSE last]
  <2>2. /\ \A m \in 0 .. k : g[m] = f[m]
        /\ g[k + 1] = last
        /\ g = [m \in 0 .. k + 1 |-> g[m]]
    OBVIOUS
  <2>3. \A m \in 0 .. k : f[m] = IF m = 0 THEN [s \in Parts |-> s.data] ELSE [s \in Parts |-> SortPart(s, f[m - 1], relation)]
    BY <2>1 DEF IsSort
  <2> HIDE DEF g
  <2>4. ASSUME NEW m \in 0 .. k + 1
        PROVE  g[m] = IF m = 0 THEN [s \in Parts |-> s.data] ELSE [s \in Parts |-> SortPart(s, g[m - 1], relation)]
    <3>1. CASE m \in 0 .. k
      <4>1. m # 0 => m - 1 \in 0 .. k
        BY <3>1
      <4>2. g[m] = f[m] /\ (m # 0 => g[m - 1] = f[m - 1])
        BY <2>2, <3>1, <4>1
      <4> QED
        BY <2>3, <3>1, <4>2
    <3>2. CASE m = k + 1
      <4>1. k \in 0 .. k /\ m - 1 = k /\ m # 0
        BY <3>2
      <4>2. g[k] = f[k]
        BY <2>2, <4>1
      <4> QED
        BY <2>2, <3>2, <4>1, <4>2
    <3> QED
      BY <3>1, <3>2
  <2>5. IsSort(g, relation, k + 1)
    BY <2>2, <2>4 DEF IsSort
  <2> QED
    BY <2>5
<1>3. Never = {}
  <2>1. SUFFICES ASSUME Never # {} PROVE FALSE
    OBVIOUS
  <2>2. PICK m \in Never : \A k \in Never : m <= k
    <3>1. Never \subseteq Nat
      OBVIOUS
    <3> HIDE DEF Never
    <3> QED
      BY <2>1, <3>1, Least
  <2>3. m \in Nat /\ m # 0
    BY <1>1, <2>2
  <2>4. m - 1 \in Nat /\ m - 1 \notin Never
    BY <2>2, <2>3
  <2>5. m - 1 + 1 \notin Never
    BY <1>2, <2>4
  <2> QED
    BY <2>2, <2>3, <2>5
<1> QED
  BY <1>3

(* What a level of the recursion does to a part of at most k elements.     *)
Sorts(f, k, n, relation, V) ==
  \A d, min, max : Job(d, n, min, max) /\ max - min <= k /\ Vals(d, Span(min, max)) \subseteq V
                     => Done(f[[data |-> d, min |-> min, max |-> max]], d, n, min, max, relation)

LEMMA JobPart ==
  ASSUME NEW d, NEW n, NEW min, NEW max, Job(d, n, min, max)
  PROVE  [data |-> d, min |-> min, max |-> max] \in Parts
<1>1. n \in Nat /\ Row(d, n) /\ min \in Nat /\ max \in Nat
  BY DEF Job
<1>2. d \in Seq(Nat)
  BY <1>1, RowIs
<1> QED
  BY <1>1, <1>2 DEF Parts

LEMMA DoneEmpty ==
  ASSUME NEW d, NEW n, NEW min, NEW max, NEW relation, Job(d, n, min, max), ~ (min < max)
  PROVE  Done(d, d, n, min, max, relation)
<1>1. Row(d, n) /\ Outside(d, d, n, min, max)
  BY DEF Job, Outside
<1>2. Ordered(d, relation, min, max)
  BY DEF Job, Ordered
<1> QED
  BY <1>1, <1>2 DEF Done

LEMMA SortsNone ==
  ASSUME NEW n, NEW relation, NEW V, NEW f, f = [s \in Parts |-> s.data]
  PROVE  Sorts(f, 0, n, relation, V)
<1> SUFFICES ASSUME NEW d, NEW min, NEW max, Job(d, n, min, max), max - min <= 0
             PROVE  Done(f[[data |-> d, min |-> min, max |-> max]], d, n, min, max, relation)
  BY DEF Sorts
<1> DEFINE s == [data |-> d, min |-> min, max |-> max]
<1>1. f[s] = d
  <2>1. s \in Parts
    BY JobPart
  <2>2. f[s] = s.data
    BY <2>1
  <2> QED
    BY <2>2
<1>2. ~ (min < max)
  BY DEF Job
<1>3. Done(d, d, n, min, max, relation)
  BY <1>2, DoneEmpty
<1> QED
  BY <1>1, <1>3

LEMMA CutJobs ==
  ASSUME NEW d, NEW n, NEW min, NEW max, Job(d, n, min, max), min < max, NEW q, NEW V,
         Vals(d, Span(min, max)) \subseteq V, NEW k \in Nat, max - min <= k + 1,
         NEW c, NEW at, Cut(c, at, d, n, min, max, q)
  PROVE  /\ Job(c, n, min, at - 1) /\ (at - 1) - min <= k
         /\ Vals(c, Span(min, at - 1)) \subseteq V
         /\ \A e, relation : Done(e, c, n, min, at - 1, relation) =>
              /\ Job(e, n, at, max) /\ max - at <= k /\ Vals(e, Span(at, max)) \subseteq V
<1>1. /\ at \in Nat /\ min < at /\ at <= max /\ Row(c, n)
      /\ Vals(c, Span(min, max)) = Vals(d, Span(min, max))
  BY DEF Cut
<1>2. n \in Nat /\ min \in Nat /\ max \in Nat /\ 1 <= min /\ max <= n + 1
  BY DEF Job
<1>3. /\ at - 1 \in Nat /\ min <= at - 1 /\ at - 1 <= n + 1 /\ (at - 1) - min <= k
      /\ max - at <= k /\ 1 <= at
  BY <1>1, <1>2
<1>4. /\ Span(min, at - 1) \subseteq Span(min, max) /\ Span(at, max) \subseteq Span(min, max)
      /\ \A j \in Span(at, max) : j \in (1 .. n) \ Span(min, at - 1)
  BY <1>1, <1>2 DEF Span
<1>5. \A j \in Span(min, max) : c[j] \in V
  BY <1>1 DEF Vals
<1>6. Vals(c, Span(min, at - 1)) \subseteq V
  BY <1>4, <1>5 DEF Vals
<1>7. ASSUME NEW e, NEW relation, Done(e, c, n, min, at - 1, relation)
      PROVE Job(e, n, at, max) /\ max - at <= k /\ Vals(e, Span(at, max)) \subseteq V
  <2>1. Row(e, n) /\ \A j \in (1 .. n) \ Span(min, at - 1) : e[j] = c[j]
    BY <1>7 DEF Done, Outside
  <2>2. \A j \in Span(at, max) : e[j] \in V
    BY <1>4, <1>5, <2>1
  <2>3. Vals(e, Span(at, max)) \subseteq V
    BY <2>2 DEF Vals
  <2> QED
    BY <1>1, <1>2, <1>3, <2>1, <2>3 DEF Job
<1>8. Job(c, n, min, at - 1)
  BY <1>1, <1>2, <1>3 DEF Job
<1> QED
  BY <1>3, <1>6, <1>7, <1>8

LEMMA SortsMore ==
  ASSUME NEW n, NEW relation, NEW V, Fair(relation, V), NEW k \in Nat, NEW f, NEW g,
         Sorts(g, k, n, relation, V), f = [s \in Parts |-> SortPart(s, g, relation)]
  PROVE  Sorts(f, k + 1, n, relation, V)
<1> SUFFICES ASSUME NEW d, NEW min, NEW max, Job(d, n, min, max), max - min <= k + 1,
                    Vals(d, Span(min, max)) \subseteq V
             PROVE  Done(f[[data |-> d, min |-> min, max |-> max]], d, n, min, max, relation)
  BY DEF Sorts
<1> DEFINE s == [data |-> d, min |-> min, max |-> max]
           split == Partition(d, min, max, relation)
           c == split.data
           at == split.at
           e == g[[data |-> c, min |-> min, max |-> at - 1]]
           t == g[[data |-> e, min |-> at, max |-> max]]
<1>1. f[s] = IF min >= max THEN d ELSE t
  <2>1. s \in Parts
    BY JobPart
  <2>2. f[s] = SortPart(s, g, relation)
    BY <2>1
  <2> QED
    BY <2>2 DEF SortPart
<1>2. CASE ~ (min < max)
  <2>1. min >= max
    BY <1>2 DEF Job
  <2> QED
    BY <1>1, <1>2, <2>1, DoneEmpty
<1>3. CASE min < max
  <2> HIDE DEF s
  <2>1. Cut(c, at, d, n, min, max, relation[d[min]])
    BY <1>3, PartitionCuts
  <2> HIDE DEF split, c, at
  <2>2. /\ Job(c, n, min, at - 1) /\ (at - 1) - min <= k
        /\ Vals(c, Span(min, at - 1)) \subseteq V
        /\ \A x, y : Done(x, c, n, min, at - 1, y) =>
             /\ Job(x, n, at, max) /\ max - at <= k /\ Vals(x, Span(at, max)) \subseteq V
    BY <1>3, <2>1, CutJobs
  <2>3. Done(e, c, n, min, at - 1, relation)
    BY <2>2 DEF Sorts
  <2> HIDE DEF e
  <2>4. Job(e, n, at, max) /\ max - at <= k /\ Vals(e, Span(at, max)) \subseteq V
    BY <2>2, <2>3
  <2>5. Done(t, e, n, at, max, relation)
    BY <2>4 DEF Sorts
  <2> HIDE DEF t
  <2>6. Done(t, d, n, min, max, relation)
    BY <1>3, <2>1, <2>3, <2>5, Halves
  <2>7. ~ (min >= max)
    BY <1>3 DEF Job
  <2> QED
    BY <1>1, <2>6, <2>7 DEF s
<1> QED
  BY <1>2, <1>3

LEMMA Sorted ==
  ASSUME NEW n \in Nat, NEW relation, NEW V, Fair(relation, V), NEW m \in Nat
  PROVE  Sorts(Sorting(relation, m)[m], m, n, relation, V)
<1> DEFINE f == Sorting(relation, m)
           Fits(k) == Sorts(f[k], k, n, relation, V)
           Odd == {k \in 0 .. m : ~ Fits(k)}
<1>1. IsSort(f, relation, m)
  <2>1. \E g : IsSort(g, relation, m)
    BY SortExist
  <2> QED
    BY <2>1 DEF Sorting
<1> HIDE DEF f
<1>2. \A k \in 0 .. m : f[k] = IF k = 0 THEN [s \in Parts |-> s.data]
                               ELSE [s \in Parts |-> SortPart(s, f[k - 1], relation)]
  BY <1>1 DEF IsSort
<1>3. Fits(0)
  <2>1. f[0] = [s \in Parts |-> s.data]
    <3>1. 0 \in 0 .. m
      OBVIOUS
    <3> QED
      BY <1>2, <3>1
  <2> QED
    BY <2>1, SortsNone
<1>4. ASSUME NEW k \in Nat, k < m, Fits(k) PROVE Fits(k + 1)
  <2>1. f[k + 1] = [s \in Parts |-> SortPart(s, f[k], relation)]
    <3>1. k + 1 \in 0 .. m /\ k + 1 # 0 /\ (k + 1) - 1 = k
      BY <1>4
    <3> QED
      BY <1>2, <3>1
  <2> QED
    BY <1>4, <2>1, SortsMore
<1> HIDE DEF Fits
<1>5. Odd = {}
  <2>1. SUFFICES ASSUME Odd # {} PROVE FALSE
    OBVIOUS
  <2>2. PICK k \in Odd : \A j \in Odd : k <= j
    <3>1. Odd \subseteq Nat
      OBVIOUS
    <3> HIDE DEF Odd
    <3> QED
      BY <2>1, <3>1, Least
  <2>3. k \in 0 .. m /\ k # 0
    BY <1>3, <2>2
  <2>4. k - 1 \in Nat /\ k - 1 < m /\ k - 1 \in 0 .. m /\ k - 1 \notin Odd /\ (k - 1) + 1 = k
    BY <2>2, <2>3
  <2>5. Fits(k - 1)
    BY <2>4
  <2>6. Fits((k - 1) + 1)
    BY <1>4, <2>4, <2>5
  <2> QED
    BY <2>2, <2>4, <2>6
<1> QED
  BY <1>5 DEF Fits, f

(* The elements of a vector in the order of the relation.                  *)
InOrder(e, n, relation) ==
  /\ e \in Seq(Nat) /\ Len(e) = n /\ {e[i] : i \in 1 .. n} = 1 .. n
  /\ \A i \in 1 .. n - 1 : relation[e[i]][e[i + 1]] <= 0

LEMMA SortedList ==
  ASSUME NEW v, NEW n \in Nat, Lists(v, n), NEW relation, Fair(relation, 1 .. n)
  PROVE  InOrder(Elements(Sort(v, relation)), n, relation)
<1> DEFINE d == v.data
           l == Len(d)
           s == [data |-> d, min |-> 1, max |-> n + 1]
           t == Sorting(relation, n)[n][s]
           w == Sort(v, relation)
           e == SubSeq(t, 1, n)
<1>1. /\ v = [data |-> d, count |-> n] /\ d \in Seq(Nat) /\ l \in Nat /\ l >= n
      /\ \A i \in 1 .. n : d[i] = i
  BY DEF Lists
<1>2. w = [data |-> t, count |-> n]
  <2>1. w = [v EXCEPT !.data = Sorting(relation, v.count)[v.count]
                                 [[data |-> v.data, min |-> 1, max |-> v.count + 1]]]
    BY SortIs
  <2>2. v.count = n
    BY <1>1
  <2>3. w = [v EXCEPT !.data = t]
    BY <2>1, <2>2
  <2> HIDE DEF d, t, w
  <2> QED
    BY <1>1, <2>3
<1>3. Sorts(Sorting(relation, n)[n], n, l, relation, 1 .. n)
  BY <1>1, Sorted
<1>4. Job(d, l, 1, n + 1)
  <2>1. Row(d, l)
    BY <1>1, RowIs
  <2> HIDE DEF d, l
  <2> QED
    BY <1>1, <2>1 DEF Job
<1> HIDE DEF d, l, w
<1>5. Span(1, n + 1) = 1 .. n /\ (n + 1) - 1 <= n /\ (n + 1) - 2 = n - 1
  BY DEF Span
<1>6. Vals(d, 1 .. n) = 1 .. n
  BY <1>1 DEF Vals
<1>7. Done(t, d, l, 1, n + 1, relation)
  BY <1>3, <1>4, <1>5, <1>6 DEF Sorts
<1> HIDE DEF t
<1>8. /\ t \in Seq(Nat) /\ Len(t) = l /\ Vals(t, 1 .. n) = 1 .. n
      /\ \A i \in 1 .. n - 1 : relation[t[i]][t[i + 1]] <= 0
  <2>1. Row(t, l) /\ Vals(t, 1 .. n) = 1 .. n
    BY <1>5, <1>6, <1>7 DEF Done
  <2>2. \A i \in 1 .. n - 1 : relation[t[i]][t[i + 1]] <= 0
    BY <1>5, <1>7 DEF Done, Ordered
  <2> QED
    BY <1>1, <2>1, <2>2, RowIs
<1>9. /\ e \in Seq(Nat) /\ Len(e) = n /\ \A i \in 1 .. n : e[i] = t[i]
  BY <1>1, <1>8
<1>10. Elements(w) = e
  BY <1>2 DEF Elements
<1> HIDE DEF e
<1>11. {e[i] : i \in 1 .. n} = 1 .. n
  BY <1>8, <1>9 DEF Vals
<1>12. ASSUME NEW i \in 1 .. n - 1 PROVE relation[e[i]][e[i + 1]] <= 0
  <2>1. i \in 1 .. n /\ i + 1 \in 1 .. n
    OBVIOUS
  <2>2. e[i] = t[i] /\ e[i + 1] = t[i + 1]
    BY <1>9, <2>1
  <2> QED
    BY <1>8, <2>2
<1> QED
  BY <1>9, <1>10, <1>11, <1>12 DEF InOrder, w

(* Compare() on the arguments, and what it says of two of them.            *)
Relation == [a \in DOMAIN arguments |-> [b \in DOMAIN arguments |-> Compare(arguments[a], arguments[b])]]

NamesBefore(a, b) ==
  \/ Code[a.long] < Code[b.long]
  \/ a.long = b.long /\ Code[a.short] >= Code[b.short]

LEMMA ArgumentCodes ==
  ASSUME ArgsRight(arguments), NEW a \in DOMAIN arguments, NEW b \in DOMAIN arguments
  PROVE  LET s == arguments[a]
             t == arguments[b]
         IN  /\ Code[s.long] \in Int /\ Code[s.short] \in Int
             /\ Code[t.long] \in Int /\ Code[t.short] \in Int
             /\ Code[s.long] = Code[t.long] => s.long = t.long
<1>1. /\ arguments[a].short \in FieldNames("short") /\ arguments[a].long \in FieldNames("long")
      /\ arguments[b].short \in FieldNames("short") /\ arguments[b].long \in FieldNames("long")
  BY DEF ArgsRight
<1>2. PICK o \in Options : arguments[a].long = o.long
  BY <1>1 DEF FieldNames
<1>3. PICK p \in Options : arguments[b].long = p.long
  BY <1>1 DEF FieldNames
<1>4. PICK y \in Options : arguments[a].short = y.short
  BY <1>1 DEF FieldNames
<1>5. PICK z \in Options : arguments[b].short = z.short
  BY <1>1 DEF FieldNames
<1> QED
  BY <1>2, <1>3, <1>4, <1>5, CodeAssumption

LEMMA Compared ==
  ASSUME ArgsRight(arguments), NEW a \in DOMAIN arguments, NEW b \in DOMAIN arguments
  PROVE  /\ Relation[a][b] \in Int
         /\ ~ (Relation[a][b] < 0) => Relation[b][a] <= 0
         /\ Relation[a][b] <= 0 => NamesBefore(arguments[a], arguments[b])
<1> DEFINE s == arguments[a]
           t == arguments[b]
           sl == Code[s.long]
           ss == Code[s.short]
           tl == Code[t.long]
           ts == Code[t.short]
<1>1. sl \in Int /\ ss \in Int /\ tl \in Int /\ ts \in Int /\ (sl = tl => s.long = t.long)
  BY ArgumentCodes
<1>2. /\ Relation[a][b] = IF s.long # t.long THEN sl - tl ELSE ts - ss
      /\ Relation[b][a] = IF t.long # s.long THEN tl - sl ELSE ss - ts
  BY DEF Relation, Compare
<1>3. NamesBefore(s, t) <=> \/ sl < tl
                            \/ s.long = t.long /\ ss >= ts
  BY DEF NamesBefore
<1> HIDE DEF s, t, sl, ss, tl, ts
<1>4. CASE s.long = t.long
  BY <1>1, <1>2, <1>3, <1>4 DEF s, t
<1>5. CASE s.long # t.long
  BY <1>1, <1>2, <1>3, <1>5 DEF s, t
<1> QED
  BY <1>4, <1>5

Listed == Lists(allArguments, Len(arguments))
HelpInv == NamesInv /\ (phase # "helped" => Listed) /\ HelpComplete

LEMMA NotYetHelped ==
  ASSUME phase # "helped", NEW n \in Nat, Lists(allArguments, n), DOMAIN arguments = 1 .. n
  PROVE  HelpComplete
BY ListsElements DEF HelpComplete

LEMMA HelpLists ==
  ASSUME NamesInv, Listed, NEW argv \in Words, NEW meaning, Parse(argv, meaning)
  PROVE  (phase' # "helped" => Listed') /\ HelpComplete'
<1> DEFINE n == Len(arguments)
           sorted == Sort(allArguments, Relation)
           e == Elements(sorted)
<1>1. arguments' = Parsed(argv).arguments
  BY DEF Parse
<1>2. Kept(arguments', arguments)
  BY <1>1, ParsedKeeps DEF NamesInv, KeptScan
<1>3. /\ n \in Nat /\ DOMAIN arguments = 1 .. n /\ DOMAIN arguments' = 1 .. n /\ Len(arguments') = n
      /\ ArgsRight(arguments)
  BY <1>2 DEF Kept, NamesInv, ArgsRight
<1>4. \/ /\ allArguments' = sorted /\ printed' = e /\ phase' = "helped"
      \/ phase' = "running" /\ allArguments' = allArguments
  BY DEF Parse, Help, Relation
<1>5. CASE phase' = "running" /\ allArguments' = allArguments
  <2>1. Lists(allArguments', n)
    BY <1>5 DEF Listed
  <2>2. Listed'
    BY <1>3, <2>1 DEF Listed
  <2>3. Elements(allArguments') = [i \in DOMAIN arguments' |-> i]
    BY <1>3, <2>1, ListsElements
  <2>4. HelpComplete'
    BY <1>5, <2>3 DEF HelpComplete
  <2> QED
    BY <2>2, <2>4
<1>6. CASE allArguments' = sorted /\ printed' = e /\ phase' = "helped"
  <2>1. Fair(Relation, 1 .. n)
    BY <1>3, Compared DEF Fair
  <2>2. Lists(allArguments, n)
    BY DEF Listed
  <2>3. InOrder(e, n, Relation)
    BY <1>3, <2>1, <2>2, SortedList
  <2>10. Elements(sorted) = e
    OBVIOUS
  <2> HIDE DEF e, sorted
  <2>4. /\ e \in Seq(Nat) /\ Len(e) = n /\ {e[i] : i \in 1 .. n} = 1 .. n
        /\ \A i \in 1 .. n - 1 : Relation[e[i]][e[i + 1]] <= 0
    BY <2>3 DEF InOrder
  <2>5. ASSUME NEW i \in 1 .. n - 1
        PROVE  NamesBefore(arguments'[e[i]], arguments'[e[i + 1]])
    <3> DEFINE a == e[i]
               b == e[i + 1]
    <3>1. a \in DOMAIN arguments /\ b \in DOMAIN arguments
      <4>1. i \in 1 .. n /\ i + 1 \in 1 .. n
        BY <1>3
      <4> QED
        BY <1>3, <2>4, <4>1
    <3>2. Relation[a][b] <= 0
      BY <2>4
    <3> HIDE DEF a, b
    <3>3. NamesBefore(arguments[a], arguments[b])
      BY <1>3, <3>1, <3>2, Compared
    <3>4. /\ arguments'[a].short = arguments[a].short /\ arguments'[a].long = arguments[a].long
          /\ arguments'[b].short = arguments[b].short /\ arguments'[b].long = arguments[b].long
      BY <1>2, <3>1 DEF Kept
    <3>5. NamesBefore(arguments'[a], arguments'[b])
      BY <3>3, <3>4 DEF NamesBefore
    <3> QED
      BY <3>5 DEF a, b
  <2>6. /\ Elements(allArguments') = printed' /\ Len(printed') = Len(arguments')
        /\ DOMAIN printed' = 1 .. n
        /\ {printed'[i] : i \in DOMAIN printed'} = DOMAIN arguments'
    <3>1. printed' = e /\ Elements(allArguments') = e
      BY <1>6, <2>10
    <3>2. DOMAIN e = 1 .. n
      BY <1>3, <2>4
    <3> QED
      BY <1>3, <2>4, <3>1, <3>2
  <2>7. \A i \in 1 .. Len(printed') - 1 :
           \/ Code[arguments'[printed'[i]].long] < Code[arguments'[printed'[i + 1]].long]
           \/ /\ arguments'[printed'[i]].long = arguments'[printed'[i + 1]].long
              /\ Code[arguments'[printed'[i]].short] >= Code[arguments'[printed'[i + 1]].short]
    BY <1>3, <1>6, <2>4, <2>5 DEF NamesBefore
  <2>8. HelpComplete'
    BY <2>6, <2>7 DEF HelpComplete
  <2> QED
    BY <1>6, <2>8
<1> QED
  BY <1>4, <1>5, <1>6

(* However many arguments there are, and for every order of the names, the *)
(* help lists each argument that was ever defined exactly once, by long    *)
(* name, those without one first and by letter downwards: the vector grows *)
(* without losing one, and the quicksort in place keeps every element and  *)
(* leaves no two neighbours in the wrong order.                            *)
THEOREM HelpCompleteAlways == Spec => []HelpComplete
<1>1. Init => HelpInv
  <2> SUFFICES ASSUME Init PROVE HelpInv
    OBVIOUS
  <2>1. Lists(NoElements, 0)
    BY DEF Lists, NoElements
  <2>2. phase # "helped" /\ allArguments = NoElements /\ arguments = <<>>
    BY DEF Init
  <2>3. Listed
    BY <2>1, <2>2 DEF Listed
  <2>4. HelpComplete
    BY <2>1, <2>2, NotYetHelped
  <2> QED
    BY <2>3, <2>4, NamesInit DEF HelpInv
<1>2. HelpInv /\ [Next]_vars => HelpInv'
  <2> SUFFICES ASSUME HelpInv, [Next]_vars PROVE HelpInv'
    OBVIOUS
  <2>1. CASE UNCHANGED vars
    BY <2>1 DEF vars, HelpInv, NamesInv, Listed, HelpComplete
  <2>2. ASSUME NEW option \in Options, Define(option) PROVE HelpInv'
    <3> DEFINE n == Len(arguments)
    <3>1. /\ phase = "defining" /\ phase' = "defining"
          /\ arguments' = Append(arguments, Argument(option))
          /\ allArguments' = PushBack(allArguments, n + 1)
      BY <2>2 DEF Define
    <3>2. NamesInv'
      BY <2>2, NamesDefine DEF HelpInv
    <3>3. arguments \in Seq(ArgumentRecord) /\ n \in Nat
      BY DEF HelpInv, NamesInv, ArgsRight
    <3>4. Len(arguments') = n + 1 /\ DOMAIN arguments' = 1 .. n + 1
      BY <3>1, <3>3
    <3>5. Lists(allArguments, n)
      BY <3>1 DEF HelpInv, Listed
    <3> HIDE DEF n
    <3>6. Lists(allArguments', n + 1)
      BY <3>1, <3>3, <3>5, PushLists
    <3>7. Elements(allArguments') = [i \in DOMAIN arguments' |-> i]
      BY <3>3, <3>4, <3>6, ListsElements
    <3>8. HelpComplete'
      BY <3>1, <3>7 DEF HelpComplete
    <3>9. Listed'
      BY <3>4, <3>6 DEF Listed
    <3> QED
      BY <3>2, <3>8, <3>9 DEF HelpInv
  <2>3. CASE UserParses
    <3>1. phase = "defining"
      BY <2>3 DEF UserParses
    <3>2. PICK items \in Wishes, unknown \in Unknowns, dashes \in BOOLEAN, words \in Finals :
            LET end == End(dashes, words)
                argv == Written(items) \o unknown \o end
            IN  Parse(argv, [items |-> items, unknown |-> unknown # <<>>, final |-> end])
      BY <2>3 DEF UserParses, End
    <3> DEFINE argv == Written(items) \o unknown \o End(dashes, words)
               meaning == [items |-> items, unknown |-> unknown # <<>>, final |-> End(dashes, words)]
    <3>3. argv \in Words
      BY ArgvWords DEF HelpInv, NamesInv
    <3>4. Parse(argv, meaning)
      BY <3>2
    <3> HIDE DEF argv, meaning
    <3>5. (phase' # "helped" => Listed') /\ HelpComplete'
      BY <3>1, <3>3, <3>4, HelpLists DEF HelpInv
    <3>6. NamesInv'
      BY <2>3, NamesParse DEF HelpInv
    <3> QED
      BY <3>5, <3>6 DEF HelpInv
  <2> QED
    BY <2>1, <2>2, <2>3 DEF Next
<1>3. HelpInv => HelpComplete
  BY DEF HelpInv
<1> QED
  BY <1>1, <1>2, <1>3, PTL DEF Spec
=============================================================================
