----------------------------- MODULE EventProofs -----------------------------
(***************************************************************************)
(* Proofs about an event, for any number of handlers and of fires, nested  *)
(* as deep as they may be.                                                 *)
(***************************************************************************)
EXTENDS EventProps, SequenceTheorems, TLAPS

(* The list never comes back to where it was, not from a handler that is   *)
(* no longer in it either; a handler that was removed is not in it, and    *)
(* nothing leads to one that was never added.                              *)
ListShape ==
    /\ \A h \in Handler : h \notin Reachable(next, next[h])
    /\ \A h \in Handler : removed[h] => h \notin Linked
    /\ \A h \in Handler : next[h] # Null => life[next[h]] # "new"

(* A fire is at a handler of the list, or the outermost at one that was    *)
(* removed since; from either it gets into the list, and the handlers due  *)
(* are those it comes to.  A handler is busy only while it is called.      *)
FireShape ==
    /\ \A d \in DOMAIN fires :
          /\ \/ fires[d].h \in Linked
             \/ d = 1 /\ removed[fires[d].h] /\ busy[fires[d].h]
          /\ next[fires[d].h] \in Linked \cup {Null}
          /\ fires[d].due = Reachable(next, next[fires[d].h])
    /\ \A h \in Handler : busy[h] => h \in Calling

IInv == TypeOK /\ LivesWhileNeeded /\ ListShape /\ FireShape

-----------------------------------------------------------------------------
(* Reachability.                                                           *)
Nexts == [Handler -> Handler \cup {Null}]

Closed(f, S) == \A p \in S : f[p] \in S \cup {Null}

(* The least set: in every closed set that holds the start.                *)
LEMMA ReachableLeast ==
    ASSUME NEW f \in Nexts, NEW h \in Handler \cup {Null},
           NEW S \in SUBSET Handler, h \in S \cup {Null}, Closed(f, S)
    PROVE  Reachable(f, h) \subseteq S
BY DEF Reachable, Closed

LEMMA ReachableClosed ==
    ASSUME NEW f \in Nexts, NEW h \in Handler \cup {Null}
    PROVE  /\ Reachable(f, h) \in SUBSET Handler
           /\ h \in Reachable(f, h) \cup {Null}
           /\ Closed(f, Reachable(f, h))
<1>1. Reachable(f, h) \in SUBSET Handler
  BY DEF Reachable
<1>2. h \in Reachable(f, h) \cup {Null}
  BY DEF Reachable
<1>3. ASSUME NEW p \in Reachable(f, h), f[p] # Null
      PROVE  f[p] \in Reachable(f, h)
  <2>1. p \in Handler /\ f[p] \in Handler
    BY <1>3 DEF Reachable, Nexts
  <2>2. ASSUME NEW S \in SUBSET Handler, h \in S \cup {Null},
               \A q \in S : f[q] \in S \cup {Null}
        PROVE  f[p] \in S
    <3>1. p \in S
      BY <1>3, <2>2 DEF Reachable
    <3> QED
      BY <1>3, <2>2, <3>1
  <2> QED
    BY <2>1, <2>2 DEF Reachable
<1> QED
  BY <1>1, <1>2, <1>3 DEF Closed

LEMMA ReachableNull ==
    ASSUME NEW f \in Nexts
    PROVE  Reachable(f, Null) = {}
<1>1. Closed(f, {})
  BY DEF Closed
<1> QED
  BY <1>1, ReachableLeast

(* A walk comes to its first handler, and then goes where it leads.        *)
LEMMA ReachableStep ==
    ASSUME NEW f \in Nexts, NEW h \in Handler
    PROVE  Reachable(f, h) = {h} \cup Reachable(f, f[h])
<1>1. f[h] \in Handler \cup {Null} /\ h # Null
  BY EventAssumption DEF Nexts
<1> DEFINE R == Reachable(f, h)
           S == {h} \cup Reachable(f, f[h])
<1>2. /\ R \in SUBSET Handler /\ h \in R /\ Closed(f, R)
      /\ Reachable(f, f[h]) \in SUBSET Handler
      /\ f[h] \in Reachable(f, f[h]) \cup {Null}
      /\ Closed(f, Reachable(f, f[h]))
  BY <1>1, ReachableClosed
<1>3. Reachable(f, f[h]) \subseteq R
  <2>1. f[h] \in R \cup {Null}
    BY <1>2 DEF Closed
  <2> QED
    BY <1>1, <1>2, <2>1, ReachableLeast
<1>4. R \subseteq S
  <2>1. S \in SUBSET Handler /\ h \in S /\ Closed(f, S)
    BY <1>2 DEF Closed
  <2> QED
    BY <2>1, ReachableLeast
<1> QED
  BY <1>2, <1>3, <1>4

LEMMA ReachableWithin ==
    ASSUME NEW f \in Nexts, NEW h \in Handler \cup {Null},
           NEW k \in Reachable(f, h) \cup {Null}
    PROVE  Reachable(f, k) \subseteq Reachable(f, h)
<1>1. Reachable(f, h) \in SUBSET Handler /\ Closed(f, Reachable(f, h))
  BY ReachableClosed
<1> QED
  BY <1>1, ReachableLeast

(* A walk is what it was if no successor on it is changed.                 *)
LEMMA ReachableSame ==
    ASSUME NEW f \in Nexts, NEW g \in Nexts, NEW h \in Handler \cup {Null},
           \A p \in Reachable(f, h) : g[p] = f[p]
    PROVE  Reachable(g, h) = Reachable(f, h)
<1> DEFINE F == Reachable(f, h)
           G == Reachable(g, h)
<1>1. /\ F \in SUBSET Handler /\ h \in F \cup {Null} /\ Closed(f, F)
      /\ G \in SUBSET Handler /\ h \in G \cup {Null} /\ Closed(g, G)
  BY ReachableClosed
<1>2. G \subseteq F
  <2>1. Closed(g, F)
    BY <1>1 DEF Closed
  <2> QED
    BY <1>1, <2>1, ReachableLeast
<1>3. F \subseteq G
  <2>1. Closed(f, G)
    BY <1>1, <1>2 DEF Closed
  <2> QED
    BY <1>1, <2>1, ReachableLeast
<1> QED
  BY <1>2, <1>3

(* h is taken out of the walk from k, whose every handler that h succeeds  *)
(* gets the successor of h.                                                *)
Unlinked(f, g, h, k) ==
    \A p \in Reachable(f, k) : g[p] = IF f[p] = h THEN f[h] ELSE f[p]

LEMMA ReachableUnlinked ==
    ASSUME NEW f \in Nexts, NEW g \in Nexts, NEW h \in Handler,
           NEW k \in Handler \cup {Null}, k # h,
           h \notin Reachable(f, f[h]), Unlinked(f, g, h, k)
    PROVE  Reachable(g, k) = Reachable(f, k) \ {h}
<1> DEFINE F == Reachable(f, k)
           G == Reachable(g, k)
<1>1. /\ F \in SUBSET Handler /\ k \in F \cup {Null} /\ Closed(f, F)
      /\ G \in SUBSET Handler /\ k \in G \cup {Null} /\ Closed(g, G)
  BY ReachableClosed
<1>2. f[h] # h
  <2>1. f[h] \in Reachable(f, f[h]) \cup {Null}
    BY ReachableClosed DEF Nexts
  <2> QED
    BY <2>1, EventAssumption
<1>3. G \subseteq F \ {h}
  <2>1. Closed(g, F \ {h})
    <3> SUFFICES ASSUME NEW p \in F \ {h}, g[p] # Null
                 PROVE  g[p] \in F \ {h}
      BY DEF Closed
    <3>1. CASE f[p] = h
      <4>1. h \in F
        BY <1>1, <3>1, EventAssumption DEF Closed
      <4>2. g[p] = f[h] /\ f[h] \in F \cup {Null}
        BY <1>1, <3>1, <4>1 DEF Closed, Unlinked
      <4> QED
        BY <1>2, <4>2
    <3>2. CASE f[p] # h
      BY <1>1, <3>2 DEF Closed, Unlinked
    <3> QED
      BY <3>1, <3>2
  <2>2. F \ {h} \in SUBSET Handler /\ k \in (F \ {h}) \cup {Null}
    BY <1>1
  <2> QED
    BY <2>1, <2>2, ReachableLeast
<1>4. F \ {h} \subseteq G
  <2>1. CASE \E p \in G : f[p] = h
    <3>1. PICK p \in G : f[p] = h
      BY <2>1
    <3>2. g[p] = f[h] /\ g[p] \in G \cup {Null}
      BY <1>1, <1>3, <3>1 DEF Closed, Unlinked
    <3>3. Closed(f, G \cup {h})
      <4> SUFFICES ASSUME NEW q \in G, f[q] # h
                   PROVE  f[q] \in G \cup {Null}
        BY <3>2 DEF Closed
      <4>1. g[q] = f[q]
        BY <1>3 DEF Unlinked
      <4> QED
        BY <1>1, <4>1 DEF Closed
    <3>4. G \cup {h} \in SUBSET Handler /\ k \in (G \cup {h}) \cup {Null}
      BY <1>1
    <3>5. F \subseteq G \cup {h}
      BY <3>3, <3>4, ReachableLeast
    <3> QED
      BY <3>5
  <2>2. CASE \A p \in G : f[p] # h
    <3>1. Closed(f, G)
      BY <1>1, <1>3, <2>2 DEF Closed, Unlinked
    <3>2. F \subseteq G
      BY <1>1, <3>1, ReachableLeast
    <3> QED
      BY <3>2
  <2> QED
    BY <2>1, <2>2
<1> QED
  BY <1>3, <1>4

-----------------------------------------------------------------------------
(* What every step starts from.                                            *)
LEMMA ListFacts ==
    ASSUME IInv
    PROVE  /\ next \in Nexts /\ handlers \in Handler \cup {Null}
           /\ Linked \in SUBSET Handler /\ handlers \in Linked \cup {Null}
           /\ \A h \in Linked : next[h] \in Linked \cup {Null}
           /\ \A h \in Linked : life[h] = "live" /\ ~removed[h]
           /\ \A h \in Handler : next[h] # h
           /\ handlers = Null => Linked = {}
<1>1. next \in Nexts /\ handlers \in Handler \cup {Null}
  BY DEF IInv, TypeOK, Nexts
<1>2. /\ Linked \in SUBSET Handler /\ handlers \in Linked \cup {Null}
      /\ \A h \in Linked : next[h] \in Linked \cup {Null}
  BY <1>1, ReachableClosed DEF Linked, Closed
<1>3. \A h \in Linked : life[h] = "live" /\ ~removed[h]
  BY <1>2 DEF IInv, LivesWhileNeeded, ListShape
<1>4. ASSUME NEW h \in Handler PROVE next[h] # h
  <2>1. next[h] \in Reachable(next, next[h]) \cup {Null}
    BY <1>1, ReachableClosed DEF Nexts
  <2> QED
    BY <2>1, EventAssumption DEF IInv, ListShape
<1>5. handlers = Null => Linked = {}
  BY <1>1, ReachableNull DEF Linked
<1> QED
  BY <1>1, <1>2, <1>3, <1>4, <1>5

LEMMA Callers ==
    ASSUME IInv
    PROVE  /\ DOMAIN fires = 1 .. Len(fires) /\ Len(fires) \in Nat
           /\ \A d \in DOMAIN fires : fires[d].h \in Handler /\ fires[d].due \in SUBSET Handler
           /\ \A d \in DOMAIN fires : fires[d] \in [h : Handler, due : SUBSET Handler]
           /\ \A h \in Calling : life[h] = "live"
<1>1. /\ DOMAIN fires = 1 .. Len(fires) /\ Len(fires) \in Nat
      /\ \A d \in DOMAIN fires : fires[d] \in [h : Handler, due : SUBSET Handler]
  <2> DEFINE Frame == [h : Handler, due : SUBSET Handler]
  <2>1. fires \in Seq(Frame)
    BY DEF IInv, TypeOK
  <2> HIDE DEF Frame
  <2>2. /\ DOMAIN fires = 1 .. Len(fires) /\ Len(fires) \in Nat
        /\ \A d \in 1 .. Len(fires) : fires[d] \in Frame
    BY <2>1, LenProperties, ElementOfSeq
  <2> QED
    BY <2>2 DEF Frame
<1>2. \A d \in DOMAIN fires : fires[d].h \in Handler /\ fires[d].due \in SUBSET Handler
  BY <1>1
<1>3. ASSUME NEW h \in Calling PROVE life[h] = "live"
  <2>1. PICK d \in DOMAIN fires : h = fires[d].h
    BY <1>3 DEF Calling
  <2> QED
    BY <1>2, <1>3, <2>1 DEF IInv, FireShape, LivesWhileNeeded
<1> QED
  BY <1>1, <1>2, <1>3

LEMMA InitIInv == Init => IInv
<1> SUFFICES ASSUME Init PROVE IInv
  OBVIOUS
<1>1. next \in Nexts /\ handlers = Null /\ \A h \in Handler : next[h] = Null
  BY DEF Init, Nexts
<1>2. Reachable(next, Null) = {} /\ Linked = {}
  BY <1>1, ReachableNull DEF Linked
<1>3. Calling = {} /\ DOMAIN fires = {}
  BY DEF Init, Calling
<1>4. TypeOK
  BY EventAssumption DEF Init, TypeOK
<1> QED
  BY <1>1, <1>2, <1>3, <1>4 DEF Init, IInv, LivesWhileNeeded, ListShape, FireShape

-----------------------------------------------------------------------------
LEMMA AddLinks ==
    ASSUME IInv, NEW h \in Handler, AddHandler(h)
    PROVE  /\ next' \in Nexts /\ handlers' = h
           /\ h \notin Linked /\ Linked' = Linked \cup {h}
           /\ \A k \in Handler : next[k] # h
           /\ \A k \in (Handler \cup {Null}) \ {h} : Reachable(next', k) = Reachable(next, k)
<1>1. /\ next \in Nexts /\ handlers \in Handler \cup {Null}
      /\ handlers \in Linked \cup {Null} /\ Linked \in SUBSET Handler
      /\ \A k \in Linked : life[k] = "live"
  BY ListFacts
<1>2. /\ life[h] = "new" /\ next' = [next EXCEPT ![h] = handlers] /\ handlers' = h
  BY DEF AddHandler
<1>3. next' \in Nexts /\ next'[h] = handlers /\ \A k \in Handler \ {h} : next'[k] = next[k]
  BY <1>1, <1>2 DEF Nexts
<1>4. h \notin Linked /\ h # handlers /\ h # Null
  BY <1>1, <1>2, EventAssumption
<1>5. \A k \in Handler : next[k] # h
  BY <1>2, <1>4 DEF IInv, ListShape
<1>6. ASSUME NEW k \in (Handler \cup {Null}) \ {h}
      PROVE  Reachable(next', k) = Reachable(next, k)
  <2> DEFINE R == Reachable(next, k)
  <2>1. R \in SUBSET Handler /\ k \in R \cup {Null} /\ Closed(next, R)
    BY <1>1, ReachableClosed
  <2>2. R \ {h} \in SUBSET Handler /\ k \in (R \ {h}) \cup {Null} /\ Closed(next, R \ {h})
    BY <1>5, <2>1 DEF Closed
  <2>3. R \subseteq R \ {h}
    BY <1>1, <2>2, ReachableLeast
  <2>4. \A p \in R : next'[p] = next[p]
    BY <1>3, <2>1, <2>3
  <2> QED
    BY <1>1, <1>3, <2>4, ReachableSame
<1>7. Linked' = Linked \cup {h}
  <2>1. Reachable(next', h) = {h} \cup Reachable(next', handlers)
    BY <1>3, ReachableStep
  <2>2. Reachable(next', handlers) = Linked
    BY <1>1, <1>4, <1>6 DEF Linked
  <2> QED
    BY <1>2, <2>1, <2>2 DEF Linked
<1> QED
  BY <1>2, <1>3, <1>4, <1>5, <1>6, <1>7

LEMMA AddStep ==
    ASSUME IInv, NEW h \in Handler, AddHandler(h)
    PROVE  IInv'
<1>1. /\ next' \in Nexts /\ handlers' = h
      /\ h \notin Linked /\ Linked' = Linked \cup {h}
      /\ \A k \in Handler : next[k] # h
      /\ \A k \in (Handler \cup {Null}) \ {h} : Reachable(next', k) = Reachable(next, k)
  BY AddLinks
<1>2. /\ next \in Nexts /\ handlers \in Handler \cup {Null}
      /\ handlers \in Linked \cup {Null} /\ Linked \in SUBSET Handler
      /\ \A k \in Linked : life[k] = "live"
  BY ListFacts
<1>3. /\ life[h] = "new" /\ life' = [life EXCEPT ![h] = "live"]
      /\ busy' = [busy EXCEPT ![h] = FALSE] /\ removed' = [removed EXCEPT ![h] = FALSE]
      /\ next' = [next EXCEPT ![h] = handlers]
      /\ UNCHANGED <<fires, fired>> /\ TypeOK
  BY DEF AddHandler, IInv
<1>4. next'[h] = handlers /\ \A k \in Handler \ {h} : next'[k] = next[k]
  BY <1>2, <1>3 DEF Nexts
<1>5. /\ \A d \in DOMAIN fires : fires[d].h \in Handler \ {h}
      /\ h \notin Calling /\ Calling' = Calling
  <2>1. h \notin Calling
    BY <1>3, Callers
  <2> QED
    BY <1>3, <2>1, Callers DEF Calling
<1>6. TypeOK'
  BY <1>1, <1>3 DEF TypeOK, Nexts
<1>7. LivesWhileNeeded'
  BY <1>1, <1>3, <1>5 DEF IInv, LivesWhileNeeded, TypeOK
<1>8. ListShape'
  <2>1. ASSUME NEW k \in Handler PROVE k \notin Reachable(next', next'[k])
    <3>1. CASE k = h
      <4>1. Reachable(next', handlers) = Linked
        BY <1>1, <1>2, EventAssumption DEF Linked
      <4> QED
        BY <1>1, <1>4, <3>1, <4>1
    <3>2. CASE k # h
      <4>1. next'[k] = next[k] /\ next[k] \in (Handler \cup {Null}) \ {h}
        BY <1>1, <1>2, <1>4, <3>2 DEF Nexts
      <4> QED
        BY <1>1, <4>1 DEF IInv, ListShape
    <3> QED
      BY <3>1, <3>2
  <2>2. \A k \in Handler : removed'[k] => k \notin Linked'
    BY <1>1, <1>3 DEF IInv, ListShape, TypeOK
  <2>3. \A k \in Handler : next'[k] # Null => life'[next'[k]] # "new"
    BY <1>2, <1>3, <1>4 DEF IInv, ListShape, TypeOK, Nexts
  <2> QED
    BY <2>1, <2>2, <2>3 DEF ListShape
<1>9. FireShape'
  <2>1. ASSUME NEW d \in DOMAIN fires
        PROVE  /\ \/ fires[d].h \in Linked'
                  \/ d = 1 /\ removed'[fires[d].h] /\ busy'[fires[d].h]
               /\ next'[fires[d].h] \in Linked' \cup {Null}
               /\ fires[d].due = Reachable(next', next'[fires[d].h])
    <3>1. /\ next'[fires[d].h] = next[fires[d].h]
          /\ removed'[fires[d].h] = removed[fires[d].h] /\ busy'[fires[d].h] = busy[fires[d].h]
      BY <1>3, <1>4, <1>5 DEF TypeOK
    <3>2. next[fires[d].h] \in (Handler \cup {Null}) \ {h}
      BY <1>1, <1>2, <1>5 DEF Nexts
    <3> QED
      BY <1>1, <3>1, <3>2 DEF IInv, FireShape
  <2>2. \A k \in Handler : busy'[k] => k \in Calling'
    BY <1>3, <1>5 DEF IInv, FireShape, TypeOK
  <2> QED
    BY <1>3, <2>1, <2>2 DEF FireShape
<1> QED
  BY <1>6, <1>7, <1>8, <1>9 DEF IInv

-----------------------------------------------------------------------------
LEMMA RemoveLinks ==
    ASSUME IInv, NEW h \in Handler, RemoveHandler(h)
    PROVE  /\ next' \in Nexts /\ h \in Linked /\ Linked' = Linked \ {h}
           /\ \A k \in Linked : /\ next'[k] \in Linked' \cup {Null}
                                /\ Reachable(next', next'[k]) = Reachable(next, next[k]) \ {h}
           /\ \A k \in Handler \ Linked : next'[k] = next[k]
           /\ \A k \in Handler : next'[k] \in {next[k], next[h]}
           /\ \A k \in Handler : k \notin Reachable(next', next'[k])
<1>1. /\ next \in Nexts /\ handlers \in Handler \cup {Null}
      /\ handlers \in Linked \cup {Null} /\ Linked \in SUBSET Handler
      /\ \A k \in Linked : next[k] \in Linked \cup {Null}
      /\ \A k \in Handler : next[k] # k
      /\ handlers = Null => Linked = {}
  BY ListFacts
<1>2. /\ h \in Linked
      /\ handlers' = IF h = handlers THEN next[h] ELSE handlers
      /\ next' = [p \in Handler |-> IF p \in Linked /\ next[p] = h THEN next[h] ELSE next[p]]
  BY DEF RemoveHandler
<1>3. /\ next' \in Nexts
      /\ \A p \in Linked : next'[p] = IF next[p] = h THEN next[h] ELSE next[p]
      /\ \A p \in Handler \ Linked : next'[p] = next[p]
      /\ \A k \in Handler : next'[k] \in {next[k], next[h]}
  BY <1>1, <1>2 DEF Nexts
<1>4. h \notin Reachable(next, next[h]) /\ h # Null
  BY EventAssumption DEF IInv, ListShape
<1>5. ASSUME NEW k \in (Linked \cup {Null}) \ {h}
      PROVE  Reachable(next', k) = Reachable(next, k) \ {h}
  <2>1. Reachable(next, k) \subseteq Linked
    BY <1>1, ReachableWithin DEF Linked
  <2>2. Unlinked(next, next', h, k)
    BY <1>3, <2>1 DEF Unlinked
  <2> QED
    BY <1>1, <1>3, <1>4, <2>2, ReachableUnlinked
<1>6. Linked' = Linked \ {h}
  <2>1. CASE h = handlers
    <3>1. Linked' = Reachable(next', next[h]) /\ next[h] \in (Linked \cup {Null}) \ {h}
      BY <1>1, <1>2, <2>1, <1>4 DEF Linked
    <3>2. Linked = {h} \cup Reachable(next, next[h])
      BY <1>1, <2>1, ReachableStep DEF Linked
    <3> QED
      BY <1>5, <3>1, <3>2
  <2>2. CASE h # handlers
    <3>1. Linked' = Reachable(next', handlers) /\ handlers \in (Linked \cup {Null}) \ {h}
      BY <1>1, <1>2, <2>2 DEF Linked
    <3> QED
      BY <1>5, <3>1 DEF Linked
  <2> QED
    BY <2>1, <2>2
<1>7. ASSUME NEW k \in Linked
      PROVE  /\ next'[k] \in Linked' \cup {Null}
             /\ Reachable(next', next'[k]) = Reachable(next, next[k]) \ {h}
  <2>1. CASE next[k] = h
    <3>1. next'[k] = next[h] /\ next[h] \in (Linked \cup {Null}) \ {h}
      BY <1>1, <1>2, <1>3, <2>1
    <3>2. Reachable(next, h) = {h} \cup Reachable(next, next[h])
      BY <1>1, ReachableStep
    <3>3. Reachable(next', next[h]) = Reachable(next, next[h]) \ {h}
      BY <1>5, <3>1
    <3> QED
      BY <1>6, <2>1, <3>1, <3>2, <3>3
  <2>2. CASE next[k] # h
    <3>1. next'[k] = next[k] /\ next[k] \in (Linked \cup {Null}) \ {h}
      BY <1>1, <1>3, <2>2
    <3> QED
      BY <1>5, <1>6, <3>1
  <2> QED
    BY <2>1, <2>2
<1>8. ASSUME NEW k \in Handler PROVE k \notin Reachable(next', next'[k])
  <2> DEFINE R == Reachable(next, next[k])
  <2>1. /\ R \in SUBSET Handler /\ next[k] \in R \cup {Null} /\ Closed(next, R)
        /\ k \notin R
    BY <1>1, ReachableClosed DEF Nexts, IInv, ListShape
  <2>2. Closed(next', R)
    <3>1. ASSUME NEW p \in R, next[p] = h PROVE next[h] \in R \cup {Null}
      BY <1>4, <2>1, <3>1 DEF Closed
    <3> QED
      BY <1>2, <2>1, <3>1 DEF Closed
  <2>3. next'[k] \in R \cup {Null}
    <3>1. CASE next[k] = h
      BY <1>2, <1>4, <2>1, <3>1 DEF Closed
    <3>2. CASE next[k] # h
      BY <1>2, <2>1, <3>2
    <3> QED
      BY <3>1, <3>2
  <2>4. Reachable(next', next'[k]) \subseteq R
    BY <1>3, <2>1, <2>2, <2>3, ReachableLeast
  <2> QED
    BY <2>1, <2>4
<1> QED
  BY <1>2, <1>3, <1>6, <1>7, <1>8

LEMMA RemoveFrames ==
    ASSUME IInv, NEW h \in Handler, RemoveHandler(h)
    PROVE  /\ fires' \in Seq([h : Handler, due : SUBSET Handler]) /\ Len(fires') = Len(fires)
           /\ DOMAIN fires' = DOMAIN fires
           /\ \A d \in DOMAIN fires : /\ fires'[d].h = fires[d].h
                                      /\ fires'[d].due = fires[d].due \ {h}
<1> DEFINE Frame == [h : Handler, due : SUBSET Handler]
           F(d) == [fires[d] EXCEPT !.due = @ \ {h}]
<1>1. /\ DOMAIN fires = 1 .. Len(fires) /\ Len(fires) \in Nat
      /\ \A d \in 1 .. Len(fires) : fires[d] \in Frame
  BY Callers
<1>2. \A d \in 1 .. Len(fires) : /\ F(d) \in Frame /\ F(d).h = fires[d].h
                                 /\ F(d).due = fires[d].due \ {h}
  BY <1>1
<1>3. fires' = [d \in 1 .. Len(fires) |-> F(d)]
  BY <1>1 DEF RemoveHandler, NotDue
<1> HIDE DEF F, Frame
<1>4. fires' \in Seq(Frame) /\ Len(fires') = Len(fires)
  BY <1>1, <1>2, <1>3
<1> QED
  BY <1>1, <1>2, <1>3, <1>4 DEF Frame

LEMMA RemoveStep ==
    ASSUME IInv, NEW h \in Handler, RemoveHandler(h)
    PROVE  IInv'
<1>1. /\ next' \in Nexts /\ h \in Linked /\ Linked' = Linked \ {h}
      /\ \A k \in Linked : /\ next'[k] \in Linked' \cup {Null}
                           /\ Reachable(next', next'[k]) = Reachable(next, next[k]) \ {h}
      /\ \A k \in Handler : next'[k] \in {next[k], next[h]}
      /\ \A k \in Handler : k \notin Reachable(next', next'[k])
  BY RemoveLinks
<1>2. /\ next \in Nexts /\ handlers \in Handler \cup {Null}
      /\ Linked \in SUBSET Handler
      /\ \A k \in Linked : life[k] = "live" /\ ~removed[k]
  BY ListFacts
<1>3. /\ \/ ~busy[h] /\ life' = [life EXCEPT ![h] = "deleted"] /\ removed' = removed
         \/ busy[h] /\ removed' = [removed EXCEPT ![h] = TRUE] /\ life' = life
      /\ fires' = NotDue({h}) /\ UNCHANGED <<busy, fired>> /\ TypeOK
      /\ Len(fires) <= 1 /\ \A k \in Calling : k \in Linked /\ busy[k]
      /\ handlers' = IF h = handlers THEN next[h] ELSE handlers
  BY DEF RemoveHandler, MayRemove, IInv
<1>4. /\ DOMAIN fires = 1 .. Len(fires) /\ Len(fires) \in Nat
      /\ \A d \in DOMAIN fires : fires[d].h \in Handler /\ fires[d].due \in SUBSET Handler
  BY Callers
<1>5. /\ fires' \in Seq([h : Handler, due : SUBSET Handler]) /\ Len(fires') = Len(fires)
      /\ DOMAIN fires' = DOMAIN fires
      /\ \A d \in DOMAIN fires : /\ fires'[d].h = fires[d].h
                                 /\ fires'[d].due = fires[d].due \ {h}
  BY RemoveFrames
<1>6. Calling' = Calling
  BY <1>5 DEF Calling
<1>7. TypeOK'
  <2>1. handlers' \in Handler \cup {Null}
    BY <1>2, <1>3 DEF Nexts
  <2>2. life' \in [Handler -> {"new", "live", "deleted"}] /\ removed' \in [Handler -> BOOLEAN]
    BY <1>3 DEF TypeOK
  <2> QED
    BY <1>1, <1>3, <1>5, <2>1, <2>2 DEF TypeOK, Nexts
<1>8. LivesWhileNeeded'
  <2>1. CASE ~busy[h]
    <3>1. h \notin Calling
      BY <1>3, <2>1
    <3> QED
      BY <1>1, <1>2, <1>3, <1>6, <2>1, <3>1 DEF IInv, LivesWhileNeeded, TypeOK
  <2>2. CASE busy[h]
    <3>1. h \in Calling
      BY <2>2 DEF IInv, FireShape
    <3> QED
      BY <1>1, <1>2, <1>3, <1>6, <2>2, <3>1 DEF IInv, LivesWhileNeeded, TypeOK
  <2> QED
    BY <2>1, <2>2
<1>9. ListShape'
  <2>1. \A k \in Handler : removed'[k] => k \notin Linked'
    BY <1>1, <1>3 DEF IInv, ListShape, TypeOK
  <2>2. \A k \in Handler : next'[k] # Null => life'[next'[k]] # "new"
    <3>1. \A k \in Handler : life'[k] = "new" => life[k] = "new"
      BY <1>3 DEF TypeOK
    <3> QED
      BY <1>1, <1>2, <3>1 DEF IInv, ListShape, Nexts
  <2> QED
    BY <1>1, <2>1, <2>2 DEF ListShape
<1>10. FireShape'
  <2>1. ASSUME NEW d \in DOMAIN fires
        PROVE  /\ \/ fires'[d].h \in Linked'
                  \/ d = 1 /\ removed'[fires'[d].h] /\ busy'[fires'[d].h]
               /\ next'[fires'[d].h] \in Linked' \cup {Null}
               /\ fires'[d].due = Reachable(next', next'[fires'[d].h])
    <3>1. d = 1 /\ fires[d].h \in Linked /\ busy[fires[d].h] /\ fires'[d].h = fires[d].h
      <4>1. fires[d].h \in Calling
        BY DEF Calling
      <4>2. d = 1
        BY <1>3, <1>4
      <4> QED
        BY <1>3, <1>5, <4>1, <4>2
    <3>2. fires'[d].due = Reachable(next, next[fires[d].h]) \ {h}
      BY <1>5 DEF IInv, FireShape
    <3>3. fires[d].h \in Linked' \/ removed'[fires[d].h]
      BY <1>1, <1>3, <3>1 DEF TypeOK
    <3> QED
      BY <1>1, <1>3, <3>1, <3>2, <3>3
  <2>2. \A k \in Handler : busy'[k] => k \in Calling'
    BY <1>3, <1>6 DEF IInv, FireShape
  <2> QED
    BY <1>5, <2>1, <2>2 DEF FireShape
<1> QED
  BY <1>7, <1>8, <1>9, <1>10 DEF IInv

LEMMA RemoveAllStep ==
    ASSUME IInv, RemoveHandlers
    PROVE  IInv'
<1>1. /\ fires = <<>> /\ handlers' = Null
      /\ life' = [h \in Handler |-> IF h \in Linked THEN "deleted" ELSE life[h]]
      /\ UNCHANGED <<next, busy, removed, fires, fired>> /\ TypeOK
  BY DEF RemoveHandlers, IInv
<1>2. Linked' = {}
  <2>1. next' \in Nexts /\ Linked' = Reachable(next', Null)
    BY <1>1 DEF TypeOK, Nexts, Linked
  <2> QED
    BY <2>1, ReachableNull
<1>3. Calling = {} /\ Calling' = {} /\ DOMAIN fires' = {}
  BY <1>1 DEF Calling
<1>4. TypeOK'
  BY <1>1 DEF TypeOK
<1>5. LivesWhileNeeded'
  BY <1>1, <1>2, <1>3 DEF IInv, LivesWhileNeeded
<1>6. ListShape'
  BY <1>1, <1>2 DEF IInv, ListShape, TypeOK
<1>7. FireShape'
  BY <1>1, <1>3 DEF IInv, FireShape
<1> QED
  BY <1>4, <1>5, <1>6, <1>7 DEF IInv

LEMMA FireStep ==
    ASSUME IInv, Fire
    PROVE  IInv'
<1> DEFINE n == Len(fires)
           new == [h |-> handlers, due |-> Linked \ {handlers}]
<1>1. /\ handlers # Null /\ n < MaxDepth /\ fired < MaxFires
      /\ busy' = [busy EXCEPT ![handlers] = TRUE]
      /\ fires' = Append(fires, new) /\ fired' = fired + 1
      /\ UNCHANGED <<handlers, next, removed, life>> /\ TypeOK
  BY DEF Fire, IInv
<1>2. /\ next \in Nexts /\ handlers \in Linked /\ Linked \in SUBSET Handler
      /\ \A k \in Linked : next[k] \in Linked \cup {Null}
      /\ \A k \in Linked : ~removed[k]
  BY <1>1, ListFacts
<1>3. /\ DOMAIN fires = 1 .. n /\ n \in Nat
      /\ \A d \in DOMAIN fires : fires[d].h \in Handler
  BY Callers
<1>4. /\ fires' \in Seq([h : Handler, due : SUBSET Handler]) /\ Len(fires') = n + 1
      /\ DOMAIN fires' = 1 .. n + 1
      /\ \A d \in 1 .. n : fires'[d] = fires[d]
      /\ fires'[n + 1] = new
  <2> DEFINE Frame == [h : Handler, due : SUBSET Handler]
  <2>1. fires \in Seq(Frame) /\ new \in Frame
    BY <1>1, <1>2 DEF TypeOK
  <2> HIDE DEF Frame, new
  <2>2. /\ Append(fires, new) \in Seq(Frame) /\ Len(Append(fires, new)) = n + 1
        /\ \A d \in 1 .. n : Append(fires, new)[d] = fires[d]
        /\ Append(fires, new)[n + 1] = new
    BY <2>1, AppendProperties
  <2>3. DOMAIN Append(fires, new) = 1 .. n + 1
    BY <2>2, LenProperties
  <2> QED
    BY <1>1, <2>2, <2>3 DEF Frame
<1>5. Linked' = Linked /\ Calling' = Calling \cup {handlers}
  <2>1. Linked' = Linked
    BY <1>1 DEF Linked
  <2>2. Calling' = {fires'[d].h : d \in 1 .. n + 1}
    BY <1>4 DEF Calling
  <2>3. ASSUME NEW d \in 1 .. n + 1 PROVE d \in 1 .. n \/ d = n + 1
    BY <1>3
  <2>4. \A d \in 1 .. n : d \in 1 .. n + 1
    BY <1>3
  <2>5. n + 1 \in 1 .. n + 1
    BY <1>3
  <2>6. fires'[n + 1].h = handlers
    BY <1>4
  <2> QED
    BY <1>3, <1>4, <2>1, <2>2, <2>3, <2>4, <2>5, <2>6 DEF Calling
<1>6. TypeOK'
  <2>1. Len(fires') <= MaxDepth /\ fired' \in 0 .. MaxFires
    BY <1>1, <1>3, <1>4, EventAssumption DEF TypeOK
  <2> QED
    BY <1>1, <1>4, <2>1 DEF TypeOK
<1>7. LivesWhileNeeded'
  BY <1>1, <1>2, <1>5 DEF IInv, LivesWhileNeeded
<1>8. ListShape'
  BY <1>1, <1>5 DEF IInv, ListShape
<1>9. new.due = Reachable(next, next[handlers])
  <2>1. Linked = {handlers} \cup Reachable(next, next[handlers])
    BY <1>2, ReachableStep DEF Linked
  <2>2. handlers \notin Reachable(next, next[handlers])
    BY <1>2 DEF IInv, ListShape
  <2> QED
    BY <2>1, <2>2
<1>10. FireShape'
  <2>1. ASSUME NEW d \in 1 .. n + 1
        PROVE  /\ \/ fires'[d].h \in Linked'
                  \/ d = 1 /\ removed'[fires'[d].h] /\ busy'[fires'[d].h]
               /\ next'[fires'[d].h] \in Linked' \cup {Null}
               /\ fires'[d].due = Reachable(next', next'[fires'[d].h])
    <3>1. CASE d \in 1 .. n
      <4>1. fires'[d] = fires[d] /\ d \in DOMAIN fires
        BY <1>3, <1>4, <3>1
      <4> QED
        BY <1>1, <1>2, <1>3, <1>5, <4>1 DEF IInv, FireShape, TypeOK
    <3>2. CASE d = n + 1
      <4>1. fires'[d].h = handlers /\ fires'[d].due = Reachable(next, next[handlers])
        <5>1. fires'[d] = new
          BY <1>4, <3>2
        <5>2. new.h = handlers
          OBVIOUS
        <5> HIDE DEF new
        <5> QED
          BY <1>9, <5>1, <5>2
      <4> QED
        BY <1>1, <1>2, <1>5, <4>1
    <3> QED
      BY <1>3, <3>1, <3>2
  <2>2. \A k \in Handler : busy'[k] => k \in Calling'
    BY <1>1, <1>5 DEF IInv, FireShape, TypeOK
  <2> QED
    BY <1>4, <2>1, <2>2 DEF FireShape
<1> QED
  BY <1>6, <1>7, <1>8, <1>10 DEF IInv

(* What becomes of the fires when a handler returns.                       *)
LEMMA ReturnFrames ==
    ASSUME IInv, Return, NEW n, n = Len(fires), NEW x, x = fires[n].h
    PROVE  /\ n \in Nat /\ n > 0 /\ x \in Handler
           /\ DOMAIN fires = 1 .. n
           /\ fires' \in Seq([h : Handler, due : SUBSET Handler])
           /\ \/ /\ next[x] = Null /\ DOMAIN fires' = 1 .. n - 1 /\ Len(fires') = n - 1
              \/ /\ next[x] # Null /\ DOMAIN fires' = 1 .. n /\ Len(fires') = n
                 /\ fires'[n].h = next[x] /\ fires'[n].due = fires[n].due \ {next[x]}
           /\ \A d \in 1 .. n - 1 : fires'[d] = fires[d]
<1> DEFINE Frame == [h : Handler, due : SUBSET Handler]
           new == [h |-> next[x], due |-> fires[n].due \ {next[x]}]
<1>1. /\ fires # <<>>
      /\ fires' = IF next[x] = Null THEN SubSeq(fires, 1, n - 1)
                  ELSE [fires EXCEPT ![n] = new]
  BY DEF Return
<1>2. fires \in Seq(Frame) /\ next \in Nexts
  BY DEF IInv, TypeOK, Nexts
<1>3. n \in Nat /\ n > 0 /\ DOMAIN fires = 1 .. n
  BY <1>1, <1>2, EmptySeq, Callers
<1>4. n \in DOMAIN fires
  BY <1>3
<1>5. x \in Handler /\ fires[n].due \in SUBSET Handler
  BY <1>4, Callers
<1>6. next[x] # Null => new \in Frame /\ new.h = next[x] /\ new.due = fires[n].due \ {next[x]}
  BY <1>2, <1>5 DEF Nexts
<1> HIDE DEF Frame, new
<1>7. CASE next[x] = Null
  <2>1. \A d \in 1 .. n - 1 : fires[d] \in Frame
    <3>1. \A d \in 1 .. n - 1 : d \in 1 .. n
      BY <1>3
    <3> QED
      BY <1>2, <3>1, ElementOfSeq
  <2>2. /\ fires' \in Seq(Frame) /\ Len(fires') = n - 1
        /\ \A d \in 1 .. n - 1 : fires'[d] = fires[d]
    <3>1. fires' = SubSeq(fires, 1, n - 1)
      BY <1>1, <1>7
    <3> QED
      BY <1>2, <1>3, <2>1, <3>1
  <2>3. DOMAIN fires' = 1 .. n - 1
    BY <2>2, LenProperties
  <2> QED
    BY <1>3, <1>5, <1>7, <2>2, <2>3 DEF Frame
<1>8. CASE next[x] # Null
  <2>1. fires' = [fires EXCEPT ![n] = new] /\ new \in Frame
    BY <1>1, <1>6, <1>8
  <2>2. /\ fires' \in Seq(Frame) /\ Len(fires') = n /\ DOMAIN fires' = 1 .. n
        /\ fires'[n] = new
        /\ \A d \in 1 .. n - 1 : fires'[d] = fires[d]
    BY <1>2, <1>3, <2>1
  <2> QED
    BY <1>3, <1>5, <1>6, <1>8, <2>2 DEF Frame
<1> QED
  BY <1>7, <1>8

LEMMA ReturnStep ==
    ASSUME IInv, Return
    PROVE  IInv'
<1> DEFINE n == Len(fires)
           x == fires[n].h
<1>1. /\ n \in Nat /\ n > 0 /\ x \in Handler
      /\ DOMAIN fires = 1 .. n
      /\ fires' \in Seq([h : Handler, due : SUBSET Handler])
      /\ \/ /\ next[x] = Null /\ DOMAIN fires' = 1 .. n - 1 /\ Len(fires') = n - 1
         \/ /\ next[x] # Null /\ DOMAIN fires' = 1 .. n /\ Len(fires') = n
            /\ fires'[n].h = next[x] /\ fires'[n].due = fires[n].due \ {next[x]}
      /\ \A d \in 1 .. n - 1 : fires'[d] = fires[d]
  BY ReturnFrames
<1>2. /\ busy' = [h \in Handler |-> (busy[h] /\ h # x) \/ h = next[x]]
      /\ life' = IF removed[x] THEN [life EXCEPT ![x] = "deleted"] ELSE life
      /\ UNCHANGED <<handlers, next, removed, fired>> /\ TypeOK
  BY DEF Return, IInv
<1>3. /\ next \in Nexts /\ Linked \in SUBSET Handler
      /\ \A k \in Linked : next[k] \in Linked \cup {Null}
      /\ \A k \in Linked : life[k] = "live" /\ ~removed[k]
      /\ next[x] # x
  BY <1>1, ListFacts
<1> HIDE DEF n
<1>4. n \in DOMAIN fires
  BY <1>1
<1>5. /\ x \in Linked \/ (n = 1 /\ removed[x] /\ busy[x])
      /\ next[x] \in Linked \cup {Null} /\ fires[n].due = Reachable(next, next[x])
  BY <1>4 DEF IInv, FireShape
<1> HIDE DEF x
<1>6. Linked' = Linked
  BY <1>2 DEF Linked
<1>7. \A d \in 1 .. n : d \in 1 .. n - 1 \/ d = n
  BY <1>1
<1>8. \A d \in 1 .. n - 1 : d \in DOMAIN fires /\ d \in DOMAIN fires' /\ d # n
  BY <1>1
<1>9. \A k \in Calling' : \/ k = next[x] /\ k \in Linked
                          \/ \E d \in 1 .. n - 1 : k = fires[d].h
  <2>1. ASSUME NEW d \in DOMAIN fires'
        PROVE  \/ fires'[d].h = next[x] /\ next[x] \in Linked
               \/ \E e \in 1 .. n - 1 : fires'[d].h = fires[e].h
    <3>1. CASE d \in 1 .. n - 1
      BY <1>1, <3>1
    <3>2. CASE d \notin 1 .. n - 1
      <4>1. next[x] # Null /\ d = n
        BY <1>1, <1>7, <3>2
      <4> QED
        BY <1>1, <1>5, <4>1
    <3> QED
      BY <3>1, <3>2
  <2> QED
    BY <2>1 DEF Calling
<1>10. \A k \in Calling : k = x \/ \E d \in 1 .. n - 1 : k = fires[d].h
  BY <1>1, <1>7 DEF Calling, x
<1>11. \A d \in 1 .. n - 1 : fires[d].h \in Calling /\ fires[d].h \in Calling'
  <2> SUFFICES ASSUME NEW d \in 1 .. n - 1
               PROVE  fires[d].h \in Calling /\ fires[d].h \in Calling'
    OBVIOUS
  <2>1. fires[d].h \in Calling /\ fires'[d].h \in Calling'
    BY <1>8 DEF Calling
  <2> QED
    BY <1>1, <2>1
<1>12. next[x] # Null => next[x] \in Calling'
  <2>1. ASSUME next[x] # Null PROVE next[x] \in Calling'
    <3>1. n \in DOMAIN fires' /\ fires'[n].h = next[x]
      BY <1>1, <2>1
    <3> QED
      BY <3>1 DEF Calling
  <2> QED
    BY <2>1
<1>13. removed[x] => n = 1 /\ 1 .. n - 1 = {}
  BY <1>1, <1>3, <1>5
<1>14. TypeOK'
  <2>1. Len(fires') <= MaxDepth
    <3>1. n <= MaxDepth /\ MaxDepth \in Nat
      BY <1>2, EventAssumption DEF TypeOK, n
    <3>2. Len(fires') = n - 1 \/ Len(fires') = n
      BY <1>1
    <3> QED
      BY <1>1, <3>1, <3>2
  <2>2. life' \in [Handler -> {"new", "live", "deleted"}]
    BY <1>1, <1>2 DEF TypeOK
  <2> QED
    BY <1>1, <1>2, <2>1, <2>2 DEF TypeOK
<1>15. LivesWhileNeeded'
  <2>1. CASE removed[x]
    <3>1. x \notin Linked /\ x \notin Calling'
      BY <1>3, <1>9, <1>13, <2>1
    <3>2. \A k \in Calling : k = x
      BY <1>10, <1>13, <2>1
    <3>3. \A k \in Calling' : ~removed[k]
      BY <1>3, <1>9, <1>13, <2>1
    <3> QED
      BY <1>1, <1>2, <1>6, <2>1, <3>1, <3>2, <3>3 DEF IInv, LivesWhileNeeded, TypeOK
  <2>2. CASE ~removed[x]
    <3>1. \A k \in Handler : removed[k] /\ k \in Calling <=> removed[k] /\ k \in Calling'
      BY <1>3, <1>9, <1>10, <1>11, <2>2
    <3> QED
      BY <1>2, <1>6, <2>2, <3>1 DEF IInv, LivesWhileNeeded
  <2> QED
    BY <2>1, <2>2
<1>16. ListShape'
  <2>1. \A k \in Handler : life'[k] = "new" => life[k] = "new"
    BY <1>2 DEF TypeOK
  <2> QED
    BY <1>2, <1>3, <1>6, <2>1 DEF IInv, ListShape, Nexts
<1>17. FireShape'
  <2>1. ASSUME NEW d \in DOMAIN fires'
        PROVE  /\ \/ fires'[d].h \in Linked'
                  \/ d = 1 /\ removed'[fires'[d].h] /\ busy'[fires'[d].h]
               /\ next'[fires'[d].h] \in Linked' \cup {Null}
               /\ fires'[d].due = Reachable(next', next'[fires'[d].h])
    <3>1. CASE d \in 1 .. n - 1
      <4>1. fires'[d] = fires[d] /\ d \in DOMAIN fires /\ d # n
        BY <1>1, <1>8, <3>1
      <4>2. d = 1 => x \in Linked
        BY <1>5, <4>1
      <4>3. /\ \/ fires[d].h \in Linked
               \/ d = 1 /\ removed[fires[d].h] /\ busy[fires[d].h]
            /\ next[fires[d].h] \in Linked \cup {Null}
            /\ fires[d].due = Reachable(next, next[fires[d].h])
            /\ fires[d].h \in Handler
        BY <4>1, Callers DEF IInv, FireShape
      <4>4. d = 1 /\ removed[fires[d].h] /\ busy[fires[d].h] => busy'[fires[d].h]
        BY <1>2, <1>3, <4>2, <4>3
      <4> QED
        BY <1>2, <1>6, <4>1, <4>3, <4>4
    <3>2. CASE d \notin 1 .. n - 1
      <4>1. next[x] # Null /\ d = n
        BY <1>1, <1>7, <3>2
      <4>2. /\ fires'[d].h = next[x] /\ next[x] \in Linked
            /\ fires'[d].due = Reachable(next, next[x]) \ {next[x]}
        BY <1>1, <1>5, <4>1
      <4>3. Reachable(next, next[x]) = {next[x]} \cup Reachable(next, next[next[x]])
        BY <1>3, <4>2, ReachableStep
      <4>4. next[x] \notin Reachable(next, next[next[x]])
        BY <1>3, <4>2 DEF IInv, ListShape
      <4>5. fires'[d].due = Reachable(next, next[next[x]])
        BY <4>2, <4>3, <4>4
      <4> QED
        BY <1>2, <1>3, <1>6, <4>2, <4>5
    <3> QED
      BY <3>1, <3>2
  <2>2. ASSUME NEW k \in Handler, busy'[k] PROVE k \in Calling'
    <3>1. CASE k = next[x]
      BY <1>12, <3>1, EventAssumption
    <3>2. CASE busy[k] /\ k # x
      <4>1. k \in Calling
        BY <3>2 DEF IInv, FireShape
      <4> QED
        BY <1>10, <1>11, <3>2, <4>1
    <3> QED
      BY <1>2, <2>2, <3>1, <3>2
  <2> QED
    BY <2>1, <2>2 DEF FireShape
<1> QED
  BY <1>14, <1>15, <1>16, <1>17 DEF IInv

-----------------------------------------------------------------------------
LEMMA Inductive == IInv /\ [Next]_vars => IInv'
<1> SUFFICES ASSUME IInv, [Next]_vars PROVE IInv'
  OBVIOUS
<1>1. CASE UNCHANGED vars
  BY <1>1 DEF vars, IInv, TypeOK, LivesWhileNeeded, ListShape, FireShape, Linked, Calling
<1> QED
  BY <1>1, AddStep, RemoveStep, RemoveAllStep, FireStep, ReturnStep DEF Next

LEMMA Invariance == Spec => []IInv
BY InitIInv, Inductive, PTL DEF Spec

(* No handler is deleted while its function is being called, and fire()    *)
(* never goes on to one that is, for any number of handlers and of fires,  *)
(* nested as deep as they may be, if handlers are removed as MayRemove      *)
(* says.                                                                   *)
THEOREM CalledSafety == Spec => []CalledAlive
<1>1. IInv => CalledAlive
  BY Callers DEF IInv, CalledAlive
<1> QED
  BY <1>1, Invariance, PTL

(* A handler lives exactly as long as the list, or after its removal the   *)
(* fire that is calling it, needs it, if handlers are removed as MayRemove  *)
(* says.                                                                   *)
THEOREM LifeSafety == Spec => []LivesWhileNeeded
BY Invariance, PTL DEF IInv

(* A fire calls the handlers that were in the list when it began and were  *)
(* not removed before their turn, each once, and goes on until none is due,*)
(* if handlers are removed as MayRemove says.                              *)
THEOREM VisitSafety == Spec => FireVisits
<1> DEFINE Visits == LET d == Len(fires) IN
                     /\ Len(fires') < d => fires[d].due = {}
                     /\ Len(fires') = d /\ d > 0 /\ fires'[d].h # fires[d].h
                          => fires'[d].h \in fires[d].due
<1>1. ASSUME IInv, Next PROVE Visits
  <2>1. CASE UNCHANGED fires
    BY <2>1, Callers, <1>1
  <2>2. ASSUME NEW h \in Handler, RemoveHandler(h) PROVE Visits
    <3>1. /\ Len(fires') = Len(fires)
          /\ \A d \in DOMAIN fires : fires'[d].h = fires[d].h
      BY <1>1, <2>2, RemoveFrames
    <3>2. Len(fires) \in Nat /\ (Len(fires) > 0 => Len(fires) \in DOMAIN fires)
      BY <1>1, Callers
    <3> QED
      BY <3>1, <3>2
  <2>3. CASE Fire
    <3>1. Len(fires') = Len(fires) + 1 /\ Len(fires) \in Nat
      <4>1. Len(fires') = Len(fires) + 1
        BY <1>1, <2>3, FireStep DEF Fire, IInv, TypeOK
      <4> QED
        BY <1>1, <4>1, Callers
    <3> QED
      BY <3>1
  <2>4. CASE Return
    <3> DEFINE n == Len(fires)
               x == fires[n].h
    <3>1. /\ n \in Nat /\ n > 0 /\ x \in Handler /\ DOMAIN fires = 1 .. n
          /\ \/ next[x] = Null /\ Len(fires') = n - 1
             \/ next[x] # Null /\ Len(fires') = n /\ fires'[n].h = next[x]
      BY <1>1, <2>4, ReturnFrames
    <3>2. next \in Nexts
      BY <1>1, ListFacts
    <3> HIDE DEF n
    <3>3. fires[n].due = Reachable(next, next[x])
      <4>1. n \in DOMAIN fires
        BY <3>1
      <4> QED
        BY <1>1, <4>1 DEF IInv, FireShape
    <3> HIDE DEF x
    <3>4. CASE next[x] = Null
      <4>1. fires[n].due = {}
        BY <3>2, <3>3, <3>4, ReachableNull
      <4> QED
        BY <3>1, <3>4, <4>1 DEF n
    <3>5. CASE next[x] # Null
      <4>1. next[x] \in fires[n].due
        BY <3>1, <3>2, <3>3, <3>5, ReachableClosed DEF Nexts
      <4>2. Len(fires') = n /\ fires'[n].h = next[x]
        BY <3>1, <3>5
      <4>3. ~(n < n)
        BY <3>1
      <4> QED
        BY <4>1, <4>2, <4>3 DEF n
    <3> QED
      BY <3>4, <3>5
  <2> QED
    BY <1>1, <2>1, <2>2, <2>3, <2>4 DEF Next, AddHandler, RemoveHandlers
<1>2. IInv /\ [Next]_vars => [Visits]_vars
  BY <1>1
<1> QED
  BY <1>2, Invariance, PTL DEF Spec, FireVisits
=============================================================================
