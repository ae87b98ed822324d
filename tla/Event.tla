-------------------------------- MODULE Event --------------------------------
(***************************************************************************)
(* Event and BaseEvent_ of runtime/common/event.h: a linked list of        *)
(* handlers, whose functions fire() calls one after the other.  A handler  *)
(* may add and remove handlers, itself included, and fire the event again, *)
(* while its function is being called.                                     *)
(***************************************************************************)
EXTENDS Integers, Sequences

CONSTANTS
    Handler,    \* the handlers there will ever be
    Null,
    MaxDepth,   \* bound: fires that are in progress at once
    MaxFires    \* bound: fires altogether

ASSUME EventAssumption ==
    /\ Null \notin Handler
    /\ MaxDepth \in Nat /\ MaxFires \in Nat

VARIABLES
    handlers,   \* the head of the list, or Null
    next,       \* BaseHandler_.next
    busy,       \* BaseHandler_.busy
    removed,    \* BaseHandler_.removed
    life,       \* "new", then "live" from append() on, "deleted" in the end
    fires,      \* the fire()s in progress, the innermost last: the handler h
                \* being called, and (history) the handlers due to be called
    fired       \* how many fires there were

vars == <<handlers, next, busy, removed, life, fires, fired>>

Calling == {fires[d].h : d \in DOMAIN fires}

(* The handlers that a walk along f from h comes to: the least set that    *)
(* holds h, unless it is Null, and the successor of each of its members.   *)
Reachable(f, h) ==
    {k \in Handler :
        \A S \in SUBSET Handler :
            /\ h \in S \cup {Null}
            /\ \A p \in S : f[p] \in S \cup {Null}
            => k \in S}

Linked == Reachable(next, handlers)

(* What the caller of the event must not do: a handler that has removed    *)
(* itself, or has fired the event again, so that its busy may be lost,     *)
(* removes none before it returns; and none is removed in a nested fire.   *)
MayRemove ==
    /\ Len(fires) <= 1
    /\ \A h \in Calling : h \in Linked /\ busy[h]

-----------------------------------------------------------------------------
(* Defect: the handler is put at the end of the list.                      *)
AddLast(h) ==
    /\ life[h] = "new"
    /\ life' = [life EXCEPT ![h] = "live"]
    /\ busy' = [busy EXCEPT ![h] = FALSE]
    /\ removed' = [removed EXCEPT ![h] = FALSE]
    /\ next' = [p \in Handler |-> IF p \in Linked /\ next[p] = Null THEN h ELSE next[p]]
    /\ handlers' = IF handlers = Null THEN h ELSE handlers
    /\ UNCHANGED <<fires, fired>>

(* addHandler() and append(): the handler is put at the head of the list.  *)
AddHandler(h) ==
    /\ life[h] = "new"
    /\ life' = [life EXCEPT ![h] = "live"]
    /\ busy' = [busy EXCEPT ![h] = FALSE]
    /\ removed' = [removed EXCEPT ![h] = FALSE]
    /\ next' = [next EXCEPT ![h] = handlers]
    /\ handlers' = h
    /\ UNCHANGED <<fires, fired>>

NotDue(gone) ==
    [d \in DOMAIN fires |-> [fires[d] EXCEPT !.due = @ \ gone]]

(* Defect: the handler is deleted even while it is being called.           *)
RemoveBusy(h) ==
    /\ MayRemove /\ h \in Linked
    /\ handlers' = IF h = handlers THEN next[h] ELSE handlers
    /\ next' = [p \in Handler |-> IF p \in Linked /\ next[p] = h THEN next[h] ELSE next[p]]
    /\ life' = [life EXCEPT ![h] = "deleted"]
    /\ fires' = NotDue({h})
    /\ UNCHANGED <<busy, removed, fired>>

(* removeHandler(): it does nothing when h is not in the list.             *)
RemoveHandler(h) ==
    /\ MayRemove /\ h \in Linked
    /\ handlers' = IF h = handlers THEN next[h] ELSE handlers
    /\ next' = [p \in Handler |-> IF p \in Linked /\ next[p] = h THEN next[h] ELSE next[p]]
    /\ \/ ~busy[h] /\ life' = [life EXCEPT ![h] = "deleted"] /\ removed' = removed
       \/ busy[h] /\ removed' = [removed EXCEPT ![h] = TRUE] /\ life' = life
    /\ fires' = NotDue({h})
    /\ UNCHANGED <<busy, fired>>

(* removeHandlers(), and the destructor *)
RemoveHandlers ==
    /\ fires = <<>> /\ handlers # Null
    /\ handlers' = Null
    /\ life' = [h \in Handler |-> IF h \in Linked THEN "deleted" ELSE life[h]]
    /\ UNCHANGED <<next, busy, removed, fires, fired>>

(* fire() begins: the first handler is called.                             *)
Fire ==
    /\ handlers # Null
    /\ Len(fires) < MaxDepth /\ fired < MaxFires
    /\ busy' = [busy EXCEPT ![handlers] = TRUE]
    /\ fires' = Append(fires, [h |-> handlers, due |-> Linked \ {handlers}])
    /\ fired' = fired + 1
    /\ UNCHANGED <<handlers, next, removed, life>>

(* Defect: a handler that was removed is not deleted.                      *)
ReturnKeepsRemoved ==
    /\ fires # <<>>
    /\ LET f == fires[Len(fires)]
           hNext == next[f.h]
       IN  /\ busy' = [h \in Handler |-> (busy[h] /\ h # f.h) \/ h = hNext]
           /\ fires' = IF hNext = Null THEN SubSeq(fires, 1, Len(fires) - 1)
                       ELSE [fires EXCEPT ![Len(fires)] =
                               [h |-> hNext, due |-> @.due \ {hNext}]]
    /\ UNCHANGED <<handlers, next, removed, life, fired>>

(* The handler returns: it is deleted if it was removed, and the successor *)
(* it has by now is called.                                                *)
Return ==
    /\ fires # <<>>
    /\ LET f == fires[Len(fires)]
           hNext == next[f.h]
       IN  /\ busy' = [h \in Handler |-> (busy[h] /\ h # f.h) \/ h = hNext]
           /\ life' = IF removed[f.h] THEN [life EXCEPT ![f.h] = "deleted"] ELSE life
           /\ fires' = IF hNext = Null THEN SubSeq(fires, 1, Len(fires) - 1)
                       ELSE [fires EXCEPT ![Len(fires)] =
                               [h |-> hNext, due |-> @.due \ {hNext}]]
    /\ UNCHANGED <<handlers, next, removed, fired>>

-----------------------------------------------------------------------------
Init ==
    /\ handlers = Null
    /\ next = [h \in Handler |-> Null]
    /\ busy = [h \in Handler |-> FALSE]
    /\ removed = [h \in Handler |-> FALSE]
    /\ life = [h \in Handler |-> "new"]
    /\ fires = <<>> /\ fired = 0

Next ==
    \/ \E h \in Handler : AddHandler(h) \/ RemoveHandler(h)
    \/ RemoveHandlers \/ Fire \/ Return

Spec == Init /\ [][Next]_vars

=============================================================================
