------------------------------ MODULE EventProps ------------------------------
(***************************************************************************)
(* What an event promises to those who add, remove and fire its handlers.  *)
(***************************************************************************)
EXTENDS Event

(* Types of the list, of the handlers and of the fires in progress.        *)
TypeOK ==
    /\ handlers \in Handler \cup {Null}
    /\ next \in [Handler -> Handler \cup {Null}]
    /\ busy \in [Handler -> BOOLEAN] /\ removed \in [Handler -> BOOLEAN]
    /\ life \in [Handler -> {"new", "live", "deleted"}]
    /\ fires \in Seq([h : Handler, due : SUBSET Handler])
    /\ Len(fires) <= MaxDepth /\ fired \in 0 .. MaxFires

(* No handler is deleted while its function is being called, and fire()    *)
(* never goes on to one that is deleted (busy, removed and the successor   *)
(* read after the call); every field keeps its type.                       *)
CalledAlive == TypeOK /\ \A h \in Calling : life[h] = "live"

(* A handler lives exactly as long as it is in the list, and after it was  *)
(* removed as long as it is being called: none is leaked, and none that is *)
(* deleted can be reached from the list.                                   *)
LivesWhileNeeded ==
    \A h \in Handler :
        life[h] = "live" <=> h \in Linked \/ (removed[h] /\ h \in Calling)

(* A fire calls every handler that was in the list when it began and was   *)
(* not removed before its turn, once each, and none that was added later.  *)
FireVisits ==
    [][LET d == Len(fires) IN
       /\ Len(fires') < d => fires[d].due = {}
       /\ Len(fires') = d /\ d > 0 /\ fires'[d].h # fires[d].h
            => fires'[d].h \in fires[d].due]_vars

(* "busy is true whenever the handler function is being called"            *)
(* (event.h:65).                                                           *)
BusyWhileCalled == \A h \in Calling : busy[h]

=============================================================================
