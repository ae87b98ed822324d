------------------------------ MODULE Executor ------------------------------
(***************************************************************************)
(* What a client of the thread pool relies on: one queue of handlers,      *)
(* started in the order they were accepted, each at most once; once the    *)
(* executor is closed nothing more is accepted but stop handlers.          *)
(***************************************************************************)
EXTENDS Sequences, Naturals

CONSTANTS Jobs, Stop

VARIABLES closed, queue, fresh, running, done, flushed

evars == <<closed, queue, fresh, running, done, flushed>>

Init == /\ closed = FALSE
        /\ queue = <<>>
        /\ fresh = Jobs
        /\ running = {} /\ done = {} /\ flushed = {}

Accept(j) == /\ ~closed /\ j \in fresh
             /\ fresh' = fresh \ {j}
             /\ queue' = Append(queue, j)
             /\ UNCHANGED <<closed, running, done, flushed>>

Refuse(j) == /\ closed /\ j \in fresh
             /\ fresh' = fresh \ {j}
             /\ UNCHANGED <<closed, queue, running, done, flushed>>

(* A stop handler that has started never ends.                             *)
Start == /\ queue # <<>>
         /\ queue' = Tail(queue)
         /\ running' = running \cup ({Head(queue)} \ {Stop})
         /\ UNCHANGED <<closed, fresh, done, flushed>>

End(j) == /\ j \in running
          /\ running' = running \ {j}
          /\ done' = done \cup {j}
          /\ UNCHANGED <<closed, queue, fresh, flushed>>

Flush == /\ ~closed
         /\ queue' = <<>>
         /\ flushed' = flushed \cup {queue[i] : i \in 1 .. Len(queue)}
         /\ closed' \in BOOLEAN
         /\ UNCHANGED <<fresh, running, done>>

AddStop == /\ closed
           /\ queue' = Append(queue, Stop)
           /\ UNCHANGED <<closed, fresh, running, done, flushed>>

Next == \/ \E j \in Jobs : Accept(j) \/ Refuse(j) \/ End(j)
        \/ Start \/ Flush \/ AddStop

Spec == Init /\ [][Next]_evars

=============================================================================
