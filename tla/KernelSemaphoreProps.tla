------------------------- MODULE KernelSemaphoreProps -------------------------
(* What a kernel semaphore promises under suspension, alerts and aborts.         *)
EXTENDS KernelSemaphore

(* Each unit is free, counted for one process, or lost, and each queue holds     *)
(* exactly the processes that wait, which its count says: an aborted wait must    *)
(* give back its place in both.  The counts are too high by what aborts outside   *)
(* of the lock have added, and without these nobody waits while a unit is free.   *)
UnitsAccounted ==
  LET waits(s) == {p \in Procs : status[p] = "PWAIT" /\ resource[p] = s}
  IN  /\ \A s \in Semaphores :
           /\ ToSet(waiting[s]) = waits(s)
           /\ Len(waiting[s]) = Cardinality(waits(s))
           /\ phantom[s] = 0 /\ waiting[s] # <<>> => count[s] = -Len(waiting[s])
      /\ count["resource"] = Units - Cardinality({p \in Procs : granted[p]}) - lost
                               - Len(waiting["resource"]) + phantom["resource"]

(* down() tells an aborted wait from a finished one by the flag alertable only,  *)
(* which abortProcess() and the wait for SuspendEvent change as well: still no     *)
(* process goes on with a unit it has not got, and one that has got its unit is   *)
(* told otherwise only if it was suspended inside of its wait.                    *)
ToldRight ==
  [][\A p \in Procs : calls[p] # {} /\ calls'[p] = {} =>
       /\ holds'[p] => granted[p]
       /\ granted[p] /\ ~holds'[p] => resource[p] = "SuspendEvent"]_vars

ProcsAlike == Permutations(Procs)
=============================================================================
