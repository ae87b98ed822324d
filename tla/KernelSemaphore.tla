--------------------------- MODULE KernelSemaphore ---------------------------
(* Processes of the first Parasol system's kernel and one of its semaphores      *)
(* (PROCESS.P), which hands out Units of a resource, while others suspend,        *)
(* resume, alert and abort them.  A process whose arena is suspended is here      *)
(* suspended itself; a latched arena is left out.  There is one processor, and a  *)
(* locked section is one step.  The order of the run queue is left open, so any   *)
(* runnable process may be the next that continues.                               *)
EXTENDS Integers, SequencesExt

CONSTANTS
  Procs,    \* the processes
  Units,    \* the count the semaphore is initialized with
  MaxKills  \* bound: processes killChild() is called for

ASSUME KernelAssumption == IsFiniteSet(Procs) /\ Units \in Nat

Semaphores == {"resource", "SuspendEvent"}

VARIABLES
  count,      \* count of each semaphore
  waiting,    \* its queue
  status,     \* "PRUN", "PWAIT", or "gone" when the process has left for exit()
  alertable,  \* alertable of each process
  resource,   \* the semaphore it waits for, or waited for last
  suspended,  \* suspended
  aborted,    \* aborted
  switching,  \* the process is inside of processSwitch(), before the tests at its end
  calls,      \* the argument of the down() it is in, as a set that may be empty
  holds,      \* the process has been told that it has a unit
  granted,    \* a unit was counted for the process
  lost,       \* units counted for a process whose down() said that it has none
  killer,     \* killChild() of the process: "none", "tested" its status, "marked" it or "done"
  phantom     \* what each semaphore was given when a process was aborted that waited no more

vars == <<count, waiting, status, alertable, resource, suspended, aborted, switching,
          calls, holds, granted, lost, killer, phantom>>

Init ==
  /\ count = [s \in Semaphores |-> IF s = "resource" THEN Units ELSE 0]
  /\ waiting = [s \in Semaphores |-> <<>>]
  /\ status = [p \in Procs |-> "PRUN"]
  /\ alertable = [p \in Procs |-> FALSE]
  /\ resource = [p \in Procs |-> "resource"]
  /\ suspended = [p \in Procs |-> FALSE]
  /\ aborted = [p \in Procs |-> FALSE]
  /\ switching = [p \in Procs |-> FALSE]
  /\ calls = [p \in Procs |-> {}]
  /\ holds = [p \in Procs |-> FALSE]
  /\ granted = [p \in Procs |-> FALSE]
  /\ lost = 0
  /\ killer = [p \in Procs |-> "none"]
  /\ phantom = [s \in Semaphores |-> 0]

NoKill == UNCHANGED <<killer, phantom>>
Executes(p) == status[p] = "PRUN" /\ ~switching[p]

-----------------------------------------------------------------------------
(* startWait() and the rest of a down() that has to wait, up to the switch.    *)
Waits(p, s, a) ==
  /\ alertable' = [alertable EXCEPT ![p] = a]
  /\ resource' = [resource EXCEPT ![p] = s]
  /\ status' = [status EXCEPT ![p] = "PWAIT"]
  /\ count' = [count EXCEPT ![s] = @ - 1]
  /\ waiting' = [waiting EXCEPT ![s] = Append(@, p)]
  /\ switching' = [switching EXCEPT ![p] = TRUE]

Down(p, a) ==
  /\ Executes(p) /\ ~holds[p]
  /\ \/ /\ count["resource"] <= 0
        /\ Waits(p, "resource", a)
        /\ calls' = [calls EXCEPT ![p] = {a}]
        /\ UNCHANGED <<holds, granted>>
     \/ /\ count["resource"] > 0
        /\ count' = [count EXCEPT !["resource"] = @ - 1]
        /\ holds' = [holds EXCEPT ![p] = TRUE]
        /\ granted' = [granted EXCEPT ![p] = TRUE]
        /\ UNCHANGED <<waiting, status, alertable, resource, switching, calls>>
  /\ UNCHANGED <<suspended, aborted, lost>> /\ NoKill

DownNowait(p) ==
  /\ Executes(p) /\ ~holds[p] /\ count["resource"] > 0
  /\ count' = [count EXCEPT !["resource"] = @ - 1]
  /\ holds' = [holds EXCEPT ![p] = TRUE]
  /\ granted' = [granted EXCEPT ![p] = TRUE]
  /\ UNCHANGED <<waiting, status, alertable, resource, suspended, aborted, switching,
                 calls, lost>> /\ NoKill

Up(p) ==
  /\ Executes(p) /\ holds[p]
  /\ holds' = [holds EXCEPT ![p] = FALSE]
  /\ count' = [count EXCEPT !["resource"] = @ + 1]
  /\ \/ /\ count["resource"] < 0
        /\ LET q == Head(waiting["resource"])
           IN  /\ waiting' = [waiting EXCEPT !["resource"] = Tail(@)]
               /\ status' = [status EXCEPT ![q] = "PRUN"]
               /\ granted' = [granted EXCEPT ![p] = FALSE, ![q] = TRUE]
     \/ /\ count["resource"] >= 0
        /\ granted' = [granted EXCEPT ![p] = FALSE]
        /\ UNCHANGED <<waiting, status>>
  /\ UNCHANGED <<alertable, resource, suspended, aborted, switching, calls, lost>>
  /\ NoKill

-----------------------------------------------------------------------------
(* The queue q once p has left it.                                              *)
Extract(q, p) == RemoveAt(q, CHOOSE i \in DOMAIN q : q[i] = p)

(* kernelSemaphore.abort(), whose caller has seen that p can be alerted or has   *)
(* made it so.                                                                   *)

(* Defect: the process counts as waiting although it left the queue.          *)
AbortUncounted(p) ==
  /\ waiting' = [waiting EXCEPT ![resource[p]] = Extract(@, p)]
  /\ alertable' = [alertable EXCEPT ![p] = FALSE]
  /\ status' = [status EXCEPT ![p] = "PRUN"]
  /\ UNCHANGED count

(* Defect: the flag that tells down() of it stays set.                         *)
AbortUnmarked(p) ==
  /\ count' = [count EXCEPT ![resource[p]] = @ + 1]
  /\ waiting' = [waiting EXCEPT ![resource[p]] = Extract(@, p)]
  /\ status' = [status EXCEPT ![p] = "PRUN"]
  /\ UNCHANGED alertable

Abort(p) ==
  /\ count' = [count EXCEPT ![resource[p]] = @ + 1]
  /\ waiting' = [waiting EXCEPT ![resource[p]] = Extract(@, p)]
  /\ alertable' = [alertable EXCEPT ![p] = FALSE]
  /\ status' = [status EXCEPT ![p] = "PRUN"]

StaysPut == UNCHANGED <<count, waiting, alertable, status>>
Elsewhere == UNCHANGED <<resource, switching, calls, holds, granted, lost>> /\ NoKill

Alert(p) ==
  /\ status[p] = "PWAIT" /\ alertable[p]
  /\ Abort(p)
  /\ Elsewhere /\ UNCHANGED <<suspended, aborted>>

(* Despite its comment it wakes at most the first in the queue.                *)
Startle ==
  /\ count["resource"] < 0
  /\ LET p == Head(waiting["resource"]) IN alertable[p] /\ Abort(p)
  /\ Elsewhere /\ UNCHANGED <<suspended, aborted>>

Suspend(p) ==
  /\ status[p] # "gone"
  /\ suspended' = [suspended EXCEPT ![p] = TRUE]
  /\ StaysPut /\ Elsewhere /\ UNCHANGED aborted

Resume(p) ==
  /\ status[p] # "gone"
  /\ suspended' = [suspended EXCEPT ![p] = FALSE]
  /\ IF status[p] = "PWAIT" /\ resource[p] = "SuspendEvent" THEN Abort(p) ELSE StaysPut
  /\ Elsewhere /\ UNCHANGED aborted

(* abortProcess() under the lock of purgeArenaExceptMe().                      *)
PurgeProcess(p) ==
  /\ status[p] # "gone"
  /\ aborted' = [aborted EXCEPT ![p] = TRUE]
  /\ suspended' = [suspended EXCEPT ![p] = FALSE]
  /\ IF status[p] = "PWAIT" THEN Abort(p) ELSE StaysPut
  /\ Elsewhere

(* killChild() calls it without the lock: after the process has been seen to     *)
(* wait it may be given its unit, and after it has been made alertable it may     *)
(* wait again, or be aborted by another.                                          *)
KillTests(p) ==
  /\ status[p] # "gone" /\ killer[p] = "none"
  /\ Cardinality({q \in Procs : killer[q] # "none"}) < MaxKills
  /\ aborted' = [aborted EXCEPT ![p] = TRUE]
  /\ suspended' = [suspended EXCEPT ![p] = FALSE]
  /\ killer' = [killer EXCEPT ![p] = IF status[p] = "PWAIT" THEN "tested" ELSE "done"]
  /\ StaysPut
  /\ UNCHANGED <<resource, switching, calls, holds, granted, lost, phantom>>

KillMarks(p) ==
  /\ killer[p] = "tested"
  /\ killer' = [killer EXCEPT ![p] = "marked"]
  /\ alertable' = [alertable EXCEPT ![p] = TRUE]
  /\ UNCHANGED <<count, waiting, status, resource, suspended, aborted, switching, calls,
                 holds, granted, lost, phantom>>

(* abort() itself looks at the flag only.                                        *)
KillAborts(p) ==
  /\ killer[p] = "marked"
  /\ killer' = [killer EXCEPT ![p] = "done"]
  /\ \/ ~alertable[p] /\ StaysPut /\ UNCHANGED phantom
     \/ alertable[p] /\ status[p] = "PWAIT" /\ Abort(p) /\ UNCHANGED phantom
     \/ /\ alertable[p] /\ status[p] # "PWAIT"
        /\ count' = [count EXCEPT ![resource[p]] = @ + 1]
        /\ phantom' = [phantom EXCEPT ![resource[p]] = @ + 1]
        /\ alertable' = [alertable EXCEPT ![p] = FALSE]
        /\ UNCHANGED <<waiting, status>>
  /\ UNCHANGED <<resource, suspended, aborted, switching, calls, holds, granted, lost>>

-----------------------------------------------------------------------------
(* processSwitch().                                                            *)

(* The timer, or a process made runnable, takes the processor away.            *)
Preempt(p) ==
  /\ Executes(p)
  /\ switching' = [switching EXCEPT ![p] = TRUE]
  /\ UNCHANGED <<count, waiting, status, alertable, resource, suspended, aborted, calls,
                 holds, granted, lost>> /\ NoKill

(* The process has the processor again, suspended: the wait for SuspendEvent is  *)
(* a wait inside of the one down() may be in.                                    *)
SwitchSuspended(p) ==
  /\ status[p] = "PRUN" /\ switching[p] /\ suspended[p] /\ count["SuspendEvent"] <= 0
  /\ Waits(p, "SuspendEvent", FALSE)
  /\ UNCHANGED <<suspended, aborted, calls, holds, granted, lost>> /\ NoKill

(* It does not wait, since it is not suspended or the semaphore lets it through. *)
Passes(p) ==
  /\ status[p] = "PRUN" /\ switching[p] /\ (suspended[p] => count["SuspendEvent"] > 0)
  /\ count' = [count EXCEPT !["SuspendEvent"] = IF suspended[p] THEN @ - 1 ELSE @]

SwitchAborted(p) ==
  /\ Passes(p) /\ aborted[p]
  /\ aborted' = [aborted EXCEPT ![p] = FALSE]
  /\ status' = [status EXCEPT ![p] = "gone"]
  /\ UNCHANGED <<waiting, alertable, resource, suspended, switching, calls, holds, granted,
                 lost>> /\ NoKill

(* It goes on, out of a down() that now compares alertable with its argument.  *)
SwitchEnds(p) ==
  /\ Passes(p) /\ ~aborted[p]
  /\ switching' = [switching EXCEPT ![p] = FALSE]
  /\ calls' = [calls EXCEPT ![p] = {}]
  /\ LET told == calls[p] = {alertable[p]}
     IN  IF calls[p] = {} THEN UNCHANGED <<holds, granted, lost>>
         ELSE /\ holds' = [holds EXCEPT ![p] = told]
              /\ granted' = [granted EXCEPT ![p] = @ /\ told]
              /\ lost' = IF granted[p] /\ ~told THEN lost + 1 ELSE lost
  /\ UNCHANGED <<waiting, status, alertable, resource, suspended, aborted>> /\ NoKill

Next ==
  \/ Startle
  \/ \E p \in Procs :
       \/ \E a \in BOOLEAN : Down(p, a)
       \/ DownNowait(p) \/ Up(p)
       \/ Alert(p) \/ Suspend(p) \/ Resume(p)
       \/ PurgeProcess(p) \/ KillTests(p) \/ KillMarks(p) \/ KillAborts(p)
       \/ Preempt(p) \/ SwitchSuspended(p) \/ SwitchAborted(p) \/ SwitchEnds(p)

Spec == Init /\ [][Next]_vars
=============================================================================
