--------------------------- MODULE DebugSpawnProps ---------------------------
(* What a caller of debugSpawn() may rely on.                                  *)
EXTENDS DebugSpawn

\* A caller that gets its answer has all the output of every process, in order:
\* no piece is still in the pipe or written after (process.cc 300-303, 532-544).
OutputComplete == caller = "returned" => captured = written

\* A child that an exception ended, or the loop itself, is never reported with an
\* exit value.  Where an exception is given the answer is -2.  Where none is, the
\* child could not be started or its exit value is the answer, whatever that is,
\* and then it ended by itself or of an exception that is not taken for one
\* (MS_VC_EXCEPTION).  "Too many" is said only when some process raised more
\* exceptions than the limit (process.cc 286-306, 342-480).
VerdictRight ==
  caller = "returned" =>
    /\ outcome # "unset" => result = -2
    /\ outcome = "unset" =>
         \/ ending.cause = "none" /\ result = -1
         \/ ending.cause \in {"exit", "MS_VC"} /\ result = ending.code
    /\ outcome = "TOO_MANY_EXCEPTIONS" => \E p \in Processes : seen[p] > Limit

\* An event that the loop counts nowhere, and that starts the timeout anew
\* (process.cc 359, 375-378, 406-416, 458).
Uncounted(p) ==
  LET e == process[p].event
  IN  \/ e.type = "load"
      \/ /\ e.type = "exception" /\ p = Main
         /\ e.kind = "MS_VC" \/ (e.first /\ e.kind \in {"ACCESS_VIOLATION", "OTHER"})
      \/ e.type = "exception" /\ p # Main /\ monitor.otherProcessId # p

\* With a timeout debugSpawn() returns, also from a child that does nothing or raises
\* exceptions that count for ever, but for two cases.  Events that are not counted
\* never cease; or the loop is over and a process has the pipe that the drain reads:
\* one the child left behind, or, after a failed wait alone, the child itself, whose
\* last event nobody continues (process.cc 286-306, 349-366).
Returns ==
  HasTimeout =>
    \/ []<>(caller = "monitoring" /\ \E p \in Processes : Uncounted(p))
    \/ <>[]\/ caller = "returned"
           \/ /\ caller = "joining"
              /\ Holders \cap Others # {} \/ (outcome = "TIMEOUT" /\ Main \in Holders)

\* Exit values for a run: of success, and the two that are answers of debugSpawn().
LikeAnswers == {-2, -1, 0}
=============================================================================
