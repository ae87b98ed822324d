------------------------------ MODULE DebugSpawn ------------------------------
(* debugSpawn() of process.cc: a child process runs under the debugger loop      *)
(* monitorDebugEvents(), and so do the processes it starts, while a thread        *)
(* drains the pipe they write to.  The processes and the debugger interface of    *)
(* Windows are external: a process that has an event stops until the event is     *)
(* continued; one that ends keeps its handles until its last event is, but one    *)
(* that is terminated may lose them at once.                                      *)
EXTENDS Integers, Sequences

CONSTANTS
  Main,        \* the process that is spawned
  Others,      \* those it may start
  Limit,       \* exceptions after which a process is terminated (100 in the code)
  HasTimeout,  \* whether a timeout was given that is not too long to be one
  ExitCodes,   \* exit values of processes, of which some look like answers of debugSpawn()
  MaxOutput    \* bound: pieces of output written in all

Processes == {Main} \cup Others

ASSUME SpawnAssumption ==
  /\ Main \notin Others /\ "none" \notin Processes
  /\ Limit \in Nat /\ MaxOutput \in Nat
  /\ HasTimeout \in BOOLEAN /\ ExitCodes \subseteq Int

VARIABLES
  process,   \* [state, event] of each process
  ending,    \* what ended the child, and its exit value
  pipe,      \* what is written and not yet read
  written,   \* all that was written, in order
  captured,  \* captureData
  drainer,   \* "none", "reading" or "ended"
  monitor,   \* the locals of monitorDebugEvents()
  caller,    \* "spawning", "monitoring", "joining" or "returned"
  outcome,   \* *exception, which nothing has set at first
  result,    \* the exit value
  seen       \* exceptions of each process the loop was given, up to one past the limit

vars == <<process, ending, pipe, written, captured, drainer, monitor, caller, outcome, result,
          seen>>

NoEvent == [type |-> "none", kind |-> "none", first |-> FALSE]
Event(type) == [NoEvent EXCEPT !.type = type]
Exception(kind, first) == [type |-> "exception", kind |-> kind, first |-> first]
Kinds == {"ABORT", "BREAKPOINT", "ACCESS_VIOLATION", "MS_VC", "OTHER"}
Ending(cause, code) == [cause |-> cause, code |-> code]
WINDOWS_DEBUGGER_TERMINATED == -1015611391  \* 0xc3770001 as an int

Free(p) == process[p].event = NoEvent
Running(p) == process[p].state = "running" /\ Free(p)
Holders == {p \in Processes : process[p].state \in {"created", "running", "dying"}}

Init ==
  /\ process = [p \in Processes |-> [state |-> "none", event |-> NoEvent]]
  /\ ending = Ending("none", 0)
  /\ pipe = <<>> /\ written = <<>> /\ captured = <<>> /\ drainer = "none"
  /\ monitor = [sawAnException |-> FALSE, loaderBreakpointHit |-> FALSE, totalExceptions |-> 0,
                otherProcessId |-> "none", totalOtherExceptions |-> 0]
  /\ caller = "spawning" /\ outcome = "unset" /\ result = 0
  /\ seen = [p \in Processes |-> 0]

-----------------------------------------------------------------------------
(* The processes.                                                             *)

Happens(p, record) == process' = [process EXCEPT ![p] = record]
Elsewhere == UNCHANGED <<ending, captured, drainer, monitor, caller, outcome, result, seen>>

StartOther(p, q) ==
  /\ Running(p) /\ process[q].state = "none"
  /\ Happens(q, [process[q] EXCEPT !.state = "created", !.event = Event("create")])
  /\ UNCHANGED <<pipe, written>> /\ Elsewhere

\* The loader breaks into the debugger before a process runs.
LoaderBreak(p) ==
  /\ process[p].state = "created" /\ Free(p)
  /\ Happens(p, [process[p] EXCEPT !.state = "running", !.event = Exception("BREAKPOINT", TRUE)])
  /\ UNCHANGED <<pipe, written>> /\ Elsewhere

Raise(p, event) ==
  /\ Running(p) /\ Happens(p, [process[p] EXCEPT !.event = event])
  /\ UNCHANGED <<pipe, written>> /\ Elsewhere

Write(p) ==
  /\ Running(p) /\ Len(written) < MaxOutput
  /\ pipe' = Append(pipe, Len(written) + 1) /\ written' = Append(written, Len(written) + 1)
  /\ UNCHANGED process /\ Elsewhere

Exit(p, code) ==
  /\ Running(p) /\ Happens(p, [process[p] EXCEPT !.state = "dying", !.event = Event("exit")])
  /\ ending' = IF p = Main THEN Ending("exit", code) ELSE ending
  /\ UNCHANGED <<pipe, written, captured, drainer, monitor, caller, outcome, result, seen>>

-----------------------------------------------------------------------------
(* The loop.                                                                  *)

\* Where a process may go when its event is continued: an exception that is not
\* handled comes back once when the program has no handler, and then ends it.
Continued(record, handling) ==
  LET resumed == [record EXCEPT !.event = NoEvent]
      ended == [record EXCEPT !.state = IF @ = "stripped" THEN @ ELSE "dying",
                              !.event = Event("exit")]
      e == record.event
  IN  IF e.type = "exit" THEN {[resumed EXCEPT !.state = "gone"]}
      ELSE IF record.state \in {"dying", "stripped"} THEN {ended}
      ELSE IF e.type # "exception" \/ handling = "CONTINUE" THEN {resumed}
      ELSE IF e.first THEN {resumed, [record EXCEPT !.event.first = FALSE]}
      ELSE {ended}

\* TerminateProcess(): the process ends when the event it has is continued, and
\* has its handles till then or none.
Terminated(p) ==
  {[process EXCEPT ![p].state = IF @ = "stripped" THEN @ ELSE s] : s \in {"dying", "stripped"}}

\* What the child ends with, when it does as its event e is continued: the loop
\* has terminated it, or the exception was not handled and is its exit value.
Endings(p, e, terminate, record) ==
  IF p # Main \/ record.event.type # "exit" THEN {ending}
  ELSE IF terminate = Main THEN {Ending("terminated", WINDOWS_DEBUGGER_TERMINATED)}
  ELSE {Ending(e.kind, code) : code \in ExitCodes}

\* The verdict of the loop on one exception: its locals, *exception (or "same"),
\* the process it terminates (or "none") and how the event is continued.
Verdict(m, exception, terminate, handling) ==
  [monitor |-> m, exception |-> exception, terminate |-> terminate, handling |-> handling]
Ignored(m) == Verdict(m, "same", "none", "NOT_HANDLED")

OtherException(p) ==
  IF monitor.otherProcessId # p
  THEN Ignored([monitor EXCEPT !.otherProcessId = p, !.totalOtherExceptions = 0])
  ELSE LET m == [monitor EXCEPT !.totalOtherExceptions = @ + 1]
       IN  IF m.totalOtherExceptions > Limit
           THEN Verdict([m EXCEPT !.sawAnException = TRUE], "TOO_MANY_EXCEPTIONS", p, "NOT_HANDLED")
           ELSE Ignored(m)

\* An exception that counts; past the limit the child is terminated.
Counted(exception) ==
  LET m == [monitor EXCEPT !.totalExceptions = @ + 1, !.sawAnException = TRUE]
  IN  IF m.totalExceptions > Limit THEN Verdict(m, "TOO_MANY_EXCEPTIONS", Main, "NOT_HANDLED")
      ELSE Verdict(m, exception, "none", "NOT_HANDLED")

\* Defect: only the exceptions of the system are counted.
MainExceptionUncounted(e) ==
  CASE e.kind = "ABORT" -> Counted("ABORT")
    [] e.kind = "BREAKPOINT" /\ ~ monitor.loaderBreakpointHit ->
         Verdict([monitor EXCEPT !.loaderBreakpointHit = TRUE], "same", "none", "CONTINUE")
    [] e.kind = "BREAKPOINT" /\ monitor.loaderBreakpointHit ->
         Verdict([monitor EXCEPT !.sawAnException = TRUE], "BREAKPOINT", "none", "NOT_HANDLED")
    [] e.kind = "ACCESS_VIOLATION" /\ ~ e.first ->
         Verdict([monitor EXCEPT !.sawAnException = TRUE], "ACCESS_VIOLATION", Main, "NOT_HANDLED")
    [] e.kind = "OTHER" /\ ~ e.first -> Counted("UNKNOWN_EXCEPTION")
    [] OTHER -> Ignored(monitor)

\* Defect: an access violation the program does not handle is not remembered.
MainExceptionForgotten(e) ==
  CASE e.kind = "ABORT" -> Counted("ABORT")
    [] e.kind = "BREAKPOINT" /\ ~ monitor.loaderBreakpointHit ->
         Verdict([monitor EXCEPT !.loaderBreakpointHit = TRUE], "same", "none", "CONTINUE")
    [] e.kind = "BREAKPOINT" /\ monitor.loaderBreakpointHit -> Counted("BREAKPOINT")
    [] e.kind = "ACCESS_VIOLATION" /\ ~ e.first -> Verdict(monitor, "ACCESS_VIOLATION", Main, "NOT_HANDLED")
    [] e.kind = "OTHER" /\ ~ e.first -> Counted("UNKNOWN_EXCEPTION")
    [] OTHER -> Ignored(monitor)

MainException(e) ==
  CASE e.kind = "ABORT" -> Counted("ABORT")
    [] e.kind = "BREAKPOINT" /\ ~ monitor.loaderBreakpointHit ->
         Verdict([monitor EXCEPT !.loaderBreakpointHit = TRUE], "same", "none", "CONTINUE")
    [] e.kind = "BREAKPOINT" /\ monitor.loaderBreakpointHit -> Counted("BREAKPOINT")
    [] e.kind = "ACCESS_VIOLATION" /\ ~ e.first ->
         Verdict([monitor EXCEPT !.sawAnException = TRUE], "ACCESS_VIOLATION", Main, "NOT_HANDLED")
    [] e.kind = "OTHER" /\ ~ e.first -> Counted("UNKNOWN_EXCEPTION")
    [] OTHER -> Ignored(monitor)

\* One turn of the loop that does not end it, for the event of process p.
HandleEvent(p) ==
  LET e == process[p].event
      v == IF e.type # "exception" THEN Verdict(monitor, "same", "none", "NOT_HANDLED")
           ELSE IF p = Main THEN MainException(e) ELSE OtherException(p)
  IN  /\ caller = "monitoring" /\ e # NoEvent /\ ~ (p = Main /\ e.type = "exit")
      /\ monitor' = v.monitor
      /\ outcome' = IF v.exception = "same" THEN outcome ELSE v.exception
      /\ \E ps \in IF v.terminate = "none" THEN {process} ELSE Terminated(v.terminate) :
           \E record \in Continued(ps[p], v.handling) :
             /\ process' = [ps EXCEPT ![p] = record]
             /\ ending' \in Endings(p, e, v.terminate, record)
      /\ seen' = [seen EXCEPT ![p] = IF e.type = "exception" /\ @ <= Limit + 1 THEN @ + 1 ELSE @]
      /\ UNCHANGED <<pipe, written, captured, drainer, caller, result>>

\* The child has ended: the loop returns what debugSpawn() will.
MainExited ==
  /\ caller = "monitoring" /\ process[Main].event.type = "exit"
  /\ process' = [process EXCEPT ![Main] = [@ EXCEPT !.state = "gone", !.event = NoEvent]]
  /\ result' = IF monitor.sawAnException THEN -2 ELSE ending.code
  /\ caller' = "joining"
  /\ UNCHANGED <<ending, pipe, written, captured, drainer, monitor, outcome, seen>>

\* The wait for an event fails: the child is terminated, and nobody continues the
\* event of its end.  "This is probably a timeout", but any failure will do.
WaitFails ==
  /\ caller = "monitoring"
  /\ process' \in Terminated(Main)
  /\ ending' = IF ending.cause = "none" THEN Ending("terminated", WINDOWS_DEBUGGER_TERMINATED)
               ELSE ending
  /\ outcome' = "TIMEOUT" /\ result' = -2 /\ caller' = "joining"
  /\ UNCHANGED <<pipe, written, captured, drainer, monitor, seen>>

\* No event came for as long as the timeout says.
TimesOut == HasTimeout /\ (\A p \in Processes : Free(p)) /\ WaitFails

-----------------------------------------------------------------------------
(* debugSpawn() and its drain.                                                *)

Spawn ==
  /\ caller = "spawning"
  /\ \/ /\ result' = -1 /\ caller' = "returned"
        /\ UNCHANGED <<process, drainer>>
     \/ /\ process' = [process EXCEPT ![Main].state = "created", ![Main].event = Event("create")]
        /\ caller' = "monitoring" /\ drainer' = "reading" /\ UNCHANGED result
  /\ UNCHANGED <<ending, pipe, written, captured, monitor, outcome, seen>>

\* A read takes what there is; it fails once no process has the other end.
Drain ==
  /\ drainer = "reading"
  /\ \/ /\ pipe # <<>> /\ \E n \in 1 .. Len(pipe) :
             captured' = captured \o SubSeq(pipe, 1, n) /\ pipe' = SubSeq(pipe, n + 1, Len(pipe))
        /\ UNCHANGED drainer
     \/ /\ pipe = <<>> /\ Holders = {}
        /\ drainer' = "ended" /\ UNCHANGED <<pipe, captured>>
  /\ UNCHANGED <<process, ending, written, monitor, caller, outcome, result, seen>>

\* Defect: the caller does not wait for the drain.
JoinAtOnce == caller = "joining" /\ caller' = "returned"
              /\ UNCHANGED <<process, ending, pipe, written, captured, drainer, monitor, outcome,
                        result, seen>>

Join == /\ caller = "joining" /\ drainer = "ended" /\ caller' = "returned"
        /\ UNCHANGED <<process, ending, pipe, written, captured, drainer, monitor, outcome,
                        result, seen>>

Next ==
  \/ Spawn \/ Drain \/ Join \/ MainExited \/ TimesOut \/ WaitFails
  \/ \E p \in Processes :
       \/ HandleEvent(p) \/ LoaderBreak(p) \/ Write(p)
       \/ \E code \in ExitCodes : Exit(p, code)
       \/ \E q \in Others : StartOther(p, q)
       \/ Raise(p, Event("load")) \/ \E k \in Kinds : Raise(p, Exception(k, TRUE))

\* The loop takes every event some time, since a process that has one waits for it;
\* the threads run, and a wait without an event times out.  Of the processes only
\* the loader of one is sure to go on.
Fairness ==
  /\ WF_vars(Spawn) /\ WF_vars(Drain) /\ WF_vars(Join) /\ WF_vars(TimesOut)
  /\ WF_vars(MainExited)
  /\ \A p \in Processes : WF_vars(HandleEvent(p)) /\ WF_vars(LoaderBreak(p))

Spec == Init /\ [][Next]_vars /\ Fairness

=============================================================================
