--------------------------- MODULE DebugSpawnProofs ---------------------------
(* Proofs about debugSpawn(), for any number of processes, any limit, any exit     *)
(* values and any amount of output.                                               *)
EXTENDS DebugSpawnProps, SequenceTheorems, TLAPS

Present == {"created", "running", "dying", "stripped"}
States == {"none", "gone"} \cup Present
Events == [type : {"none", "create", "load", "exit", "exception"},
           kind : Kinds \cup {"none"}, first : BOOLEAN]
Records == [state : States, event : Events]
Causes == {"none", "exit", "terminated"} \cup Kinds
Monitors == [sawAnException : BOOLEAN, loaderBreakpointHit : BOOLEAN, totalExceptions : Nat,
             otherProcessId : Processes \cup {"none"}, totalOtherExceptions : Nat]
Answers == {"TOO_MANY_EXCEPTIONS", "ABORT", "BREAKPOINT", "ACCESS_VIOLATION", "UNKNOWN_EXCEPTION"}

TypeOK ==
  /\ process \in [Processes -> Records]
  /\ ending \in [cause : Causes, code : Int]
  /\ pipe \in Seq(Nat) /\ written \in Seq(Nat) /\ captured \in Seq(Nat)
  /\ drainer \in {"none", "reading", "ended"}
  /\ monitor \in Monitors
  /\ caller \in {"spawning", "monitoring", "joining", "returned"}
  /\ outcome \in Answers \cup {"unset", "TIMEOUT"} /\ result \in Int
  /\ seen \in [Processes -> Nat]

\* Every piece of output is in one place, and in its place.
Output == written = captured \o pipe

\* Only a process that exists has an event.
Held == \A p \in Processes : process[p].event # NoEvent => process[p].state \in Present

\* Which threads there are, and what is over when one has ended.
Threads ==
  /\ caller = "monitoring" => process[Main].state \in Present
  /\ caller \in {"spawning", "returned"} => drainer # "reading"
  /\ caller = "spawning" => drainer = "none"
  /\ drainer \in {"none", "ended"} => pipe = <<>> /\ Holders = {}
  /\ drainer = "none" => caller \in {"spawning", "returned"}

\* The loop counts no more exceptions of a process than the process had.
Counts ==
  /\ monitor.totalExceptions <= seen[Main] \/ seen[Main] > Limit
  /\ monitor.otherProcessId \in Processes =>
       \/ monitor.totalOtherExceptions <= seen[monitor.otherProcessId]
       \/ seen[monitor.otherProcessId] > Limit
  /\ outcome = "TOO_MANY_EXCEPTIONS" => \E p \in Processes : seen[p] > Limit

\* How the child comes to its end: while the loop runs, by the event of it, and not
\* by an exception or the loop without an exception given; and not after the loop.
Ended ==
  /\ process[Main].event.type = "exception" => process[Main].event.kind \in Kinds
  /\ caller = "monitoring" =>
       /\ process[Main].state \in {"dying", "stripped"} => process[Main].event.type = "exit"
       /\ process[Main].event.type = "exit" => ending.cause # "none"
       /\ outcome = "unset" => ending.cause \in {"none", "exit", "MS_VC"}
  /\ caller \in {"joining", "returned"} => process[Main].state \notin {"created", "running"}

\* What the loop remembers, and what the call makes of it.
Verdicts ==
  /\ caller = "spawning" => outcome = "unset" /\ ending.cause = "none"
  /\ caller \in {"spawning", "monitoring"} =>
       /\ outcome # "TIMEOUT"
       /\ monitor.sawAnException <=> outcome # "unset"
  /\ caller \in {"joining", "returned"} =>
       /\ outcome # "unset" => result = -2
       /\ outcome = "unset" =>
            \/ caller = "returned" /\ ending.cause = "none" /\ result = -1
            \/ ending.cause \in {"exit", "MS_VC"} /\ result = ending.code

IInv == TypeOK /\ Output /\ Held /\ Threads /\ Counts /\ Ended /\ Verdicts

-----------------------------------------------------------------------------
LEMMA EventTypes ==
  /\ NoEvent \in Events /\ NoEvent.type = "none"
  /\ \A type \in {"create", "load", "exit"} :
       Event(type) \in Events /\ Event(type).type = type
  /\ \A kind \in Kinds, first \in BOOLEAN :
       /\ Exception(kind, first) \in Events /\ Exception(kind, first).type = "exception"
       /\ Exception(kind, first).kind = kind
BY DEF NoEvent, Event, Exception, Events

\* A process record takes new values of its fields.
Moved(r, s, e) == [r EXCEPT !.state = s, !.event = e]

LEMMA RecordUpdates ==
  ASSUME NEW r \in Records, NEW s \in States, NEW e \in Events
  PROVE  /\ Moved(r, s, e) \in Records
         /\ Moved(r, s, e).state = s /\ Moved(r, s, e).event = e
<1> HIDE DEF States, Events
<1> QED
  BY DEF Records, Moved

LEMMA RecordParts ==
  ASSUME NEW r \in Records, NEW s, NEW e
  PROVE  /\ r.state \in States /\ r.event \in Events
         /\ [r EXCEPT !.event = e] = Moved(r, r.state, e)
         /\ [r EXCEPT !.state = s] = Moved(r, s, r.event)
<1> HIDE DEF States, Events
<1> QED
  BY DEF Records, Moved

LEMMA Holding ==
  ASSUME TypeOK, Threads, Holders # {}
  PROVE  drainer = "reading" /\ caller \in {"monitoring", "joining"}
BY DEF TypeOK, Threads

LEMMA InitIInv == Init => IInv
<1> SUFFICES ASSUME Init PROVE IInv
  OBVIOUS
<1>1. \A p \in Processes : process[p] = [state |-> "none", event |-> NoEvent]
  BY DEF Init
<1>2. Holders = {} /\ Held
  BY <1>1 DEF Holders, Held
<1>3. TypeOK
  <2>1. process \in [Processes -> Records]
    BY EventTypes DEF Init, Records, States
  <2>2. monitor \in Monitors
    BY DEF Init, Monitors
  <2>3. ending \in [cause : Causes, code : Int]
    BY DEF Init, Ending, Causes
  <2> QED
    BY <2>1, <2>2, <2>3 DEF Init, TypeOK
<1>4. Output
  BY DEF Init, Output
<1>5. Threads
  BY <1>2 DEF Init, Threads
<1>6. Counts
  BY SpawnAssumption DEF Init, Counts, Processes
<1>7. Verdicts
  BY DEF Init, Verdicts, Ending
<1>8. Ended
  BY <1>1, EventTypes DEF Init, Ended, Processes
<1> QED
  BY <1>2, <1>3, <1>4, <1>5, <1>6, <1>7, <1>8 DEF IInv

-----------------------------------------------------------------------------
(* The processes.                                                             *)

\* The new record r of p: the child goes on with an event, or exits.
GoesOn(p, r) ==
  IF p # Main THEN ending' = ending
  ELSE /\ process[p].state \in {"created", "running"}
       /\ \/ /\ ending' = ending
             /\ r.state \in {"created", "running"} /\ r.event.type # "exit"
             /\ r.event.type = "exception" => r.event.kind \in Kinds
          \/ /\ ending' \in [cause : {"exit"}, code : Int]
             /\ r.state = "dying" /\ r.event.type = "exit"

\* Some process does something that leaves p in existence.
LEMMA ProcessStep ==
  ASSUME IInv, NEW p \in Processes, NEW r \in Records, Happens(p, r), GoesOn(p, r),
         UNCHANGED <<pipe, written, captured, drainer, monitor, caller, outcome, result, seen>>,
         Holders # {}, r.state \in {"created", "running", "dying"}
  PROVE  IInv'
<1>1. /\ process \in [Processes -> Records] /\ process' = [process EXCEPT ![p] = r] /\ TypeOK
      /\ Main \in Processes
  BY DEF Happens, IInv, TypeOK, Processes
<1>2. /\ process'[p] = r /\ \A q \in Processes \ {p} : process'[q] = process[q]
  BY <1>1
<1>3. p \in Holders' /\ \A q \in Processes \ {p} : q \in Holders' <=> q \in Holders
  BY <1>2 DEF Holders
<1>4. drainer = "reading" /\ caller \in {"monitoring", "joining"}
  BY Holding DEF IInv
<1>5. TypeOK'
  <2>1. ending' \in [cause : Causes, code : Int]
    BY <1>1 DEF GoesOn, TypeOK, Causes
  <2> QED
    BY <1>1, <2>1 DEF TypeOK
<1>6. Held'
  BY <1>2 DEF IInv, Held, Present
<1>7. process'[Main].state \in Present \/ process'[Main] = process[Main]
  BY <1>1, <1>2 DEF Present
<1>8. Threads'
  BY <1>3, <1>4, <1>7 DEF IInv, Threads
<1>9. Output' /\ Counts'
  BY DEF IInv, Output, Counts
<1>10. Ended' /\ Verdicts'
  <2>1. CASE p # Main
    <3>1. process'[Main] = process[Main] /\ ending' = ending
      BY <2>1, <1>1, <1>2 DEF GoesOn
    <3> QED
      BY <3>1 DEF IInv, Ended, Verdicts
  <2>2. CASE p = Main
    <3>1. caller = "monitoring"
      BY <2>2, <1>4 DEF GoesOn, IInv, Ended
    <3>2. CASE ending' = ending /\ r.state \in {"created", "running"}
               /\ r.event.type # "exit" /\ (r.event.type = "exception" => r.event.kind \in Kinds)
      BY <3>1, <3>2, <2>2, <1>2 DEF IInv, Ended, Verdicts
    <3>3. CASE ending' \in [cause : {"exit"}, code : Int] /\ r.state = "dying"
               /\ r.event.type = "exit"
      BY <3>1, <3>3, <2>2, <1>2 DEF IInv, Ended, Verdicts
    <3> QED
      BY <3>2, <3>3, <2>2 DEF GoesOn
  <2> QED
    BY <2>1, <2>2
<1> QED
  BY <1>5, <1>6, <1>8, <1>9, <1>10 DEF IInv

LEMMA RunningHolds ==
  ASSUME NEW p \in Processes, process[p].state \in {"created", "running"}
  PROVE  p \in Holders
BY DEF Holders

LEMMA StartOtherStep ==
  ASSUME IInv, NEW p \in Processes, NEW q \in Others, StartOther(p, q)
  PROVE  IInv'
<1> DEFINE r == Moved(process[q], "created", Event("create"))
<1>1. p \in Holders /\ q \in Processes /\ q # Main
  BY RunningHolds, SpawnAssumption DEF StartOther, Running, Processes
<1>2. r \in Records /\ r.state = "created"
  <2>1. process[q] \in Records /\ Event("create") \in Events /\ "created" \in States
    BY <1>1, EventTypes DEF IInv, TypeOK, States, Present
  <2> QED
    BY <2>1, RecordUpdates
<1>3. Happens(q, r) /\ UNCHANGED <<pipe, written>> /\ Elsewhere
  BY DEF StartOther, Moved
<1> HIDE DEF r
<1> QED
  BY <1>1, <1>2, <1>3, ProcessStep DEF Elsewhere, GoesOn

LEMMA LoaderBreakStep ==
  ASSUME IInv, NEW p \in Processes, LoaderBreak(p)
  PROVE  IInv'
<1> DEFINE e == Exception("BREAKPOINT", TRUE)
           r == Moved(process[p], "running", e)
<1>1. p \in Holders /\ process[p].state = "created"
  BY RunningHolds DEF LoaderBreak
<1>2. e \in Events /\ e.type = "exception" /\ e.kind \in Kinds
  BY EventTypes DEF Kinds
<1>3. Happens(p, r) /\ UNCHANGED <<pipe, written>> /\ Elsewhere
  BY DEF LoaderBreak, Moved
<1> HIDE DEF e
<1>4. r \in Records /\ r.state = "running" /\ r.event = e
  <2>1. process[p] \in Records /\ "running" \in States
    BY DEF IInv, TypeOK, States, Present
  <2> QED
    BY <1>2, <2>1, RecordUpdates
<1> HIDE DEF r
<1>5. GoesOn(p, r)
  BY <1>1, <1>2, <1>3, <1>4 DEF GoesOn, Elsewhere
<1> QED
  BY <1>1, <1>3, <1>4, <1>5, ProcessStep DEF Elsewhere

LEMMA RaiseStep ==
  ASSUME IInv, NEW p \in Processes, NEW e \in Events, Raise(p, e), e.type # "exit",
         e.type = "exception" => e.kind \in Kinds
  PROVE  IInv'
<1> DEFINE r == Moved(process[p], process[p].state, e)
<1>1. p \in Holders /\ process[p].state = "running" /\ process[p] \in Records
  BY RunningHolds DEF Raise, Running, IInv, TypeOK
<1>2. r \in Records /\ r.state = "running" /\ r.event = e /\ [process[p] EXCEPT !.event = e] = r
  <2>1. [process[p] EXCEPT !.event = e] = r /\ process[p].state \in States
    BY <1>1, RecordParts
  <2>2. Moved(process[p], process[p].state, e) \in Records
        /\ Moved(process[p], process[p].state, e).state = process[p].state
        /\ Moved(process[p], process[p].state, e).event = e
    BY <1>1, <2>1, RecordUpdates
  <2> QED
    BY <1>1, <2>1, <2>2
<1>3. Happens(p, r) /\ UNCHANGED <<pipe, written>> /\ Elsewhere
  BY <1>2 DEF Raise
<1> HIDE DEF r
<1>4. GoesOn(p, r)
  BY <1>1, <1>2, <1>3 DEF GoesOn, Elsewhere
<1> QED
  BY <1>1, <1>2, <1>3, <1>4, ProcessStep DEF Elsewhere

LEMMA ExitStep ==
  ASSUME IInv, NEW p \in Processes, NEW code \in ExitCodes, Exit(p, code)
  PROVE  IInv'
<1> DEFINE r == Moved(process[p], "dying", Event("exit"))
<1>1. p \in Holders /\ process[p].state = "running" /\ process[p] \in Records
  BY RunningHolds DEF Exit, Running, IInv, TypeOK
<1>2. r \in Records /\ r.state = "dying" /\ r.event.type = "exit"
  <2>1. Event("exit") \in Events /\ Event("exit").type = "exit" /\ "dying" \in States
    BY EventTypes DEF States, Present
  <2> QED
    BY <1>1, <2>1, RecordUpdates
<1>3. /\ Happens(p, r) /\ ending' = IF p = Main THEN Ending("exit", code) ELSE ending
      /\ UNCHANGED <<pipe, written, captured, drainer, monitor, caller, outcome, result, seen>>
  BY DEF Exit, Moved
<1> HIDE DEF r
<1>4. GoesOn(p, r)
  <2>1. Ending("exit", code) \in [cause : {"exit"}, code : Int]
    BY SpawnAssumption DEF Ending
  <2> QED
    BY <1>1, <1>2, <1>3, <2>1 DEF GoesOn
<1> QED
  BY <1>1, <1>2, <1>3, <1>4, ProcessStep

\* Output, and nothing else, comes and goes.
LEMMA OutputStep ==
  ASSUME IInv, UNCHANGED <<process, ending, monitor, caller, outcome, result, seen>>, Output',
         pipe' \in Seq(Nat), written' \in Seq(Nat), captured' \in Seq(Nat),
         \/ drainer' = drainer /\ Holders # {}
         \/ drainer' = drainer /\ drainer = "reading"
         \/ drainer' = "ended" /\ drainer = "reading" /\ pipe' = <<>> /\ Holders = {}
  PROVE  IInv'
<1>1. Holders' = Holders
  BY DEF Holders
<1>2. drainer = "reading"
  BY Holding DEF IInv
<1>3. TypeOK'
  BY <1>2 DEF IInv, TypeOK
<1>4. Held' /\ Counts' /\ Ended' /\ Verdicts'
  BY <1>1 DEF IInv, Held, Counts, Ended, Verdicts
<1>5. Threads'
  BY <1>1, <1>2 DEF IInv, Threads
<1> QED
  BY <1>3, <1>4, <1>5 DEF IInv

LEMMA WriteStep ==
  ASSUME IInv, NEW p \in Processes, Write(p)
  PROVE  IInv'
<1>1. Holders # {}
  BY RunningHolds DEF Write, Running
<1> DEFINE x == Len(written) + 1
<1>2. /\ pipe \in Seq(Nat) /\ written \in Seq(Nat) /\ captured \in Seq(Nat) /\ x \in Nat
      /\ written = captured \o pipe
  BY DEF IInv, TypeOK, Output
<1>3. /\ pipe' = Append(pipe, x) /\ written' = Append(written, x)
      /\ UNCHANGED <<process, ending, captured, drainer, monitor, caller, outcome, result,
                     seen>>
  BY DEF Write, Elsewhere
<1> HIDE DEF x
<1>4. pipe' \in Seq(Nat) /\ written' \in Seq(Nat)
  BY <1>2, <1>3, AppendProperties
<1>5. written' = captured \o pipe'
  <2>1. <<x>> \in Seq(Nat)
    BY <1>2
  <2>2. Append(pipe, x) = pipe \o <<x>> /\ Append(written, x) = written \o <<x>>
    BY <1>2, AppendIsConcat
  <2>3. (captured \o pipe) \o <<x>> = captured \o (pipe \o <<x>>)
    BY <1>2, <2>1, ConcatAssociative
  <2> QED
    BY <1>2, <1>3, <2>2, <2>3
<1> QED
  BY <1>1, <1>2, <1>3, <1>4, <1>5, OutputStep DEF Output

LEMMA Regrouped ==
  ASSUME NEW a \in Seq(Nat), NEW b \in Seq(Nat), NEW c \in Seq(Nat)
  PROVE  (a \o b) \o c = a \o (b \o c)
BY ConcatAssociative

LEMMA DrainedInOrder ==
  ASSUME NEW a \in Seq(Nat), NEW b \in Seq(Nat), NEW n \in 1 .. Len(b)
  PROVE  /\ a \o SubSeq(b, 1, n) \in Seq(Nat) /\ SubSeq(b, n + 1, Len(b)) \in Seq(Nat)
         /\ (a \o SubSeq(b, 1, n)) \o SubSeq(b, n + 1, Len(b)) = a \o b
<1> DEFINE taken == SubSeq(b, 1, n)
           left == SubSeq(b, n + 1, Len(b))
<1>1. Len(b) \in Nat /\ n \in Nat /\ 1 <= n /\ n <= Len(b)
  OBVIOUS
<1>2. taken \o left = b
  BY <1>1, ConcatAdjacentSubSeq, SubSeqFull
<1>3. taken \in Seq(Nat) /\ left \in Seq(Nat)
  BY <1>1, SubSeqProperties
<1> SUFFICES a \o taken \in Seq(Nat) /\ (a \o taken) \o left = a \o b
  BY <1>3
<1> HIDE DEF taken, left
<1>4. (a \o taken) \o left = a \o (taken \o left)
  BY <1>3, Regrouped
<1> QED
  BY <1>2, <1>3, <1>4, ConcatProperties

LEMMA DrainStep ==
  ASSUME IInv, Drain
  PROVE  IInv'
<1>1. /\ pipe \in Seq(Nat) /\ written \in Seq(Nat) /\ captured \in Seq(Nat)
      /\ written = captured \o pipe /\ drainer = "reading"
      /\ UNCHANGED <<process, ending, written, monitor, caller, outcome, result, seen>>
  BY DEF IInv, TypeOK, Output, Drain
<1>2. CASE \E n \in 1 .. Len(pipe) :
             captured' = captured \o SubSeq(pipe, 1, n) /\ pipe' = SubSeq(pipe, n + 1, Len(pipe))
  <2>1. PICK n \in 1 .. Len(pipe) :
               captured' = captured \o SubSeq(pipe, 1, n) /\ pipe' = SubSeq(pipe, n + 1, Len(pipe))
    BY <1>2
  <2>2. drainer' = drainer
    BY <1>1, <1>2 DEF Drain
  <2>3. captured' \in Seq(Nat) /\ pipe' \in Seq(Nat) /\ captured' \o pipe' = captured \o pipe
    BY <1>1, <2>1, DrainedInOrder
  <2> QED
    BY <1>1, <2>2, <2>3, OutputStep DEF Output
<1>3. CASE pipe = <<>> /\ Holders = {} /\ drainer' = "ended" /\ UNCHANGED <<pipe, captured>>
  BY <1>1, <1>3, OutputStep DEF Output
<1> QED
  BY <1>2, <1>3 DEF Drain

-----------------------------------------------------------------------------
(* The loop.                                                                  *)

\* The verdict of the loop on the event of p, as HandleEvent takes it.
Judged(p, e) ==
  IF e.type # "exception" THEN Verdict(monitor, "same", "none", "NOT_HANDLED")
  ELSE IF p = Main THEN MainException(e) ELSE OtherException(p)

LEMMA VerdictFields ==
  ASSUME NEW m, NEW x, NEW t, NEW h
  PROVE  /\ Verdict(m, x, t, h).monitor = m /\ Verdict(m, x, t, h).exception = x
         /\ Verdict(m, x, t, h).terminate = t
BY DEF Verdict

\* A verdict of the loop keeps to the types, answers for what it remembers, and
\* raises a count by one at most: of the locals m it leaves, the exception x it
\* gives and the process t it terminates, on an event e of process p.
Sound(m, x, t, p) ==
  /\ m \in Monitors /\ t \in {"none", p} /\ x \in Answers \cup {"same"}
  /\ x = "same" => m.sawAnException = monitor.sawAnException /\ t = "none"
  /\ x # "same" => m.sawAnException = TRUE

CountsUp(m, x, p, e) ==
  /\ \/ m.totalExceptions = monitor.totalExceptions
     \/ /\ p = Main /\ e.type = "exception"
        /\ m.totalExceptions = monitor.totalExceptions + 1
  /\ \/ /\ m.otherProcessId = monitor.otherProcessId
        /\ m.totalOtherExceptions = monitor.totalOtherExceptions
     \/ m.otherProcessId = p /\ m.totalOtherExceptions = 0
     \/ /\ m.otherProcessId = p /\ monitor.otherProcessId = p /\ e.type = "exception"
        /\ m.totalOtherExceptions = monitor.totalOtherExceptions + 1
  /\ x = "TOO_MANY_EXCEPTIONS" =>
       \/ p = Main /\ m.totalExceptions > Limit
       \/ m.otherProcessId = p /\ m.totalOtherExceptions > Limit

Right(v, p, e) ==
  Sound(v.monitor, v.exception, v.terminate, p) /\ CountsUp(v.monitor, v.exception, p, e)

LEMMA RightVerdict ==
  ASSUME NEW m, NEW x, NEW t, NEW h, NEW p, NEW e, Sound(m, x, t, p), CountsUp(m, x, p, e)
  PROVE  Right(Verdict(m, x, t, h), p, e)
BY VerdictFields DEF Right

LEMMA IgnoredRight ==
  ASSUME TypeOK, NEW p \in Processes, NEW e, NEW h
  PROVE  Right(Verdict(monitor, "same", "none", h), p, e)
<1>1. Sound(monitor, "same", "none", p) /\ CountsUp(monitor, "same", p, e)
  BY DEF TypeOK, Sound, CountsUp
<1> QED
  BY <1>1, RightVerdict

LEMMA CountedRight ==
  ASSUME TypeOK, NEW e \in Events, e.type = "exception",
         NEW x \in Answers \ {"TOO_MANY_EXCEPTIONS"}
  PROVE  Right(Counted(x), Main, e)
<1>1. monitor \in Monitors
  BY DEF TypeOK
<1> DEFINE one == [monitor EXCEPT !.totalExceptions = @ + 1]
           m == [one EXCEPT !.sawAnException = TRUE]
<1>2. /\ one \in Monitors
      /\ one.totalExceptions = monitor.totalExceptions + 1
      /\ one.otherProcessId = monitor.otherProcessId
      /\ one.totalOtherExceptions = monitor.totalOtherExceptions
  BY <1>1 DEF Monitors
<1>3. \/ /\ m.totalExceptions > Limit
         /\ Counted(x) = Verdict(m, "TOO_MANY_EXCEPTIONS", Main, "NOT_HANDLED")
      \/ Counted(x) = Verdict(m, x, "none", "NOT_HANDLED")
  BY DEF Counted
<1> HIDE DEF one
<1>4. /\ m \in Monitors /\ m.sawAnException = TRUE
      /\ m.totalExceptions = one.totalExceptions
      /\ m.otherProcessId = one.otherProcessId
      /\ m.totalOtherExceptions = one.totalOtherExceptions
  BY <1>2 DEF Monitors
<1> HIDE DEF m
<1>5. Sound(m, x, "none", Main) /\ CountsUp(m, x, Main, e)
  BY <1>2, <1>4 DEF Sound, CountsUp, Answers
<1>6. m.totalExceptions > Limit =>
        /\ Sound(m, "TOO_MANY_EXCEPTIONS", Main, Main)
        /\ CountsUp(m, "TOO_MANY_EXCEPTIONS", Main, e)
  BY <1>2, <1>4 DEF Sound, CountsUp, Answers
<1> QED
  BY <1>3, <1>5, <1>6, RightVerdict

LEMMA MainRight ==
  ASSUME TypeOK, NEW e \in Events, e.type = "exception"
  PROVE  Right(MainException(e), Main, e)
<1>1. monitor \in Monitors /\ Main \in Processes
  BY DEF TypeOK, Processes
<1> DEFINE hit == [monitor EXCEPT !.loaderBreakpointHit = TRUE]
           saw == [monitor EXCEPT !.sawAnException = TRUE]
<1>2. /\ hit \in Monitors /\ hit.sawAnException = monitor.sawAnException
      /\ hit.totalExceptions = monitor.totalExceptions
      /\ hit.otherProcessId = monitor.otherProcessId
      /\ hit.totalOtherExceptions = monitor.totalOtherExceptions
  BY <1>1 DEF Monitors
<1>3. /\ saw \in Monitors /\ saw.sawAnException = TRUE
      /\ saw.totalExceptions = monitor.totalExceptions
      /\ saw.otherProcessId = monitor.otherProcessId
      /\ saw.totalOtherExceptions = monitor.totalOtherExceptions
  BY <1>1 DEF Monitors
<1>4. MainException(e) \in {Counted("ABORT"), Counted("BREAKPOINT"), Counted("UNKNOWN_EXCEPTION"),
                           Verdict(hit, "same", "none", "CONTINUE"),
                           Verdict(saw, "ACCESS_VIOLATION", Main, "NOT_HANDLED"),
                           Verdict(monitor, "same", "none", "NOT_HANDLED")}
  BY DEF MainException, Ignored
<1> HIDE DEF hit, saw
<1>5. \A x \in {"ABORT", "BREAKPOINT", "UNKNOWN_EXCEPTION"} : Right(Counted(x), Main, e)
  BY CountedRight DEF Answers
<1>6. Sound(hit, "same", "none", Main) /\ CountsUp(hit, "same", Main, e)
  BY <1>1, <1>2 DEF Sound, CountsUp
<1>7. Sound(saw, "ACCESS_VIOLATION", Main, Main) /\ CountsUp(saw, "ACCESS_VIOLATION", Main, e)
  BY <1>1, <1>3 DEF Sound, CountsUp, Answers
<1>8. /\ Right(Verdict(hit, "same", "none", "CONTINUE"), Main, e)
      /\ Right(Verdict(saw, "ACCESS_VIOLATION", Main, "NOT_HANDLED"), Main, e)
      /\ Right(Verdict(monitor, "same", "none", "NOT_HANDLED"), Main, e)
  BY <1>1, <1>6, <1>7, RightVerdict, IgnoredRight
<1> QED
  BY <1>4, <1>5, <1>8

LEMMA OtherRight ==
  ASSUME TypeOK, NEW p \in Processes, NEW e \in Events, e.type = "exception"
  PROVE  Right(OtherException(p), p, e)
<1>1. monitor \in Monitors
  BY DEF TypeOK
<1> DEFINE new == [monitor EXCEPT !.otherProcessId = p, !.totalOtherExceptions = 0]
           more == [monitor EXCEPT !.totalOtherExceptions = @ + 1]
           over == [more EXCEPT !.sawAnException = TRUE]
<1>2. /\ new \in Monitors /\ new.sawAnException = monitor.sawAnException
      /\ new.totalExceptions = monitor.totalExceptions
      /\ new.otherProcessId = p /\ new.totalOtherExceptions = 0
  BY <1>1 DEF Monitors
<1>3. /\ more \in Monitors /\ more.sawAnException = monitor.sawAnException
      /\ more.totalExceptions = monitor.totalExceptions
      /\ more.otherProcessId = monitor.otherProcessId
      /\ more.totalOtherExceptions = monitor.totalOtherExceptions + 1
  BY <1>1 DEF Monitors
<1>4. \/ OtherException(p) = Verdict(new, "same", "none", "NOT_HANDLED")
      \/ /\ monitor.otherProcessId = p
         /\ \/ OtherException(p) = Verdict(more, "same", "none", "NOT_HANDLED")
            \/ /\ more.totalOtherExceptions > Limit
               /\ OtherException(p) = Verdict(over, "TOO_MANY_EXCEPTIONS", p, "NOT_HANDLED")
  BY DEF OtherException, Ignored
<1> HIDE DEF new, more
<1>5. /\ over \in Monitors /\ over.sawAnException = TRUE
      /\ over.totalExceptions = more.totalExceptions
      /\ over.otherProcessId = more.otherProcessId
      /\ over.totalOtherExceptions = more.totalOtherExceptions
  BY <1>3 DEF Monitors
<1> HIDE DEF over
<1>6. Sound(new, "same", "none", p) /\ CountsUp(new, "same", p, e)
  BY <1>2 DEF Sound, CountsUp
<1>7. monitor.otherProcessId = p => Sound(more, "same", "none", p) /\ CountsUp(more, "same", p, e)
  BY <1>3 DEF Sound, CountsUp
<1>8. monitor.otherProcessId = p /\ more.totalOtherExceptions > Limit =>
        /\ Sound(over, "TOO_MANY_EXCEPTIONS", p, p)
        /\ CountsUp(over, "TOO_MANY_EXCEPTIONS", p, e)
  BY <1>3, <1>5 DEF Sound, CountsUp, Answers
<1> QED
  BY <1>4, <1>6, <1>7, <1>8, RightVerdict

LEMMA JudgedRight ==
  ASSUME TypeOK, NEW p \in Processes, NEW e \in Events
  PROVE  Right(Judged(p, e), p, e)
BY IgnoredRight, MainRight, OtherRight DEF Judged

\* An exception of the child that comes back and is not reported is one that is not
\* taken for one, or the child goes on.
LEMMA Unreported ==
  ASSUME NEW e, e.kind \in Kinds, MainException(e).exception = "same"
  PROVE  e.first \/ e.kind = "MS_VC" \/ MainException(e).handling = "CONTINUE"
<1>1. \A x \in {"ABORT", "BREAKPOINT", "UNKNOWN_EXCEPTION"} : Counted(x).exception # "same"
  BY DEF Counted, Verdict
<1> SUFFICES ASSUME ~ e.first, e.kind # "MS_VC" PROVE MainException(e).handling = "CONTINUE"
  OBVIOUS
<1>2. CASE e.kind \in {"ABORT", "OTHER"}
  BY <1>1, <1>2 DEF MainException
<1>3. CASE e.kind = "ACCESS_VIOLATION"
  BY <1>3 DEF MainException, Verdict
<1>4. CASE e.kind = "BREAKPOINT"
  BY <1>1, <1>4 DEF MainException, Verdict
<1> QED
  BY <1>2, <1>3, <1>4 DEF Kinds

\* Where a process goes when its event is continued: away only after its last, and
\* to its last when it was terminated or an exception was not handled.
LEMMA ContinuedRecord ==
  ASSUME NEW r \in Records, NEW h, NEW c \in Continued(r, h)
  PROVE  /\ c \in Records
         /\ c.event # NoEvent => r.event.type # "exit"
         /\ c.event.type = "exception" => c.event.kind = r.event.kind /\ r.event.type = "exception"
         /\ r.event.type # "exit" =>
              /\ c.state = r.state \/ (c.state = "dying" /\ r.state # "stripped")
              /\ c.state \in {"dying", "stripped"} => c.event.type = "exit"
              /\ c.event.type = "exit" =>
                   /\ c.state \in {"dying", "stripped"}
                   /\ \/ r.state \in {"dying", "stripped"}
                      \/ r.event.type = "exception" /\ h # "CONTINUE" /\ ~ r.event.first
         /\ r.event.type = "exit" => c.state = "gone" /\ c.event = NoEvent
<1> DEFINE resumed == [r EXCEPT !.event = NoEvent]
           own == r.state
           last == IF r.state = "stripped" THEN r.state ELSE "dying"
           ended == Moved(r, last, Event("exit"))
           e == [r.event EXCEPT !.first = FALSE]
           again == [r EXCEPT !.event.first = FALSE]
           away == [resumed EXCEPT !.state = "gone"]
<1>1. /\ NoEvent \in Events /\ Event("exit") \in Events /\ NoEvent.type = "none"
      /\ Event("exit").type = "exit"
      /\ "dying" \in States /\ "gone" \in States /\ r.event \in Events
      /\ own \in States /\ own = r.state
  BY EventTypes DEF States, Present, Records
<1>2. e \in Events /\ e.type = r.event.type /\ e.kind = r.event.kind
  BY <1>1 DEF Events
<1>3. /\ resumed = Moved(r, own, NoEvent) /\ again = Moved(r, own, e)
      /\ ended = Moved(r, last, Event("exit")) /\ away = Moved(r, "gone", NoEvent)
      /\ ended = [r EXCEPT !.state = IF @ = "stripped" THEN @ ELSE "dying",
                           !.event = Event("exit")]
  BY DEF Records, Moved
<1>4. last \in States /\ (last = r.state \/ (last = "dying" /\ r.state # "stripped"))
      /\ last \in {"dying", "stripped"}
  BY <1>1
<1>5. IF r.event.type = "exit" THEN c = away
      ELSE IF r.state \in {"dying", "stripped"} THEN c = ended
      ELSE \/ c = resumed
           \/ r.event.type = "exception" /\ h # "CONTINUE" /\ r.event.first /\ c = again
           \/ r.event.type = "exception" /\ h # "CONTINUE" /\ ~ r.event.first /\ c = ended
  BY <1>3 DEF Continued
<1> HIDE DEF resumed, ended, again, away, last, own, e
<1>6. /\ resumed \in Records /\ resumed.state = r.state /\ resumed.event = NoEvent
      /\ again \in Records /\ again.state = r.state /\ again.event = e
      /\ ended \in Records /\ ended.state = last /\ ended.event = Event("exit")
      /\ away \in Records /\ away.state = "gone" /\ away.event = NoEvent
  <2>0. own \in States /\ NoEvent \in Events /\ e \in Events
    BY <1>1, <1>2
  <2>1. /\ Moved(r, own, NoEvent) \in Records /\ Moved(r, own, NoEvent).state = own
        /\ Moved(r, own, NoEvent).event = NoEvent
    BY <2>0, RecordUpdates
  <2>2. /\ Moved(r, own, e) \in Records /\ Moved(r, own, e).state = own
        /\ Moved(r, own, e).event = e
    BY <2>0, RecordUpdates
  <2>3. /\ Moved(r, last, Event("exit")) \in Records /\ Moved(r, last, Event("exit")).state = last
        /\ Moved(r, last, Event("exit")).event = Event("exit")
    BY <1>1, <1>4, RecordUpdates
  <2>4. /\ Moved(r, "gone", NoEvent) \in Records /\ Moved(r, "gone", NoEvent).state = "gone"
        /\ Moved(r, "gone", NoEvent).event = NoEvent
    BY <1>1, RecordUpdates
  <2> QED
    BY <1>1, <1>3, <2>1, <2>2, <2>3, <2>4
<1>7. CASE r.event.type = "exit"
  BY <1>1, <1>5, <1>6, <1>7
<1>8. CASE r.event.type # "exit" /\ c = resumed
  BY <1>1, <1>5, <1>6, <1>8
<1>9. CASE r.event.type = "exception" /\ c = again /\ r.state \notin {"dying", "stripped"}
  BY <1>1, <1>2, <1>6, <1>9
<1>10. CASE r.event.type # "exit" /\ c = ended
  BY <1>1, <1>4, <1>5, <1>6, <1>10
<1> QED
  BY <1>5, <1>7, <1>8, <1>9, <1>10

LEMMA TerminatedRecord ==
  ASSUME TypeOK, NEW p \in Processes, NEW ps \in Terminated(p)
  PROVE  /\ ps \in [Processes -> Records]
         /\ \A q \in Processes \ {p} : ps[q] = process[q]
         /\ ps[p].event = process[p].event
         /\ ps[p].state \in {"dying", "stripped"}
         /\ process[p].state = "stripped" => ps[p].state = "stripped"
<1>1. PICK s \in {"dying", "stripped"} :
             /\ ps = [process EXCEPT ![p].state = s]
             /\ process[p].state = "stripped" => s = "stripped"
  <2>1. PICK t \in {"dying", "stripped"} :
               ps = [process EXCEPT ![p].state = IF @ = "stripped" THEN @ ELSE t]
    BY DEF Terminated
  <2> QED
    BY <2>1 DEF TypeOK
<1> DEFINE r == Moved(process[p], s, process[p].event)
<1>2. process \in [Processes -> Records] /\ process[p] \in Records /\ s \in States
  BY DEF TypeOK, States, Present
<1>3. ps = [process EXCEPT ![p] = r] /\ r \in Records /\ r.state = s
      /\ r.event = process[p].event
  <2>1. [process[p] EXCEPT !.state = s] = r
    BY <1>2, RecordParts
  <2>2. process[p].event \in Events
    BY <1>2, RecordParts
  <2>3. r \in Records /\ r.state = s /\ r.event = process[p].event
    BY <1>2, <2>2, RecordUpdates
  <2>4. ps = [process EXCEPT ![p] = [process[p] EXCEPT !.state = s]]
    BY <1>1
  <2> HIDE DEF r
  <2> QED
    BY <2>1, <2>3, <2>4
<1> HIDE DEF r
<1> QED
  BY <1>1, <1>2, <1>3

LEMMA HandleStep ==
  ASSUME IInv, NEW p \in Processes, HandleEvent(p)
  PROVE  IInv'
<1> DEFINE e == process[p].event
           v == Judged(p, e)
<1>1. /\ TypeOK /\ e \in Events /\ process \in [Processes -> Records]
      /\ seen \in [Processes -> Nat] /\ monitor \in Monitors /\ Main \in Processes
  BY DEF IInv, TypeOK, Records, Processes
<1>2. /\ caller = "monitoring" /\ e # NoEvent /\ ~ (p = Main /\ e.type = "exit")
      /\ monitor' = v.monitor
      /\ outcome' = IF v.exception = "same" THEN outcome ELSE v.exception
      /\ \E ps \in IF v.terminate = "none" THEN {process} ELSE Terminated(v.terminate) :
           \E record \in Continued(ps[p], v.handling) :
             /\ process' = [ps EXCEPT ![p] = record]
             /\ ending' \in Endings(p, e, v.terminate, record)
      /\ seen' = [seen EXCEPT ![p] = IF e.type = "exception" /\ @ <= Limit + 1 THEN @ + 1 ELSE @]
      /\ UNCHANGED <<pipe, written, captured, drainer, caller, result>>
  BY DEF HandleEvent, Judged
<1>3. Right(v, p, e) /\ v.terminate \in {"none", p}
  BY <1>1, JudgedRight DEF Right, Sound
<1>0. p = Main /\ e.type = "exception" => v = MainException(e)
  BY DEF Judged
<1> HIDE DEF v
<1>4. PICK ps \in IF v.terminate = "none" THEN {process} ELSE Terminated(v.terminate) :
           \E record \in Continued(ps[p], v.handling) :
             /\ process' = [ps EXCEPT ![p] = record]
             /\ ending' \in Endings(p, e, v.terminate, record)
  BY <1>2
<1>5. /\ ps \in [Processes -> Records] /\ \A q \in Processes \ {p} : ps[q] = process[q]
      /\ ps[p].event = e
      /\ IF v.terminate = "none" THEN ps = process ELSE ps[p].state \in {"dying", "stripped"}
      /\ process[p].state = "stripped" => ps[p].state = "stripped"
  BY <1>1, <1>3, <1>4, TerminatedRecord
<1>6. PICK c \in Continued(ps[p], v.handling) :
             /\ process' = [ps EXCEPT ![p] = c]
             /\ ending' \in Endings(p, e, v.terminate, c)
  BY <1>4
<1>7. /\ c \in Records
      /\ c.event # NoEvent => e.type # "exit"
      /\ c.event.type = "exception" => c.event.kind = e.kind /\ e.type = "exception"
      /\ e.type # "exit" =>
           /\ c.state = ps[p].state \/ (c.state = "dying" /\ ps[p].state # "stripped")
           /\ c.state \in {"dying", "stripped"} => c.event.type = "exit"
           /\ c.event.type = "exit" =>
                /\ c.state \in {"dying", "stripped"}
                /\ \/ ps[p].state \in {"dying", "stripped"}
                   \/ e.type = "exception" /\ v.handling # "CONTINUE" /\ ~ e.first
      /\ e.type = "exit" => c.state = "gone" /\ c.event = NoEvent
  BY <1>1, <1>5, <1>6, ContinuedRecord
<1>8. /\ process' \in [Processes -> Records] /\ process'[p] = c
      /\ \A q \in Processes \ {p} : process'[q] = process[q]
  BY <1>5, <1>6, <1>7
<1> HIDE DEF e
<1>9. process[p].state \in Present /\ (e.type # "exit" => c.state \in Present)
  <2>1. process[p].state \in Present
    BY <1>2 DEF IInv, Held, e
  <2> QED
    BY <1>5, <1>7, <2>1 DEF Present
<1>10. \A q \in Processes : q \in Holders' => q \in Holders
  <2>1. \A q \in Processes \ {p} : q \in Holders' => q \in Holders
    BY <1>8 DEF Holders
  <2>2. p \in Holders' => c.state \in {"created", "running", "dying"}
    BY <1>8 DEF Holders
  <2>3. c.state \in {"created", "running", "dying"} => process[p].state # "stripped"
    BY <1>5, <1>7
  <2>4. process[p].state \in {"created", "running", "dying"} => p \in Holders
    BY DEF Holders
  <2> QED
    BY <1>9, <2>1, <2>2, <2>3, <2>4 DEF Present
<1>11. TypeOK'
  <2>1. monitor' \in Monitors /\ outcome' \in Answers \cup {"unset", "TIMEOUT"}
    BY <1>1, <1>2, <1>3 DEF Right, Sound, TypeOK
  <2>2. seen' \in [Processes -> Nat]
    BY <1>1, <1>2
  <2>3. ending' \in [cause : Causes, code : Int]
    <3>1. \A code \in Int : /\ Ending("terminated", code) \in [cause : Causes, code : Int]
                            /\ Ending(e.kind, code) \in [cause : Causes, code : Int]
      BY <1>1 DEF Ending, Causes, Events
    <3>2. WINDOWS_DEBUGGER_TERMINATED \in Int
      BY DEF WINDOWS_DEBUGGER_TERMINATED
    <3> QED
      BY <1>1, <1>6, <3>1, <3>2, SpawnAssumption DEF Endings, TypeOK
  <2> QED
    BY <1>1, <1>2, <1>8, <2>1, <2>2, <2>3 DEF TypeOK
<1>12. Output'
  BY <1>2 DEF IInv, Output
<1>13. Held'
  BY <1>7, <1>8, <1>9 DEF IInv, Held
<1>14. Threads'
  <2>1. process'[Main].state \in Present
    BY <1>1, <1>2, <1>8, <1>9 DEF IInv, Threads
  <2>2. Holders = {} => Holders' = {}
    BY <1>10 DEF Holders
  <2> QED
    BY <1>2, <2>1, <2>2 DEF IInv, Threads
<1>15. Counts'
  <2>1. /\ seen'[p] \in Nat /\ seen[p] <= seen'[p]
        /\ e.type = "exception" => seen'[p] = seen[p] + 1 \/ seen[p] > Limit
        /\ \A q \in Processes \ {p} : seen'[q] = seen[q]
    BY <1>1, <1>2, SpawnAssumption
  <2>2. \A q \in Processes : seen[q] \in Nat /\ seen'[q] \in Nat /\ seen[q] <= seen'[q]
    BY <1>1, <2>1
  <2>3. /\ monitor.totalExceptions \in Nat /\ monitor.totalOtherExceptions \in Nat
        /\ Limit \in Nat
    BY <1>1, SpawnAssumption DEF Monitors
  <2>4. /\ CountsUp(monitor', v.exception, p, e) /\ Counts
        /\ monitor' \in Monitors
    BY <1>2, <1>3 DEF Right, Sound, IInv
  <2>5. monitor'.totalExceptions <= seen'[Main] \/ seen'[Main] > Limit
    BY <1>1, <2>1, <2>2, <2>3, <2>4 DEF CountsUp, Counts
  <2>6. monitor'.otherProcessId \in Processes =>
          \/ monitor'.totalOtherExceptions <= seen'[monitor'.otherProcessId]
          \/ seen'[monitor'.otherProcessId] > Limit
    BY <1>1, <2>1, <2>2, <2>3, <2>4 DEF CountsUp, Counts
  <2>7. outcome' = "TOO_MANY_EXCEPTIONS" => \E q \in Processes : seen'[q] > Limit
    <3>1. CASE v.exception = "TOO_MANY_EXCEPTIONS"
      <4>1. monitor'.totalExceptions \in Nat /\ monitor'.totalOtherExceptions \in Nat
        BY <2>4 DEF Monitors
      <4> QED
        BY <1>1, <2>2, <2>3, <2>4, <2>5, <2>6, <3>1, <4>1 DEF CountsUp
    <3>2. CASE v.exception # "TOO_MANY_EXCEPTIONS" /\ outcome' = "TOO_MANY_EXCEPTIONS"
      <4>1. outcome = "TOO_MANY_EXCEPTIONS"
        BY <1>2, <3>2
      <4> QED
        BY <2>2, <2>3, <2>4, <4>1 DEF Counts
    <3> QED
      BY <3>1, <3>2
  <2> QED
    BY <2>5, <2>6, <2>7 DEF Counts
<1>16. Ended'
  <2>1. CASE p # Main
    <3>1. process'[Main] = process[Main] /\ ending' = ending
      BY <2>1, <1>1, <1>6, <1>8 DEF Endings
    <3>2. outcome' = "unset" => outcome = "unset"
      BY <1>2, <1>3 DEF Right, Sound, Answers
    <3> QED
      BY <1>2, <3>1, <3>2 DEF IInv, Ended
  <2>2. CASE p = Main
    <3>1. /\ e.type # "exit" /\ process'[Main] = c
          /\ e.type = "exception" => e.kind \in Kinds
          /\ process[Main].state \notin {"dying", "stripped"}
          /\ outcome = "unset" => ending.cause \in {"none", "exit", "MS_VC"}
      BY <2>2, <1>2, <1>8 DEF IInv, Ended, e
    <3>2. outcome' = "unset" => outcome = "unset" /\ v.exception = "same" /\ v.terminate = "none"
      BY <1>2, <1>3 DEF Right, Sound, Answers
    <3>3. CASE c.event.type # "exit"
      <4>1. ending' = ending
        BY <3>3, <1>6 DEF Endings
      <4> QED
        BY <1>2, <1>7, <3>1, <3>2, <3>3, <4>1 DEF Ended
    <3>4. CASE c.event.type = "exit" /\ v.terminate = Main
      <4>1. ending'.cause = "terminated"
        BY <2>2, <3>4, <1>6 DEF Endings, Ending
      <4>2. outcome' # "unset"
        BY <3>2, <3>4, SpawnAssumption DEF Processes
      <4> QED
        BY <1>2, <3>1, <3>4, <4>1, <4>2 DEF Ended
    <3>5. CASE c.event.type = "exit" /\ v.terminate # Main
      <4>1. ps = process
        BY <1>3, <1>5, <2>2, <3>5
      <4>2. e.type = "exception" /\ v.handling # "CONTINUE" /\ ~ e.first
        BY <1>7, <2>2, <3>1, <3>5, <4>1
      <4>3. ending'.cause = e.kind
        BY <2>2, <3>5, <1>6 DEF Endings, Ending
      <4>4. e.kind \in Kinds /\ e.kind # "none"
        BY <3>1, <4>2 DEF Kinds
      <4>5. outcome' = "unset" => e.kind = "MS_VC"
        BY <1>0, <2>2, <3>2, <4>2, <4>4, Unreported
      <4> QED
        BY <1>2, <3>1, <3>5, <4>3, <4>4, <4>5 DEF Ended
    <3> QED
      BY <3>3, <3>4, <3>5
  <2> QED
    BY <2>1, <2>2
<1>17. Verdicts'
  BY <1>2, <1>3 DEF IInv, Verdicts, Right, Sound, Answers
<1> QED
  BY <1>11, <1>12, <1>13, <1>14, <1>15, <1>16, <1>17 DEF IInv

\* The child has no event but its last, or the wait for one fails.
LEMMA MainExitedStep ==
  ASSUME IInv, MainExited
  PROVE  IInv'
<1>1. /\ TypeOK /\ process \in [Processes -> Records] /\ Main \in Processes
      /\ process[Main] \in Records
  BY DEF IInv, TypeOK, Processes
<1>2. /\ caller = "monitoring" /\ process[Main].event.type = "exit"
      /\ process' = [process EXCEPT ![Main] = Moved(process[Main], "gone", NoEvent)]
      /\ result' = IF monitor.sawAnException THEN -2 ELSE ending.code
      /\ caller' = "joining"
      /\ UNCHANGED <<ending, pipe, written, captured, drainer, monitor, outcome, seen>>
  BY DEF MainExited, Moved
<1>3. /\ process' \in [Processes -> Records] /\ process'[Main].state = "gone"
      /\ process'[Main].event = NoEvent
      /\ \A q \in Processes \ {Main} : process'[q] = process[q]
  <2>1. NoEvent \in Events /\ "gone" \in States
    BY EventTypes DEF States
  <2> QED
    BY <1>1, <1>2, <2>1, RecordUpdates
<1>4. Holders' = Holders \ {Main}
  BY <1>1, <1>3 DEF Holders
<1>5. TypeOK'
  BY <1>1, <1>2, <1>3 DEF TypeOK
<1>6. Held'
  BY <1>3 DEF IInv, Held
<1>7. Threads' /\ Output' /\ Counts'
  BY <1>2, <1>4 DEF IInv, Threads, Output, Counts
<1>8. Ended'
  BY <1>2, <1>3, EventTypes DEF Ended
<1>9. Verdicts'
  BY <1>2 DEF IInv, Verdicts, Ended
<1> QED
  BY <1>5, <1>6, <1>7, <1>8, <1>9 DEF IInv

LEMMA WaitFailsStep ==
  ASSUME IInv, WaitFails
  PROVE  IInv'
<1>1. /\ TypeOK /\ process \in [Processes -> Records] /\ Main \in Processes
  BY DEF IInv, TypeOK, Processes
<1>2. /\ caller = "monitoring" /\ process' \in Terminated(Main)
      /\ ending' = IF ending.cause = "none" THEN Ending("terminated", WINDOWS_DEBUGGER_TERMINATED)
                   ELSE ending
      /\ outcome' = "TIMEOUT" /\ result' = -2 /\ caller' = "joining"
      /\ UNCHANGED <<pipe, written, captured, drainer, monitor, seen>>
  BY DEF WaitFails
<1>3. /\ process' \in [Processes -> Records] /\ process'[Main].state \in {"dying", "stripped"}
      /\ process'[Main].event = process[Main].event
      /\ process[Main].state = "stripped" => process'[Main].state = "stripped"
      /\ \A q \in Processes \ {Main} : process'[q] = process[q]
  BY <1>1, <1>2, TerminatedRecord
<1>4. drainer \in {"reading", "ended"} /\ (drainer = "ended" => Holders' = {})
  <2>1. drainer # "none"
    BY <1>2 DEF IInv, Threads
  <2>2. drainer = "ended" => Holders = {} /\ process[Main].state = "stripped"
    BY <1>1, <1>2 DEF IInv, Threads, Holders, Present
  <2>3. drainer = "ended" => Holders' = {}
    BY <1>1, <1>3, <2>2 DEF Holders
  <2> QED
    BY <2>1, <2>3 DEF IInv, TypeOK
<1>5. TypeOK'
  <2>1. ending' \in [cause : Causes, code : Int]
    BY <1>1, <1>2 DEF TypeOK, Ending, Causes, WINDOWS_DEBUGGER_TERMINATED
  <2> QED
    BY <1>1, <1>2, <1>3, <2>1 DEF TypeOK
<1>6. Held'
  BY <1>3 DEF IInv, Held, Present
<1>7. Threads' /\ Output' /\ Counts'
  BY <1>2, <1>4 DEF IInv, Threads, Output, Counts
<1>8. Ended'
  BY <1>2, <1>3 DEF IInv, Ended
<1>9. Verdicts'
  BY <1>2 DEF IInv, Verdicts
<1> QED
  BY <1>5, <1>6, <1>7, <1>8, <1>9 DEF IInv

-----------------------------------------------------------------------------
(* debugSpawn() itself.                                                       *)

LEMMA SpawnStep ==
  ASSUME IInv, Spawn
  PROVE  IInv'
<1>1. /\ TypeOK /\ process \in [Processes -> Records] /\ Main \in Processes
      /\ process[Main] \in Records /\ caller = "spawning" /\ drainer = "none" /\ Holders = {}
      /\ outcome = "unset" /\ ~ monitor.sawAnException /\ ending.cause = "none"
      /\ UNCHANGED <<ending, pipe, written, captured, monitor, outcome, seen>>
  BY DEF IInv, TypeOK, Processes, Spawn, Threads, Verdicts
<1>2. CASE result' = -1 /\ caller' = "returned" /\ UNCHANGED <<process, drainer>>
  <2>1. Holders' = Holders /\ process[Main].state \notin {"created", "running"}
    BY <1>1, <1>2 DEF Holders
  <2>2. TypeOK' /\ Output' /\ Counts'
    BY <1>1, <1>2 DEF IInv, TypeOK, Output, Counts
  <2>3. Held' /\ Threads' /\ Ended' /\ Verdicts'
    BY <1>1, <1>2, <2>1 DEF IInv, Held, Threads, Ended, Verdicts
  <2> QED
    BY <2>2, <2>3 DEF IInv
<1>3. CASE /\ process' = [process EXCEPT ![Main].state = "created", ![Main].event = Event("create")]
           /\ caller' = "monitoring" /\ drainer' = "reading" /\ UNCHANGED result
  <2>1. process' = [process EXCEPT ![Main] = Moved(process[Main], "created", Event("create"))]
    BY <1>1, <1>3 DEF Moved
  <2>2. /\ process' \in [Processes -> Records] /\ process'[Main].state = "created"
        /\ process'[Main].event.type = "create"
        /\ \A q \in Processes \ {Main} : process'[q] = process[q]
    <3>1. Event("create") \in Events /\ Event("create").type = "create" /\ "created" \in States
      BY EventTypes DEF States, Present
    <3> QED
      BY <1>1, <2>1, <3>1, RecordUpdates
  <2>3. Main \in Holders'
    BY <1>1, <2>2 DEF Holders
  <2>4. TypeOK'
    BY <1>1, <1>3, <2>2 DEF TypeOK
  <2>5. Held'
    BY <2>2 DEF IInv, Held, Present
  <2>6. Threads' /\ Output' /\ Counts'
    BY <1>1, <1>3, <2>2, <2>3 DEF IInv, Threads, Output, Counts, Present
  <2>7. Ended' /\ Verdicts'
    BY <1>1, <1>3, <2>2 DEF IInv, Ended, Verdicts
  <2> QED
    BY <2>4, <2>5, <2>6, <2>7 DEF IInv
<1> QED
  BY <1>2, <1>3 DEF Spawn

LEMMA JoinStep ==
  ASSUME IInv, Join
  PROVE  IInv'
<1>1. /\ caller = "joining" /\ drainer = "ended" /\ caller' = "returned"
      /\ UNCHANGED <<process, ending, pipe, written, captured, drainer, monitor, outcome,
                     result, seen>>
  BY DEF Join
<1>2. Holders' = Holders
  BY <1>1 DEF Holders
<1>3. TypeOK' /\ Output' /\ Counts'
  BY <1>1 DEF IInv, TypeOK, Output, Counts
<1>4. Held' /\ Threads' /\ Ended' /\ Verdicts'
  BY <1>1, <1>2 DEF IInv, Held, Threads, Ended, Verdicts
<1> QED
  BY <1>3, <1>4 DEF IInv

-----------------------------------------------------------------------------
LEMMA Inductive == IInv /\ [Next]_vars => IInv'
<1> SUFFICES ASSUME IInv, [Next]_vars PROVE IInv'
  OBVIOUS
<1>1. CASE Spawn \/ Drain \/ Join \/ MainExited
  BY <1>1, SpawnStep, DrainStep, JoinStep, MainExitedStep
<1>2. CASE WaitFails \/ TimesOut
  BY <1>2, WaitFailsStep DEF TimesOut
<1>3. CASE \E p \in Processes : HandleEvent(p) \/ LoaderBreak(p) \/ Write(p)
  BY <1>3, HandleStep, LoaderBreakStep, WriteStep
<1>4. CASE \E p \in Processes : \/ \E code \in ExitCodes : Exit(p, code)
                               \/ \E q \in Others : StartOther(p, q)
  BY <1>4, ExitStep, StartOtherStep
<1>5. CASE \E p \in Processes : \/ Raise(p, Event("load"))
                               \/ \E k \in Kinds : Raise(p, Exception(k, TRUE))
  <2>1. /\ Event("load") \in Events /\ Event("load").type = "load"
        /\ \A k \in Kinds :
             /\ Exception(k, TRUE) \in Events /\ Exception(k, TRUE).type = "exception"
             /\ Exception(k, TRUE).kind = k
    BY EventTypes
  <2>2. ASSUME NEW p \in Processes, Raise(p, Event("load")) PROVE IInv'
    BY <2>1, <2>2, RaiseStep
  <2>3. ASSUME NEW p \in Processes, NEW k \in Kinds, Raise(p, Exception(k, TRUE)) PROVE IInv'
    <3> DEFINE e == Exception(k, TRUE)
    <3>1. e \in Events /\ e.type = "exception" /\ e.kind \in Kinds /\ Raise(p, e)
      BY <2>1, <2>3
    <3> HIDE DEF e
    <3> QED
      BY <3>1, RaiseStep
  <2> QED
    BY <1>5, <2>2, <2>3
<1>6. CASE UNCHANGED vars
  <2>1. Holders' = Holders
    BY <1>6 DEF vars, Holders
  <2> QED
    BY <1>6, <2>1 DEF vars, IInv, TypeOK, Output, Held, Threads, Counts, Ended, Verdicts
<1> QED
  BY <1>1, <1>2, <1>3, <1>4, <1>5, <1>6 DEF Next

LEMMA InductiveInvariant == Spec => []IInv
BY InitIInv, Inductive, PTL DEF Spec

\* A caller that has its answer has all the output of every process, in order:
\* every piece written is captured or in the pipe, and the drain that the caller
\* waited for ends on an empty pipe nobody can write to (process.cc 300-303, 532-544).
THEOREM OutputSafety == Spec => []OutputComplete
<1>1. IInv => OutputComplete
  <2> SUFFICES ASSUME IInv, caller = "returned" PROVE captured = written
    BY DEF OutputComplete
  <2>1. pipe = <<>> /\ captured \in Seq(Nat) /\ written = captured \o pipe
    BY DEF IInv, TypeOK, Threads, Output
  <2> QED
    BY <2>1, ConcatEmptySeq
<1> QED
  BY <1>1, InductiveInvariant, PTL

\* A child that an exception ended, or the loop, is never reported with an exit
\* value: where no exception is given it ended by itself, or of the one kind that is
\* not taken for an exception, and its own exit value is the answer; "too many" is
\* only said when a process raised more exceptions than the limit (process.cc 286-306,
\* 342-480).
THEOREM VerdictSafety == Spec => []VerdictRight
<1>1. IInv => VerdictRight
  BY DEF IInv, Counts, Verdicts, VerdictRight
<1> QED
  BY <1>1, InductiveInvariant, PTL

=============================================================================
