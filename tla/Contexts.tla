------------------------------- MODULE Contexts -------------------------------
(* The execution contexts of the runtime: how a section of a file is started,   *)
(* how a program that runs starts another one with eval() (byte codes) or        *)
(* evalNative() (machine code), and what it learns of a run that fails.          *)
(*                                                                           *)
(* All byte code programs of a thread share one ExecutionContext and its stack;  *)
(* each native program has its own, with room for its arguments only, and runs   *)
(* on the stack of the thread, whose frames are abstracted to how many there are.*)
EXTENDS ExceptionTable

CONSTANTS
  Files,           \* [sections, readers]: the sections of a file, and the types of the
                   \* section readers in the order in which they registered
  Images,          \* the layouts of native programs (ExceptionTable)
  MaxRuns,         \* bound: programs started in all
  MaxOwn,          \* bound: words a byte code program keeps on the stack
  EvalFromNative   \* whether a native program may start a byte code program

VARIABLES
  contexts,  \* the ExecutionContexts, the one of the section first
  current,   \* threadContext
  runs,      \* the programs that run, the innermost last
  started,   \* programs started so far
  outcome,   \* what the last run returned, until its evaluator has taken it
  heard,     \* what the evaluator then made of it
  phase      \* "loading", "running", "exited", "refused" when nothing is run,
             \* or "lost" when an exception found no handler

vars == <<contexts, current, runs, started, outcome, heard, phase>>

Null == [none |-> TRUE]
NoFrame == [code |-> 0, ip |-> 0, fp |-> 0]
StackSize == 100   \* STACK_SIZE; no run comes near it
ArgumentWords == 2

ASSUME ContextsAssumption ==
  /\ MaxRuns \in Nat \ {0} /\ MaxOwn \in Nat
  /\ MaxRuns * (ArgumentWords + 1 + MaxOwn) <= StackSize

-----------------------------------------------------------------------------
(* Loading.                                                                   *)

\* Pxi::read(): of the sections some reader is for, the one whose reader
\* registered first; the first section of that type.
Best(file) ==
  LET Better(best, i) ==
        LET js == {j \in 1 .. best.priority - 1 : file.readers[j] = file.sections[i].type}
        IN  IF js = {} THEN best ELSE [section |-> i, priority |-> CHOOSE j \in js : \A k \in js : j <= k]
  IN  FoldLeft(Better, [section |-> 0, priority |-> Len(file.readers) + 1],
               [i \in DOMAIN file.sections |-> i])

\* The parts a reader reads in turn; a section is valid when each was there.
\* A native section is taken to be whole (see the README).
Parts(type) == IF type = "byte" THEN <<"header", "objects", "image", "relocations">>
               ELSE <<"header", "image">>
Valid(section) == section.read = Len(Parts(section.type))

ByteContext(objects) ==
  [native |-> FALSE, capacity |-> StackSize, stack |-> <<>>, frame |-> NoFrame, target |-> "none",
   objects |-> objects, args |-> 0, exception |-> Null, snapshot |-> <<>>]
NativeContext == [ByteContext(0) EXCEPT !.native = TRUE, !.capacity = ArgumentWords]

-----------------------------------------------------------------------------
(* The operations of a context c.                                             *)

Word(run, kind) == [run |-> run, kind |-> kind, frame |-> NoFrame]

\* push(): refused, which no caller of it here looks at, when the stack is full.
Push(c, word) == IF Len(c.stack) >= c.capacity THEN c ELSE [c EXCEPT !.stack = Append(@, word)]
PushArguments(c, run) == Push(Push([c EXCEPT !.args = run], Word(run, "args")), Word(run, "args"))

Unloaded(c) == [c EXCEPT !.frame = NoFrame]
StackState(c) == [frame |-> c.frame, sp |-> Len(c.stack), target |-> c.target]
Reloaded(c, saved) == [c EXCEPT !.frame = saved.frame, !.target = saved.target,
                                !.stack = SubSeq(@, 1, saved.sp)]
Invoked(c, run) ==
  LET pushed == Push(c, [Word(run, "link") EXCEPT !.frame = c.frame])
  IN  [pushed EXCEPT !.frame = [code |-> run, ip |-> 0, fp |-> Len(pushed.stack)]]

\* injectObjects(): the objects of a program follow those there are.
Injected(c) == [c EXCEPT !.objects = @ + 1]

\* snapshot(): the words from the top of the stack down to a level.
Snapshot(c, level) == [c EXCEPT !.snapshot = SubSeq(c.stack, level + 1, Len(c.stack))]
\* fetchSnapshot(): what a buffer of some words then holds.
Fetched(c, length) ==
  [i \in 1 .. length |-> IF i <= Len(c.snapshot) THEN c.snapshot[i] ELSE Word(0, "stray")]

-----------------------------------------------------------------------------

Inner == Last(runs)
Context == contexts[current]
Before == [current |-> current, context |-> Context]

\* A program, the context it runs in, what its start saved for its end, and what
\* its evaluator had then.
Run(context, saved, native) ==
  [id |-> started + 1, context |-> context, saved |-> saved, outer |-> current,
   native |-> native, before |-> Before]

Init ==
  /\ contexts = <<>> /\ current = 0 /\ runs = <<>> /\ started = 0
  /\ outcome = Null /\ heard = Null /\ phase = "loading"

\* Pxi::run() of a byte code section: its program runs in the section's context.
StartByteCode(entry, objects) ==
  LET c == Unloaded(PushArguments(ByteContext(objects), 1))
  IN  IF entry >= objects THEN phase' = "refused" /\ UNCHANGED <<contexts, current, runs, started>>
      ELSE /\ contexts' = <<[Invoked(c, 1) EXCEPT !.target = "byte"]>>
           /\ current' = 1 /\ started' = 1 /\ phase' = "running"
           /\ runs' = <<[id |-> 1, context |-> 1, saved |-> StackState(c), outer |-> 0,
                         native |-> FALSE, before |-> Null]>>

\* X86_64Section::run(): enter(), then the program as evalNative() runs it.
StartNative ==
  LET section == [NativeContext EXCEPT !.target = "native"]
      own == [PushArguments(NativeContext, 1) EXCEPT !.target = "native"]
  IN  /\ contexts' = <<section, own>> /\ current' = 2 /\ started' = 1 /\ phase' = "running"
      /\ runs' = <<[id |-> 1, context |-> 2, saved |-> Null, outer |-> 1, native |-> TRUE,
                    before |-> [current |-> 1, context |-> section]]>>

\* Pxi::load(), and the run of what it found.
Load(file, entry) ==
  /\ phase = "loading"
  /\ LET best == Best(file)
     IN  IF best.section = 0 \/ ~ Valid(file.sections[best.section])
         THEN phase' = "refused" /\ UNCHANGED <<contexts, current, runs, started>>
         ELSE IF file.sections[best.section].type = "byte" THEN StartByteCode(entry, 1) ELSE StartNative
  /\ UNCHANGED <<outcome, heard>>

Running == phase = "running" /\ outcome = Null

\* The innermost program takes back or puts down words of its own.
Worked(c, run, ip, n) ==
  [c EXCEPT !.frame.ip = ip, !.stack = SubSeq(@, 1, c.frame.fp) \o [i \in 1 .. n |-> Word(run, "own")]]
Work ==
  /\ Running /\ ~ Inner.native
  /\ \E n \in 0 .. MaxOwn, ip \in {0, 1} :
       contexts' = [contexts EXCEPT ![current] = Worked(@, Inner.id, ip, n)]
  /\ heard' = Null /\ UNCHANGED <<current, runs, started, outcome, phase>>

\* What a run leaves for its evaluator: the value it returned, and the failure
\* it had in truth, with the words of its own that were on the stack.
Ended(native, value, size, failed, words) ==
  outcome' = [native |-> native, value |-> value, size |-> size, failed |-> failed, words |-> words]

\* ByteCodesTarget.run(): the objects of the program are injected and it is
\* evaluated.  run() refuses a start that is out of range.
Eval(start) ==
  /\ Running /\ started < MaxRuns /\ (EvalFromNative \/ ~ Inner.native)
  /\ LET injected == Injected(Context)
         pushed == PushArguments(Unloaded(injected), started + 1)
         saved == StackState(Context)
     IN  IF start \in 0 .. injected.objects - 1
         THEN /\ contexts' = [contexts EXCEPT ![current] = [Invoked(pushed, started + 1) EXCEPT !.target = "byte"]]
              /\ runs' = Append(runs, Run(current, saved, FALSE))
              /\ UNCHANGED outcome
         ELSE /\ contexts' = [contexts EXCEPT ![current] = Reloaded(Snapshot(pushed, saved.sp), saved)]
              /\ Ended(FALSE, "INT_MIN", Len(pushed.stack) - saved.sp, TRUE,
                       <<Word(started + 1, "args"), Word(started + 1, "args")>>)
              /\ UNCHANGED runs
  /\ started' = started + 1 /\ heard' = Null
  /\ UNCHANGED <<current, phase>>

\* evalNative(), to the call of the entry point.
EvalNative ==
  /\ Running /\ started < MaxRuns
  /\ contexts' = Append(contexts, [PushArguments(NativeContext, started + 1) EXCEPT !.target = "native"])
  /\ current' = Len(contexts) + 1
  /\ runs' = Append(runs, Run(Len(contexts) + 1, Null, TRUE))
  /\ started' = started + 1 /\ heard' = Null /\ UNCHANGED <<outcome, phase>>

\* The innermost program ends; the section itself is the first one's evaluator.
Leave == runs' = Front(runs)

\* RET1 of the outermost frame: its result takes the place of the link, the
\* arguments stay, and eval() pops the one and drops the others.
Return(value) ==
  /\ Running /\ ~ Inner.native
  /\ LET c == Context
         returned == [c EXCEPT !.stack = Append(SubSeq(@, 1, c.frame.fp - 1), Word(Inner.id, "result")),
                               !.frame = NoFrame]
         popped == [returned EXCEPT !.stack = Front(@)]
     IN  contexts' = [contexts EXCEPT ![current] =
                        IF Len(runs) = 1 THEN popped ELSE Reloaded(popped, Inner.saved)]
  /\ Leave /\ Ended(FALSE, value, 0, FALSE, <<>>)
  /\ heard' = Null /\ UNCHANGED <<current, started, phase>>

\* What eval() makes of the context when run() returns false.
Failed(c, run) == Reloaded(Unloaded(Snapshot(c, run.saved.sp)), run.saved)

\* The words of a program among those of a stack, in their order.
Own(stack, run) ==
  LET own == {i \in DOMAIN stack : stack[i].run = run}
  IN  [k \in 1 .. Cardinality(own) |->
         stack[CHOOSE i \in own : Cardinality({j \in own : j < i}) = k - 1]]

\* A failure of the interpreter, or a fault of the hardware that it catches.
Fail ==
  /\ Running /\ ~ Inner.native
  /\ contexts' = [contexts EXCEPT ![current] = IF Len(runs) = 1 THEN @ ELSE Failed(@, Inner)]
  /\ Leave
  /\ Ended(FALSE, "INT_MIN", Len(Context.stack) - Inner.saved.sp, TRUE, Own(Context.stack, Inner.id))
  /\ heard' = Null /\ UNCHANGED <<current, started, phase>>

\* Defect: the copy of the stack stays in the context that goes away.
TransferredException(outer, inner) == [outer EXCEPT !.exception = inner.exception]

\* What evalNative() hands to the context outside.
Transferred(outer, inner) == [outer EXCEPT !.exception = inner.exception, !.snapshot = inner.snapshot]

\* Defect: the context of the thread is not set back.
RestoredInner(run) == run.context

\* The context of the thread once a native program has returned.
Restored(run) == run.outer

\* The end of evalNative(), which destroys the context of the program.
LeaveNative(inner) ==
  /\ contexts' = [Front(contexts) EXCEPT ![Inner.outer] = Transferred(@, inner)]
  /\ current' = Restored(Inner)
  /\ Leave
  /\ heard' = Null /\ UNCHANGED <<started, phase>>

ReturnNative(value) ==
  /\ Running /\ Inner.native
  /\ LeaveNative(Context)
  /\ Ended(TRUE, value, 0, FALSE, <<>>)

-----------------------------------------------------------------------------
(* Unwinding.                                                                 *)

StaticBlock(image) == Last(image).function

\* The segments of the static block are the last ones; some of them, and no other,
\* have as their handler the one that ends the image.  A segment may be empty.
IsLayout(image) ==
  /\ image \in Seq([function : STRING, length : Nat, handler : {0, Len(image)}]) \ {<<>>}
  /\ \A r, s \in DOMAIN image :
       r <= s /\ image[r].function = StaticBlock(image) => image[s].function = StaticBlock(image)
  /\ \A s \in DOMAIN image : image[s].handler # 0 => image[s].function = StaticBlock(image)
  /\ Last(image).handler = 0 /\ Offset(image, Len(image) + 1) < MaxInt

ASSUME ImagesAssumption == \A image \in Images : IsLayout(image)

Outside(image) == Offset(image, Len(image) + 1) + 5
Instructions(image, ss) == UNION {Offset(image, s) .. Offset(image, s + 1) - 1 : s \in ss}
\* A call takes at least two bytes.
ReturnAddresses(image, ss) == UNION {Offset(image, s) + 2 .. Offset(image, s + 1) : s \in ss}

\* The chains of frames generated code has on the stack: the static block, under
\* its handler, calls functions, and these others or functions of the runtime.
Chains(image) ==
  LET guarded == {s \in DOMAIN image : image[s].handler # 0}
      others == {s \in DOMAIN image : image[s].function # StaticBlock(image)}
      called == Instructions(image, others) \cup {Outside(image)}
  IN  {<<x>> : x \in Instructions(image, guarded)}
        \cup called \X ReturnAddresses(image, guarded)
        \cup called \X ReturnAddresses(image, others) \X ReturnAddresses(image, guarded)

\* How each of them unwinds: the frames there are, the frame whose handler is
\* called (0 where the program ends instead), and whether it is its own handler.
Unwindings ==
  UNION {UNION {{[frames |-> Len(frames), frame |-> IF t.handler = 0 THEN 0 ELSE t.frame,
                  own |-> t.handler = Offset(image, Len(image))] : t \in throwException(image, frames)}
                : frames \in Chains(image)} : image \in Images}

\* The context of a native program whose assertion fails or whose code faults:
\* the copy of the stack survives, and the exception names its size.
Raised(c, run, stack) ==
  [c EXCEPT !.snapshot = stack, !.exception = [run |-> run, size |-> Len(stack)]]

\* An assertion that fails or a fault in generated code.  The handler that is
\* called stores nothing more: the program returns 0.  Without one it ends.
Raise(u) ==
  /\ Running /\ Inner.native
  /\ LET stack == [i \in 1 .. u.frames |-> Word(Inner.id, "own")]
     IN  IF u.frame = u.frames /\ u.own
         THEN LeaveNative(Raised(Context, Inner.id, stack)) /\ Ended(TRUE, "0", 0, TRUE, stack)
         ELSE phase' = "lost" /\ UNCHANGED <<contexts, current, runs, started, outcome, heard>>

-----------------------------------------------------------------------------
(* The evaluator: ByteCodesTarget.run() and X86_64Encoder.run() after their     *)
(* call, and the sections of the runtime.                                     *)

\* A byte code program failed when it returned the least int.
TakeValue ==
  /\ outcome # Null /\ ~ outcome.native /\ runs # <<>>
  /\ LET said == outcome.value = "INT_MIN"
     IN  /\ contexts' = [contexts EXCEPT ![current].snapshot = IF said THEN <<>> ELSE @]
         /\ heard' = [outcome |-> outcome, failed |-> said,
                      words |-> IF said THEN Fetched(Context, outcome.size) ELSE <<>>]
  /\ outcome' = Null /\ UNCHANGED <<current, runs, started, phase>>

\* A native one did when there is an exception, which is taken away.
Taken(c) == [c EXCEPT !.exception = Null, !.snapshot = IF c.exception = Null THEN @ ELSE <<>>]
TakeException ==
  /\ outcome # Null /\ outcome.native
  /\ LET raised == Context.exception
     IN  /\ contexts' = [contexts EXCEPT ![current] = Taken(@)]
         /\ heard' = [outcome |-> outcome, failed |-> raised # Null,
                      words |-> IF raised = Null THEN <<>> ELSE Fetched(Context, raised.size)]
  /\ outcome' = Null
  /\ phase' = IF runs = <<>> THEN "exited" ELSE phase
  /\ UNCHANGED <<current, runs, started>>

\* ByteCodeSection::run() is told by run() whether the program failed, and reads
\* the stack itself.
EndByteCodeSection ==
  /\ outcome # Null /\ ~ outcome.native /\ runs = <<>>
  /\ phase' = "exited" /\ outcome' = Null
  /\ UNCHANGED <<contexts, current, runs, started, heard>>

Next ==
  \/ \E file \in Files, entry \in {0, 1} : Load(file, entry)
  \/ Work \/ EvalNative \/ Fail
  \/ \E start \in 0 .. MaxRuns + 1 : Eval(start)
  \/ \E value \in {"0", "INT_MIN"} : Return(value) \/ ReturnNative(value)
  \/ \E u \in Unwindings : Raise(u)
  \/ TakeValue \/ TakeException \/ EndByteCodeSection

Spec == Init /\ [][Next]_vars

=============================================================================
