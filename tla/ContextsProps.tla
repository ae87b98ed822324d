---------------------------- MODULE ContextsProps ----------------------------
(* What programs may rely on when they run others: they find their own state    *)
(* again, hear of every failure, and their exceptions reach their handler.      *)
EXTENDS Contexts

\* When a program has ended, its evaluator has the context of the thread, the
\* stack, the frame and the target it had when it started it, whether the program
\* returned, failed or raised, and whatever it started itself (runtime.cc 389-460,
\* unloadFrame to reloadFrame, threadContext).
CallerUntouched ==
  [][Len(runs') < Len(runs) /\ Inner.before # Null =>
       LET before == Inner.before.context  after == contexts'[current']
       IN  /\ current' = Inner.before.current
           /\ after.stack = before.stack /\ after.frame = before.frame
           /\ after.target = before.target]_vars

\* An evaluator hears of a failure exactly when there was one, except for a byte
\* code program that returns the least int, and the copy of the stack it then
\* fetches is the one of the program that failed, whole, and not of another that
\* ran before or inside it (runtime.cc 406-418, 447-456, 580-600).
FailureHeard ==
  heard # Null =>
    LET o == heard.outcome
    IN  /\ o.failed => heard.failed /\ heard.words = o.words
        /\ heard.failed => o.failed \/ (~ o.native /\ o.value = "INT_MIN")

\* An exception in generated code, raised in a function of the image or of the
\* runtime and at any depth, reaches the handler of the static block with that
\* block's frame: no entry of another function is taken for it, and the walk
\* does not end the process (executionContext.cc 44-120, x86_encode.p 613-690).
HandlerReached == phase # "lost"

\* A byte code program finds its arguments below its frame, whichever program
\* started it: the target of an execution can be chosen (main.p 102).
ArgumentsInPlace ==
  (runs # <<>> /\ ~ Inner.native) =>
    LET c == contexts[Inner.context]  fp == c.frame.fp
    IN  /\ fp > ArgumentWords
        /\ \A i \in fp - ArgumentWords .. fp :
              c.stack[i].run = Inner.id /\ c.stack[i].kind = (IF i = fp THEN "link" ELSE "args")

=============================================================================
