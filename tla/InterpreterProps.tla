-------------------------- MODULE InterpreterProps --------------------------
(* The properties of one run of a program by the interpreter.                *)
EXTENDS Interpreter

\* More frames than any run of the instances has.
CONSTANT MaxCalls

\* The frame pointers from the innermost frame out: each frame begins with
\* the one of its caller, and there is none outside of the first.
FramePointers ==
  LET fp[k \in 0 .. MaxCalls] ==
        IF k = 0 THEN m.fp
        ELSE IF fp[k - 1] \in DOMAIN m.mem THEN m.mem[fp[k - 1]] ELSE 0
  IN  fp

Frames ==
  LET fp == FramePointers
      depth == Cardinality({k \in 0 .. MaxCalls : fp[k] \in DOMAIN m.mem})
      Frame(k) == IF k = 0 THEN [code |-> m.code, ip |-> m.ip, level |-> m.fp - m.sp]
                  ELSE [code |-> m.mem[fp[k - 1] + 1], ip |-> m.mem[fp[k - 1] + 2],
                        level |-> fp[k] - (fp[k - 1] + FrameSize)]
  IN  [i \in 1 .. depth |-> Frame(depth - i)]

Signature ==
  LET code == {i \in 1 .. Len(Library) : Library[i].data = <<>>}
      Of(a) == Library[CHOOSE i \in code : Library[i].at = a]
  IN  [a \in {Library[i].at : i \in code} |-> [args |-> Of(a).args, results |-> Of(a).results]]

Calls == INSTANCE CallStack WITH
  signature <- [a \in DOMAIN Signature \cup {FirstValid} |->
                  IF a = FirstValid THEN [args |-> 0, results |-> 1] ELSE Signature[a]],
  frames <- Frames,
  phase <- IF status = "stopped" THEN "returned" ELSE status

\* Calls nest: a function never disturbs the frames of its callers, whatever
\* it stores and however it leaves, and comes back to the instruction after
\* the call with its arguments replaced by its results, also when it is called
\* through a vtable or an address and when its arguments vary in number.  A
\* run that fails leaves the frames standing that dumpStack() walks.
CallsNest == Calls!Spec

\* A run ends as the program means it to: with the value of its expression,
\* or in failure where an address, an instruction or an assertion is bad.
\* A value that is moved through memory, converted or compared on the way is
\* the same afterwards, and what lies beside it is not touched.
OutcomeRight ==
  /\ status = "stopped" => result \in program.outcomes
  /\ status = "failed" => program.outcomes = {}

TextOf(object) == IF object = 0 THEN program.text ELSE Library[object].text

\* What a trace shows is what is executed: disassemble(), which knows the
\* operands of every instruction a second time, reads those the instruction
\* has and shows the address it works on.  Of a run that fails dumpStack()
\* shows every call it was in, the innermost first, each where it goes on,
\* just behind a call, and dumpIp() the instruction that failed.
TraceRight ==
  /\ status = "running" =>
       /\ OperandsShown = Len(Text[m.ip + 1]) - 1
       /\ Op \in FrameOps \cup BelowFrameOps => AddressShown = FrameAddress(Op, Arg(1))
  /\ status = "failed" /\ Frames # <<>> =>
       /\ Len(DumpStack) = Len(Frames) - 1
       /\ \A k \in DOMAIN DumpStack :
            LET shown == DumpStack[k]  callOps == {"CALL", "ICALL", "VCALL"}
            IN  /\ shown.object \in 0 .. ObjectCount - 1
                /\ ValueAddress(shown.object) = Frames[Len(Frames) - k].code
                /\ shown.ip = Frames[Len(Frames) - k].ip
                /\ TextOf(shown.object)[shown.ip][1] \in callOps
       /\ DumpIp.object \in 0 .. ObjectCount - 1
       /\ m.ip # -1 => m.ip = DumpIp.ip + 1 /\ ValueAddress(DumpIp.object) = m.code

\* What is stored into a static variable of a pointer's width is what is loaded
\* from it: byteCodes.p calls the instruction "STore Static Pointer".
StaticPointerKept == status = "stopped" /\ program.text[3][1] = "STSA" => result = 1

=============================================================================
