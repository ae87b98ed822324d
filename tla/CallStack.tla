------------------------------ MODULE CallStack ------------------------------
(* What the byte code interpreter promises about calls: they nest.  A frame    *)
(* is the code running in it, the next instruction and the words it has on     *)
(* the stack.  Only the innermost frame works; a call suspends it, and a       *)
(* return resumes it as it was suspended, its arguments replaced by results.   *)
EXTENDS Integers, Sequences

VARIABLES
  signature,  \* the words of arguments and results of each function
  frames,     \* the frames, the innermost last
  phase       \* "loaded", "running", "returned" or "failed"

vars == <<signature, frames, phase>>

Inner(n) == SubSeq(frames, 1, n)

\* Only the instruction and the level of frame n may have changed.
Progressed(n) == /\ Len(frames') >= n
                 /\ frames' = Inner(n - 1) \o SubSeq(frames', n, Len(frames'))
                 /\ frames'[n].code = frames[n].code

Fresh(f) == f.code \in DOMAIN signature /\ f.ip = 0 /\ f.level = 0

Init == frames = <<>> /\ phase = "loaded"

Begin == /\ phase = "loaded" /\ phase' = "running"
         /\ Len(frames') = 1 /\ Fresh(frames'[1])

Work == /\ phase = "running" /\ phase' \in {"running", "failed"}
        /\ Len(frames') = Len(frames) /\ Progressed(Len(frames))

Call == /\ phase = "running" /\ UNCHANGED phase
        /\ Len(frames') = Len(frames) + 1 /\ Progressed(Len(frames))
        /\ Fresh(frames'[Len(frames')])

Return == /\ phase = "running" /\ UNCHANGED phase
          /\ LET n == Len(frames)  s == signature[frames[n].code]
             IN  /\ n > 1
                 /\ frames' = [Inner(n - 1) EXCEPT ![n - 1].level = @ - s.args + s.results]

Finish == phase = "running" /\ Len(frames) = 1 /\ frames' = <<>> /\ phase' = "returned"

\* A start that is out of range.
Refuse == phase = "loaded" /\ phase' = "failed" /\ UNCHANGED frames

Next == (Begin \/ Work \/ Call \/ Return \/ Finish \/ Refuse) /\ UNCHANGED signature

Spec == Init /\ [][Next]_vars

=============================================================================
