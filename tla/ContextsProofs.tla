---------------------------- MODULE ContextsProofs ----------------------------
(* Proofs about execution contexts, for any images and files and any number of    *)
(* programs that the stack of a context has room for, as long as no native        *)
(* program starts a byte code program; and about the exception table of any       *)
(* layout of code.                                                                *)
EXTENDS ContextsProps, SequenceTheorems, FiniteSetTheorems, WellFoundedInduction, TLAPS

Frames == [code : Nat, ip : Nat, fp : Nat]
Words == [run : Nat, kind : {"args", "link", "own", "result"}, frame : Frames]
Targets == {"none", "byte", "native"}
Exceptions == [run : Nat, size : Nat]
Records ==
  [native : BOOLEAN, capacity : Nat, stack : Seq(Words), frame : Frames, target : Targets,
   objects : Nat, args : Nat, exception : Exceptions \cup {Null}, snapshot : Seq(Words)]
Saves == [frame : Frames, sp : Nat, target : Targets]
Befores == [current : Nat, context : Records]
Runs ==
  [id : Nat, context : Nat, saved : Saves \cup {Null}, outer : Nat, native : BOOLEAN,
   before : Befores \cup {Null}]

TypeOK ==
  /\ contexts \in Seq(Records) /\ current \in Nat /\ runs \in Seq(Runs) /\ started \in Nat
  /\ phase \in {"loading", "running", "exited", "refused", "lost"}

\* The context as the run i left it, when it started another, or has it now.
View(i) == IF i = Len(runs) THEN contexts[current] ELSE runs[i + 1].before.context

\* The words the context of a byte code program had when the program started.
Base(r) == IF r.before = Null THEN 0 ELSE r.saved.sp

\* A byte code program has its arguments, its link and what it keeps on the top of
\* the stack, and below them the stack as it found it.
Stacked(r, c) ==
  /\ c.frame.fp = Base(r) + ArgumentWords + 1
  /\ c.frame.fp <= Len(c.stack) /\ Len(c.stack) <= c.frame.fp + MaxOwn
  /\ \A j \in Base(r) + 1 .. Len(c.stack) : c.stack[j].run = r.id
  /\ \A j \in 1 .. Base(r) : c.stack[j].run < r.id
  /\ r.before # Null => \A j \in 1 .. Base(r) : c.stack[j] = r.before.context.stack[j]

Share == ArgumentWords + 1 + MaxOwn

Stacks ==
  \A i \in DOMAIN runs : ~ runs[i].native =>
    /\ Stacked(runs[i], View(i)) /\ Base(runs[i]) <= (i - 1) * Share
    /\ contexts[runs[i].context].capacity = StackSize

\* What a byte code program saved is what its evaluator had; the context outside
\* of a native program is as its evaluator left it.
Kept ==
  \A i \in DOMAIN runs :
    LET r == runs[i]
    IN  /\ r.before = Null <=> i = 1 /\ ~ r.native
        /\ r.before # Null /\ ~ r.native =>
             r.saved = StackState(r.before.context) /\ r.context = r.before.current
        /\ r.native =>
             /\ r.outer = r.before.current /\ r.context = r.outer + 1 /\ r.outer >= 1
             /\ contexts[r.outer].stack = r.before.context.stack
             /\ contexts[r.outer].frame = r.before.context.frame
             /\ contexts[r.outer].target = r.before.context.target

\* How runs and contexts nest.
Nest ==
  /\ \A i \in DOMAIN runs : runs[i].id <= started /\ runs[i].context >= 1
  /\ Len(runs) <= started /\ started <= MaxRuns
  /\ \A i, j \in DOMAIN runs : i <= j => runs[i].context <= runs[j].context
  /\ \A i \in DOMAIN runs : i > 1 => /\ runs[i].before.current = runs[i - 1].context
                                     /\ ~ runs[i].native => ~ runs[i - 1].native
  /\ runs # <<>> => current = Inner.context

Phases ==
  /\ phase # "running" => outcome = Null
  /\ phase \in {"loading", "refused"} => contexts = <<>> /\ runs = <<>> /\ started = 0
  /\ phase \in {"running", "exited", "lost"} => current = Len(contexts) /\ current >= 1
  /\ phase = "running" /\ outcome = Null => runs # <<>>

\* Nobody but the evaluator of a native program that failed finds an exception.
Exceptional ==
  \A k \in DOMAIN contexts :
    contexts[k].exception # Null => k = current /\ outcome # Null /\ outcome.native /\ outcome.failed

\* What an ended run left is what its evaluator will fetch.
Told ==
  outcome # Null =>
    /\ outcome.native => (outcome.failed <=> Context.exception # Null)
    /\ outcome.native /\ outcome.failed =>
         Context.exception.size = Len(outcome.words) /\ Context.snapshot = outcome.words
    /\ ~ outcome.native /\ outcome.failed /\ runs # <<>> =>
         /\ outcome.value = "INT_MIN" /\ outcome.size = Len(outcome.words)
         /\ Context.snapshot = outcome.words

IInv == TypeOK /\ Stacks /\ Kept /\ Nest /\ Phases /\ Exceptional /\ Told /\ FailureHeard

-----------------------------------------------------------------------------
(* The operations of a context.                                               *)

LEMMA WordTypes ==
  /\ NoFrame \in Frames /\ NoFrame.fp = 0
  /\ \A run \in Nat, kind \in {"args", "link", "own", "result"} : Word(run, kind) \in Words /\ Word(run, kind).run = run
BY DEF NoFrame, Frames, Words, Word

LEMMA LinkType ==
  ASSUME NEW run \in Nat, NEW f \in Frames
  PROVE  LET w == [Word(run, "link") EXCEPT !.frame = f] IN w \in Words /\ w.run = run
<1>1. Word(run, "link") \in Words /\ Word(run, "link").run = run
  BY WordTypes
<1> DEFINE w == Word(run, "link")
<1> HIDE DEF w, Frames
<1> QED
  BY <1>1 DEF Words, w

\* What differs between two contexts at most: the stack, the frame and the target.
Alike(c, d) ==
  /\ d.native = c.native /\ d.capacity = c.capacity
  /\ d.exception = c.exception /\ d.snapshot = c.snapshot

LEMMA PushFacts ==
  ASSUME NEW c \in Records, NEW w \in Words
  PROVE  /\ Push(c, w) \in Records /\ Alike(c, Push(c, w))
         /\ Push(c, w).frame = c.frame /\ Push(c, w).target = c.target
         /\ Len(c.stack) < c.capacity => Push(c, w).stack = Append(c.stack, w)
<1> DEFINE s == Append(c.stack, w)
<1>1. c.stack \in Seq(Words) /\ s \in Seq(Words) /\ c.capacity \in Nat
  BY DEF Records
<1>2. Push(c, w) = IF Len(c.stack) >= c.capacity THEN c ELSE [c EXCEPT !.stack = s]
  BY DEF Push, Records
<1> HIDE DEF s, Words, Frames, Exceptions
<1>3. /\ [c EXCEPT !.stack = s] \in Records /\ Alike(c, [c EXCEPT !.stack = s])
      /\ [c EXCEPT !.stack = s].frame = c.frame /\ [c EXCEPT !.stack = s].target = c.target
      /\ [c EXCEPT !.stack = s].stack = s
  BY <1>1 DEF Records, Alike
<1>4. CASE Len(c.stack) >= c.capacity
  BY <1>1, <1>2, <1>4 DEF Alike
<1>5. CASE ~ (Len(c.stack) >= c.capacity)
  BY <1>2, <1>3, <1>5 DEF s
<1> QED
  BY <1>4, <1>5

LEMMA PushArgumentsFacts ==
  ASSUME NEW c \in Records, NEW run \in Nat
  PROVE  LET d == PushArguments(c, run)
         IN  /\ d \in Records /\ Alike(c, d) /\ d.frame = c.frame /\ d.target = c.target
             /\ Len(c.stack) + 2 <= c.capacity =>
                  /\ Len(d.stack) = Len(c.stack) + 2
                  /\ \A j \in 1 .. Len(c.stack) : d.stack[j] = c.stack[j]
                  /\ \A j \in Len(c.stack) + 1 .. Len(c.stack) + 2 : d.stack[j] = Word(run, "args")
<1> DEFINE w == Word(run, "args")
           a == [c EXCEPT !.args = run]
           b == Push(a, w)
           d == Push(b, w)
<1>1. w \in Words
  BY WordTypes
<1>2. /\ a \in Records /\ Alike(c, a) /\ a.frame = c.frame /\ a.target = c.target
      /\ a.stack = c.stack
  <2> HIDE DEF Words, Frames, Exceptions
  <2> QED
    BY DEF Records, Alike
<1> HIDE DEF w, a
<1>3. /\ b \in Records /\ Alike(a, b) /\ b.frame = a.frame /\ b.target = a.target
      /\ Len(a.stack) < a.capacity => b.stack = Append(a.stack, w)
  BY <1>1, <1>2, PushFacts
<1> HIDE DEF b
<1>4. /\ d \in Records /\ Alike(b, d) /\ d.frame = b.frame /\ d.target = b.target
      /\ Len(b.stack) < b.capacity => d.stack = Append(b.stack, w)
  BY <1>1, <1>3, PushFacts
<1>5. PushArguments(c, run) = d
  BY DEF PushArguments, a, b, w
<1> HIDE DEF d
<1>6. Alike(c, d) /\ d.frame = c.frame /\ d.target = c.target
  BY <1>2, <1>3, <1>4 DEF Alike
<1>7. ASSUME Len(c.stack) + 2 <= c.capacity
      PROVE  d.stack = Append(Append(c.stack, w), w)
  <2>1. c.stack \in Seq(Words) /\ c.capacity \in Nat
    BY DEF Records
  <2>2. b.stack = Append(c.stack, w) /\ b.capacity = c.capacity
    BY <1>2, <1>3, <1>7, <2>1 DEF Alike
  <2>3. Len(b.stack) = Len(c.stack) + 1
    BY <1>1, <2>1, <2>2
  <2> QED
    BY <1>4, <1>7, <2>1, <2>2, <2>3
<1>8. ASSUME Len(c.stack) + 2 <= c.capacity
      PROVE  /\ Len(d.stack) = Len(c.stack) + 2
             /\ \A j \in 1 .. Len(c.stack) : d.stack[j] = c.stack[j]
             /\ \A j \in Len(c.stack) + 1 .. Len(c.stack) + 2 : d.stack[j] = w
  <2>1. c.stack \in Seq(Words)
    BY DEF Records
  <2> QED
    BY <1>1, <1>7, <1>8, <2>1
<1> QED
  BY <1>4, <1>5, <1>6, <1>8 DEF w

LEMMA UnloadedFacts ==
  ASSUME NEW c \in Records
  PROVE  /\ Unloaded(c) \in Records /\ Alike(c, Unloaded(c))
         /\ Unloaded(c).stack = c.stack /\ Unloaded(c).target = c.target
<1>1. NoFrame \in Frames
  BY WordTypes
<1> HIDE DEF Words, Frames, Exceptions, NoFrame
<1> QED
  BY <1>1 DEF Records, Alike, Unloaded

LEMMA InjectedFacts ==
  ASSUME NEW c \in Records
  PROVE  /\ Injected(c) \in Records /\ Alike(c, Injected(c))
         /\ Injected(c).stack = c.stack
<1> HIDE DEF Words, Frames, Exceptions
<1> QED
  BY DEF Records, Alike, Injected

Begun(c, run) == [Invoked(c, run) EXCEPT !.target = "byte"]

\* The frame of a program that starts is past its arguments and its link.
LEMMA InvokedFacts ==
  ASSUME NEW c \in Records, NEW run \in Nat, Len(c.stack) < c.capacity
  PROVE  LET d == Begun(c, run)
         IN  /\ d \in Records /\ Alike(c, d)
             /\ d.frame.fp = Len(c.stack) + 1 /\ Len(d.stack) = Len(c.stack) + 1
             /\ \A j \in 1 .. Len(c.stack) : d.stack[j] = c.stack[j]
             /\ d.stack[Len(c.stack) + 1].run = run
<1> DEFINE w == [Word(run, "link") EXCEPT !.frame = c.frame]
           p == Push(c, w)
           f == [code |-> run, ip |-> 0, fp |-> Len(p.stack)]
           d == [[p EXCEPT !.frame = f] EXCEPT !.target = "byte"]
<1>1. c.frame \in Frames /\ c.stack \in Seq(Words)
  BY DEF Records
<1>2. w \in Words /\ w.run = run
  BY <1>1, LinkType
<1> HIDE DEF w
<1>3. /\ p \in Records /\ Alike(c, p) /\ p.stack = Append(c.stack, w)
  BY <1>2, PushFacts
<1>4. Begun(c, run) = d
  BY DEF Begun, Invoked, w
<1> HIDE DEF p
<1>5. Len(p.stack) = Len(c.stack) + 1 /\ Len(p.stack) \in Nat
  BY <1>1, <1>2, <1>3
<1>6. f \in Frames /\ f.fp = Len(p.stack)
  BY <1>5 DEF Frames
<1> HIDE DEF f
<1>7. d \in Records /\ Alike(p, d) /\ d.frame = f /\ d.stack = p.stack
  <2> HIDE DEF Words, Frames, Exceptions
  <2> QED
    BY <1>3, <1>6 DEF Records, Alike, Targets
<1> HIDE DEF d
<1> QED
  BY <1>1, <1>2, <1>3, <1>4, <1>5, <1>6, <1>7 DEF Alike

\* A byte code program that starts on a stack with room for it.
LEMMA GrownFacts ==
  ASSUME NEW c \in Records, NEW run \in Nat, Len(c.stack) + 3 <= c.capacity
  PROVE  LET d == Begun(PushArguments(c, run), run)
         IN  /\ d \in Records /\ Alike(c, d)
             /\ d.frame.fp = Len(c.stack) + 3 /\ Len(d.stack) = Len(c.stack) + 3
             /\ \A j \in 1 .. Len(c.stack) : d.stack[j] = c.stack[j]
             /\ \A j \in Len(c.stack) + 1 .. Len(d.stack) : d.stack[j].run = run
<1> DEFINE p == PushArguments(c, run)
           d == Begun(p, run)
<1>1. c.stack \in Seq(Words) /\ Len(c.stack) \in Nat /\ c.capacity \in Nat
  BY DEF Records
<1> HIDE DEF d
<1>2. /\ p \in Records /\ Alike(c, p)
      /\ Len(p.stack) = Len(c.stack) + 2
      /\ \A j \in 1 .. Len(c.stack) : p.stack[j] = c.stack[j]
      /\ \A j \in Len(c.stack) + 1 .. Len(c.stack) + 2 : p.stack[j] = Word(run, "args")
  <2>1. Len(c.stack) + 2 <= c.capacity
    BY <1>1
  <2> HIDE DEF Records, Alike
  <2> QED
    BY <2>1, PushArgumentsFacts
<1>3. Word(run, "args").run = run
  BY WordTypes
<1> HIDE DEF p
<1>4. Len(p.stack) < p.capacity
  BY <1>1, <1>2 DEF Alike
<1>5. /\ d \in Records /\ Alike(p, d)
      /\ d.frame.fp = Len(p.stack) + 1 /\ Len(d.stack) = Len(p.stack) + 1
      /\ \A j \in 1 .. Len(p.stack) : d.stack[j] = p.stack[j]
      /\ d.stack[Len(p.stack) + 1].run = run
  BY <1>2, <1>4, InvokedFacts DEF d
<1> HIDE DEF d
<1>6. Alike(c, d)
  BY <1>2, <1>5 DEF Alike
<1>7. d.frame.fp = Len(c.stack) + 3 /\ Len(d.stack) = Len(c.stack) + 3
  BY <1>1, <1>2, <1>5
<1>8. \A j \in 1 .. Len(c.stack) : d.stack[j] = c.stack[j]
  BY <1>1, <1>2, <1>5
<1>9. ASSUME NEW j \in Len(c.stack) + 1 .. Len(d.stack) PROVE d.stack[j].run = run
  <2>1. CASE j = Len(p.stack) + 1
    BY <1>5, <2>1
  <2>2. CASE j # Len(p.stack) + 1
    <3>1. j \in 1 .. Len(p.stack) /\ j \in Len(c.stack) + 1 .. Len(c.stack) + 2
      BY <1>1, <1>2, <1>7, <2>2
    <3> QED
      BY <1>2, <1>3, <1>5, <3>1
  <2> QED
    BY <2>1, <2>2
<1> QED
  BY <1>5, <1>6, <1>7, <1>8, <1>9 DEF p, d

LEMMA SnapshotFacts ==
  ASSUME NEW c \in Records, NEW n \in 0 .. Len(c.stack)
  PROVE  LET d == Snapshot(c, n)
         IN  /\ d \in Records /\ d.snapshot = SubSeq(c.stack, n + 1, Len(c.stack))
             /\ d.stack = c.stack /\ d.frame = c.frame /\ d.target = c.target
             /\ d.capacity = c.capacity /\ d.exception = c.exception
<1> DEFINE s == SubSeq(c.stack, n + 1, Len(c.stack))
<1>1. c.stack \in Seq(Words) /\ s \in Seq(Words)
  <2>1. c.stack \in Seq(Words)
    BY DEF Records
  <2> QED
    BY <2>1, SubSeqProperties
<1>2. Snapshot(c, n) = [c EXCEPT !.snapshot = s]
  BY DEF Snapshot
<1> HIDE DEF s, Words, Frames, Exceptions
<1>3. LET d == [c EXCEPT !.snapshot = s]
      IN  /\ d \in Records /\ d.snapshot = s
          /\ d.stack = c.stack /\ d.frame = c.frame /\ d.target = c.target
          /\ d.capacity = c.capacity /\ d.exception = c.exception
  BY <1>1 DEF Records
<1> QED
  BY <1>2, <1>3 DEF s

LEMMA ReloadedFacts ==
  ASSUME NEW c \in Records, NEW saved \in Saves, saved.sp <= Len(c.stack)
  PROVE  LET d == Reloaded(c, saved)
         IN  /\ d \in Records /\ Alike(c, d)
             /\ d.frame = saved.frame /\ d.target = saved.target
             /\ Len(d.stack) = saved.sp
             /\ \A j \in 1 .. saved.sp : d.stack[j] = c.stack[j]
<1> DEFINE s == SubSeq(c.stack, 1, saved.sp)
<1>1. /\ c.stack \in Seq(Words) /\ saved.sp \in Nat /\ saved.frame \in Frames
      /\ saved.target \in Targets
  BY DEF Records, Saves
<1>2. /\ s \in Seq(Words) /\ Len(s) = saved.sp
      /\ \A j \in 1 .. saved.sp : s[j] = c.stack[j]
  BY <1>1
<1>3. Reloaded(c, saved) = [[[c EXCEPT !.frame = saved.frame] EXCEPT !.target = saved.target]
                              EXCEPT !.stack = s]
  BY DEF Reloaded, Records
<1> HIDE DEF s
<1>4. LET d == [[[c EXCEPT !.frame = saved.frame] EXCEPT !.target = saved.target] EXCEPT !.stack = s]
      IN  /\ d \in Records /\ Alike(c, d) /\ d.stack = s
          /\ d.frame = saved.frame /\ d.target = saved.target
  <2> HIDE DEF Words, Frames, Exceptions, Targets
  <2> QED
    BY <1>1, <1>2 DEF Records, Alike
<1> QED
  BY <1>2, <1>3, <1>4

\* A result is pushed in the place of the link, and popped.
Popped(c, run) ==
  LET returned == [c EXCEPT !.stack = Append(SubSeq(@, 1, c.frame.fp - 1), Word(run, "result")),
                            !.frame = NoFrame]
  IN  [returned EXCEPT !.stack = Front(@)]

LEMMA PoppedFacts ==
  ASSUME NEW c \in Records, NEW run \in Nat, 1 <= c.frame.fp, c.frame.fp <= Len(c.stack)
  PROVE  LET d == Popped(c, run)
         IN  /\ d \in Records /\ Alike(c, d)
             /\ Len(d.stack) = c.frame.fp - 1
             /\ \A j \in 1 .. c.frame.fp - 1 : d.stack[j] = c.stack[j]
<1> DEFINE n == c.frame.fp - 1
           s == SubSeq(c.stack, 1, n)
           w == Word(run, "result")
           t == Append(s, w)
<1>1. c.stack \in Seq(Words) /\ n \in Nat /\ n <= Len(c.stack) /\ w \in Words
  <2>1. c.stack \in Seq(Words) /\ c.frame.fp \in Nat
    BY DEF Records, Frames
  <2> QED
    BY <2>1, WordTypes
<1>2. /\ s \in Seq(Words) /\ Len(s) = n /\ \A j \in 1 .. n : s[j] = c.stack[j]
  BY <1>1
<1> HIDE DEF s, w
<1>3. t \in Seq(Words) /\ Front(t) = s
  BY <1>1, <1>2 DEF Front
<1>4. LET d == [[c EXCEPT !.stack = t] EXCEPT !.frame = NoFrame]
      IN  /\ d \in Records /\ Alike(c, d) /\ d.stack = t
  <2>1. NoFrame \in Frames
    BY WordTypes
  <2> HIDE DEF t, Words, Frames, Exceptions, NoFrame
  <2> QED
    BY <1>3, <2>1 DEF Records, Alike
<1> DEFINE r == [[c EXCEPT !.stack = t] EXCEPT !.frame = NoFrame]
           d == [r EXCEPT !.stack = s]
<1>5. Popped(c, run) = d
  <2>1. Popped(c, run) = [r EXCEPT !.stack = Front(@)]
    BY DEF Popped, s, w
  <2> HIDE DEF t
  <2> QED
    BY <1>3, <1>4, <2>1
<1> HIDE DEF r
<1>6. d \in Records /\ Alike(r, d) /\ d.stack = s
  <2> HIDE DEF Words, Frames, Exceptions
  <2> QED
    BY <1>2, <1>4 DEF r, Records, Alike
<1> QED
  BY <1>2, <1>4, <1>5, <1>6 DEF r, Alike

LEMMA ConcatFacts ==
  ASSUME NEW s \in Seq(Words), NEW t \in Seq(Words)
  PROVE  /\ s \o t \in Seq(Words) /\ Len(s \o t) = Len(s) + Len(t)
         /\ \A j \in 1 .. Len(s) : (s \o t)[j] = s[j]
         /\ \A j \in Len(s) + 1 .. Len(s) + Len(t) : (s \o t)[j] = t[j - Len(s)]
<1> HIDE DEF Words
<1>1. Len(s) \in Nat /\ Len(t) \in Nat
  OBVIOUS
<1> QED
  BY <1>1, ConcatProperties

LEMMA WorkedFacts ==
  ASSUME NEW c \in Records, NEW run \in Nat, NEW ip \in Nat, NEW n \in Nat,
         c.frame.fp <= Len(c.stack)
  PROVE  LET d == Worked(c, run, ip, n)
         IN  /\ d \in Records /\ Alike(c, d) /\ d.frame.fp = c.frame.fp
             /\ Len(d.stack) = c.frame.fp + n
             /\ \A j \in 1 .. c.frame.fp : d.stack[j] = c.stack[j]
             /\ \A j \in c.frame.fp + 1 .. Len(d.stack) : d.stack[j].run = run
<1> DEFINE f == [c.frame EXCEPT !.ip = ip]
           s == SubSeq(c.stack, 1, c.frame.fp)
           t == [i \in 1 .. n |-> Word(run, "own")]
           u == s \o t
           e == [[c EXCEPT !.frame = f] EXCEPT !.stack = u]
<1>1. c.stack \in Seq(Words) /\ c.frame \in Frames /\ c.frame.fp \in Nat
  BY DEF Records, Frames
<1>2. f \in Frames /\ f.fp = c.frame.fp
  BY <1>1 DEF Frames
<1>3. Word(run, "own") \in Words /\ Word(run, "own").run = run
  BY WordTypes
<1>4. /\ s \in Seq(Words) /\ Len(s) = c.frame.fp
      /\ \A j \in 1 .. c.frame.fp : s[j] = c.stack[j]
  BY <1>1
<1>5. /\ t \in Seq(Words) /\ Len(t) = n /\ \A j \in 1 .. n : t[j] = Word(run, "own")
  BY <1>3
<1>6. Worked(c, run, ip, n) = e
  BY DEF Worked, Records
<1> HIDE DEF f, s, t
<1>7. /\ u \in Seq(Words) /\ Len(u) = c.frame.fp + n
      /\ \A j \in 1 .. c.frame.fp : u[j] = c.stack[j]
      /\ \A j \in c.frame.fp + 1 .. c.frame.fp + n : u[j].run = run
  <2>1. /\ s \o t \in Seq(Words) /\ Len(s \o t) = Len(s) + Len(t)
        /\ \A j \in 1 .. Len(s) : (s \o t)[j] = s[j]
        /\ \A j \in Len(s) + 1 .. Len(s) + Len(t) : (s \o t)[j] = t[j - Len(s)]
    BY ONLY <1>4, <1>5, ConcatFacts
  <2>2. \A j \in c.frame.fp + 1 .. c.frame.fp + n : j - c.frame.fp \in 1 .. n
    BY <1>1
  <2> QED
    BY <1>3, <1>4, <1>5, <2>1, <2>2
<1> HIDE DEF u
<1>8. e \in Records /\ Alike(c, e) /\ e.frame = f /\ e.stack = u
  <2> HIDE DEF Words, Frames, Exceptions
  <2> QED
    BY <1>2, <1>7 DEF Records, Alike
<1> HIDE DEF e
<1> QED
  BY <1>2, <1>6, <1>7, <1>8

LEMMA IntervalSize ==
  ASSUME NEW a \in Int, NEW b \in Int, a <= b + 1
  PROVE  Cardinality(a .. b) = b - a + 1
<1>1. Cardinality(a .. b) = IF a > b THEN 0 ELSE b - a + 1
  BY FS_Interval
<1> QED
  BY <1>1

\* The words of a program that are on top of a stack are all from where it began.
LEMMA OwnFacts ==
  ASSUME NEW stack \in Seq(Words), NEW run \in Nat, NEW n \in 0 .. Len(stack),
         \A j \in 1 .. n : stack[j].run # run,
         \A j \in n + 1 .. Len(stack) : stack[j].run = run
  PROVE  /\ Own(stack, run) = SubSeq(stack, n + 1, Len(stack))
         /\ Own(stack, run) \in Seq(Words) /\ Len(Own(stack, run)) = Len(stack) - n
<1> DEFINE own == {i \in DOMAIN stack : stack[i].run = run}
           s == SubSeq(stack, n + 1, Len(stack))
           at(k) == CHOOSE i \in own : Cardinality({j \in own : j < i}) = k - 1
<1>1. Len(stack) \in Nat /\ n \in Nat /\ n <= Len(stack) /\ DOMAIN stack = 1 .. Len(stack)
  OBVIOUS
<1>2. own = n + 1 .. Len(stack)
  BY <1>1
<1>3. Cardinality(own) = Len(stack) - n
  <2>1. Cardinality(n + 1 .. Len(stack)) = Len(stack) - n
    BY <1>1, IntervalSize
  <2> HIDE DEF own
  <2> QED
    BY <1>2, <2>1
<1>4. ASSUME NEW i \in own PROVE Cardinality({j \in own : j < i}) = i - n - 1
  <2> HIDE DEF own
  <2>1. i \in Int /\ n + 1 <= i /\ {j \in own : j < i} = n + 1 .. i - 1
    BY <1>1, <1>2
  <2>2. Cardinality(n + 1 .. i - 1) = i - n - 1
    BY <1>1, <2>1, IntervalSize
  <2> QED
    BY <2>1, <2>2
<1> HIDE DEF own
<1>5. ASSUME NEW k \in 1 .. Len(stack) - n PROVE at(k) = n + k
  <2>1. n + k \in own /\ Cardinality({j \in own : j < n + k}) = k - 1
    <3>1. n + k \in own
      BY <1>1, <1>2
    <3> QED
      BY <1>1, <1>4, <3>1
  <2>2. at(k) \in own /\ Cardinality({j \in own : j < at(k)}) = k - 1
    BY <2>1
  <2> HIDE DEF at
  <2>3. at(k) - n - 1 = k - 1
    BY <1>4, <2>2
  <2>4. at(k) \in Int /\ n \in Int /\ k \in Int
    <3>1. at(k) \in n + 1 .. Len(stack)
      BY <1>2, <2>2
    <3> QED
      BY <1>1, <3>1
  <2> QED
    BY <2>3, <2>4
<1>6. /\ s \in Seq(Words) /\ Len(s) = Len(stack) - n
      /\ \A k \in 1 .. Len(stack) - n : s[k] = stack[n + k]
  BY <1>1
<1>7. Own(stack, run) = [k \in 1 .. Cardinality(own) |-> stack[at(k)]]
  BY DEF Own, own
<1> HIDE DEF s, at
<1>8. Own(stack, run) = [k \in 1 .. Len(stack) - n |-> s[k]]
  BY <1>3, <1>5, <1>6, <1>7
<1>9. s = [k \in 1 .. Len(stack) - n |-> s[k]]
  BY <1>6
<1> QED
  BY <1>6, <1>8, <1>9 DEF s

\* A fetch of as many words as were copied is the whole copy.
LEMMA FetchedFacts ==
  ASSUME NEW c \in Records
  PROVE  Fetched(c, Len(c.snapshot)) = c.snapshot
<1>1. c.snapshot \in Seq(Words)
  BY DEF Records
<1>2. Fetched(c, Len(c.snapshot)) = [i \in 1 .. Len(c.snapshot) |-> c.snapshot[i]]
  BY DEF Fetched
<1> QED
  BY <1>1, <1>2

LEMMA TransferredFacts ==
  ASSUME NEW c \in Records, NEW d \in Records
  PROVE  LET e == Transferred(c, d)
         IN  /\ e \in Records /\ e.exception = d.exception /\ e.snapshot = d.snapshot
             /\ e.stack = c.stack /\ e.frame = c.frame /\ e.target = c.target
             /\ e.capacity = c.capacity
<1> HIDE DEF Words, Frames, Exceptions
<1> QED
  BY DEF Records, Transferred

LEMMA RaisedFacts ==
  ASSUME NEW c \in Records, NEW run \in Nat, NEW stack \in Seq(Words)
  PROVE  LET d == Raised(c, run, stack)
         IN  /\ d \in Records /\ d.snapshot = stack
             /\ d.exception # Null /\ d.exception.size = Len(stack)
<1> DEFINE x == [run |-> run, size |-> Len(stack)]
<1>1. x \in Exceptions /\ x # Null /\ x.size = Len(stack)
  <2>1. "run" \in DOMAIN x /\ "run" \notin DOMAIN Null
    BY DEF Null
  <2> QED
    BY <2>1 DEF Exceptions
<1>2. Raised(c, run, stack) = [[c EXCEPT !.snapshot = stack] EXCEPT !.exception = x]
  BY DEF Raised, Records
<1> HIDE DEF x
<1>3. LET d == [[c EXCEPT !.snapshot = stack] EXCEPT !.exception = x]
      IN  d \in Records /\ d.snapshot = stack /\ d.exception = x
  <2> HIDE DEF Words, Frames, Exceptions, Null
  <2> QED
    BY <1>1 DEF Records
<1> QED
  BY <1>1, <1>2, <1>3

-----------------------------------------------------------------------------
(* What every program that runs finds.                                        *)

LEMMA ContextFacts ==
  ASSUME IInv, phase \in {"running", "exited", "lost"}
  PROVE  /\ contexts \in Seq(Records) /\ current \in DOMAIN contexts /\ Context \in Records
         /\ current \in Nat /\ current = Len(contexts)
BY DEF IInv, TypeOK, Phases, Context

LEMMA RunFields ==
  ASSUME NEW r \in Runs
  PROVE  /\ r.id \in Nat /\ r.context \in Nat /\ r.outer \in Nat /\ r.native \in BOOLEAN
         /\ r.saved \in Saves \cup {Null} /\ r.before \in Befores \cup {Null}
<1> HIDE DEF Saves, Befores, Null
<1> QED
  BY DEF Runs

LEMMA InnerFacts ==
  ASSUME IInv, runs # <<>>
  PROVE  /\ runs \in Seq(Runs) /\ Len(runs) \in Nat \ {0} /\ Len(runs) \in DOMAIN runs
         /\ Inner = runs[Len(runs)] /\ Inner \in Runs /\ DOMAIN runs = 1 .. Len(runs)
         /\ Inner.context = current /\ View(Len(runs)) = Context
BY DEF IInv, TypeOK, Nest, Inner, Last, View, Context

\* The context outside of a native program is outside of the one that runs.
LEMMA OutsideFacts ==
  ASSUME IInv, NEW i \in DOMAIN runs
  PROVE  /\ runs[i] \in Runs /\ runs[i].context <= current
         /\ runs[i].native => runs[i].outer \in 1 .. runs[i].context - 1
<1>1. runs # <<>> /\ runs \in Seq(Runs)
  BY DEF IInv, TypeOK
<1>2. runs[i].context <= current /\ runs[i] \in Runs /\ runs[i].context \in Nat /\ runs[i].outer \in Nat
  <2>1. /\ Len(runs) \in DOMAIN runs /\ runs[Len(runs)].context = current /\ i <= Len(runs)
    BY <1>1, InnerFacts
  <2>2. runs[i].context <= runs[Len(runs)].context
    BY <2>1 DEF IInv, Nest
  <2> QED
    BY <1>1, <2>1, <2>2, RunFields
<1>3. runs[i].native => runs[i].outer >= 1 /\ runs[i].context = runs[i].outer + 1
  BY DEF IInv, Kept
<1> QED
  BY <1>2, <1>3

\* A turn of a program that starts and ends none.
LEMMA SameRuns ==
  ASSUME IInv, phase = "running", phase' \in {"running", "exited"}, NEW d \in Records,
         contexts' = [contexts EXCEPT ![current] = d], UNCHANGED <<current, runs>>,
         started' \in {started, started + 1}, started' <= MaxRuns,
         d.capacity = Context.capacity,
         runs # <<>> /\ ~ Inner.native => Stacked(Inner, d),
         phase' = "running" \/ outcome' = Null, phase' = "running" /\ outcome' = Null => runs # <<>>
  PROVE  TypeOK' /\ Stacks' /\ Kept' /\ Nest' /\ Phases'
<1>1. /\ contexts \in Seq(Records) /\ current \in 1 .. Len(contexts) /\ current \in Nat
      /\ current = Len(contexts) /\ started \in Nat /\ runs \in Seq(Runs)
  BY ContextFacts DEF IInv, TypeOK
<1>2. /\ contexts' \in Seq(Records) /\ Len(contexts') = Len(contexts) /\ contexts'[current] = d
      /\ \A k \in 1 .. Len(contexts) : k # current => contexts'[k] = contexts[k]
  BY <1>1
<1>3. TypeOK' /\ Phases'
  BY <1>1, <1>2 DEF IInv, TypeOK, Phases
<1>4. Nest'
  <2>1. Nest /\ \A i \in DOMAIN runs : runs[i].id \in Nat
    BY <1>1, RunFields DEF IInv
  <2>2. Inner' = Inner /\ Len(runs) \in Nat
    BY <1>1 DEF Inner
  <2> QED
    BY <1>1, <2>1, <2>2 DEF Nest
<1>5. Stacks'
  <2> SUFFICES ASSUME NEW i \in DOMAIN runs, ~ runs[i].native
               PROVE  /\ Stacked(runs[i], View(i)') /\ Base(runs[i]) <= (i - 1) * Share
                      /\ contexts'[runs[i].context].capacity = StackSize
    BY DEF Stacks, Stacked, Base, Share
  <2>1. /\ Stacked(runs[i], View(i)) /\ Base(runs[i]) <= (i - 1) * Share
        /\ contexts[runs[i].context].capacity = StackSize
    BY DEF IInv, Stacks
  <2>2. contexts'[runs[i].context].capacity = StackSize
    <3>1. runs[i].context \in 1 .. Len(contexts)
      <4>1. runs[i].context <= current /\ runs[i].context \in Nat
        BY OutsideFacts, RunFields
      <4>2. runs[i].context >= 1
        BY DEF IInv, Nest
      <4> QED
        BY <1>1, <4>1, <4>2
    <3> QED
      BY <1>1, <1>2, <2>1, <3>1 DEF Context
  <2>3. CASE i = Len(runs)
    <3>1. View(i)' = d /\ runs # <<>> /\ Inner = runs[i]
      BY <1>1, <1>2, <2>3 DEF View, Inner, Last
    <3> QED
      BY <2>1, <2>2, <3>1
  <2>4. CASE i # Len(runs)
    BY <2>1, <2>2, <2>4 DEF View
  <2> QED
    BY <2>3, <2>4
<1>6. Kept'
  <2>1. ASSUME NEW i \in DOMAIN runs, runs[i].native
        PROVE  contexts'[runs[i].outer] = contexts[runs[i].outer]
    <3>1. runs[i].outer \in 1 .. runs[i].context - 1 /\ runs[i].context <= current /\ runs[i].context \in Nat
      BY <2>1, OutsideFacts, RunFields
    <3> QED
      BY <1>1, <1>2, <3>1
  <2> QED
    BY <2>1 DEF IInv, Kept
<1> QED
  BY <1>3, <1>4, <1>5, <1>6

\* A program starts: in a context of its own, or above the one that runs.
LEMMA Pushed ==
  ASSUME IInv, phase = "running", UNCHANGED phase, runs # <<>>, NEW r \in Runs,
         runs' = Append(runs, r), contexts' \in Seq(Records),
         started' = started + 1, started < MaxRuns,
         r.id = started + 1, r.before = Before, r.outer = current, r.context = current',
         current' = Len(contexts'), \A k \in 1 .. current : k # current' => contexts'[k] = contexts[k],
         r.native => current' = current + 1,
         ~ r.native =>
           /\ current' = current /\ ~ Inner.native /\ r.saved = StackState(Context)
           /\ contexts'[current].capacity = Context.capacity
           /\ Stacked(r, contexts'[current]) /\ Base(r) <= Len(runs) * Share
  PROVE  TypeOK' /\ Stacks' /\ Kept' /\ Nest' /\ Phases'
<1>0. PICK n \in Nat : n = Len(runs)
  BY InnerFacts
<1>1. /\ contexts \in Seq(Records) /\ current \in 1 .. Len(contexts) /\ current \in Nat
      /\ current = Len(contexts) /\ started \in Nat /\ runs \in Seq(Runs) /\ Context \in Records
      /\ Len(runs) = n /\ Inner = runs[n] /\ Inner.context = current /\ View(n) = Context
      /\ current' \in {current, current + 1}
  <2>1. current' \in {current, current + 1}
    BY RunFields
  <2> QED
    BY <1>0, <2>1, ContextFacts, InnerFacts DEF IInv, TypeOK
<1>9. n >= 1 /\ current \in Nat /\ current >= 1 /\ current' \in {current, current + 1}
  <2>1. Len(runs) \in Nat \ {0}
    BY InnerFacts
  <2> QED
    BY <1>0, <1>1, <2>1
<1>2. /\ runs' \in Seq(Runs) /\ Len(runs') = n + 1 /\ runs'[n + 1] = r
      /\ \A i \in 1 .. n : runs'[i] = runs[i]
      /\ DOMAIN runs = 1 .. n /\ DOMAIN runs' = 1 .. n + 1
  BY <1>1
<1>3. /\ r.before # Null /\ r.before.current = current /\ r.before.context = Context
  <2>1. "current" \in DOMAIN Before /\ "current" \notin DOMAIN Null
    BY DEF Before, Null
  <2> QED
    BY <2>1 DEF Before
<1>4. TypeOK' /\ Phases'
  BY <1>1, <1>2 DEF IInv, TypeOK, Phases
<1>5. Nest'
  <2>1. \A i \in 1 .. n : /\ runs[i].id <= started /\ runs[i].id \in Nat
                          /\ runs[i].context >= 1 /\ runs[i].context <= current
                          /\ runs[i].context \in Nat
    BY <1>2, OutsideFacts, RunFields DEF IInv, Nest
  <2>2. \A i \in 1 .. n + 1 : runs'[i].id <= started' /\ runs'[i].context >= 1
    <3> SUFFICES ASSUME NEW i \in 1 .. n + 1
                 PROVE  runs'[i].id <= started' /\ runs'[i].context >= 1
      OBVIOUS
    <3>1. CASE i \in 1 .. n
      BY <1>1, <1>2, <2>1, <3>1
    <3>2. CASE i = n + 1
      BY <1>1, <1>2, <1>9, <3>2
    <3>3. i \in 1 .. n \/ i = n + 1
      BY <1>9
    <3> QED
      BY <3>1, <3>2, <3>3
  <2>3. ASSUME NEW i \in 1 .. n + 1, NEW j \in 1 .. n + 1, i <= j
        PROVE  runs'[i].context <= runs'[j].context
    <3>1. CASE j <= n
      <4>1. i \in 1 .. n /\ j \in 1 .. n
        BY <1>1, <2>3, <3>1
      <4> QED
        BY <1>2, <2>3, <4>1 DEF IInv, Nest
    <3>2. CASE j = n + 1 /\ i <= n
      <4>1. i \in 1 .. n
        BY <1>1, <3>2
      <4> QED
        BY <1>1, <1>2, <2>1, <3>2, <4>1
    <3>3. CASE j = n + 1 /\ i = n + 1
      BY <1>1, <1>2, <3>3
    <3> QED
      BY <1>1, <2>3, <3>1, <3>2, <3>3
  <2>4. ASSUME NEW i \in 1 .. n + 1, i > 1
        PROVE  /\ runs'[i].before.current = runs'[i - 1].context
               /\ ~ runs'[i].native => ~ runs'[i - 1].native
    <3>1. CASE i <= n
      <4>1. i \in 1 .. n /\ i - 1 \in 1 .. n
        BY <1>1, <2>4, <3>1
      <4> QED
        BY <1>2, <2>4, <4>1 DEF IInv, Nest
    <3>2. CASE i = n + 1
      <4>1. n \in 1 .. n /\ i - 1 = n
        BY <1>9, <3>2
      <4>2. runs'[i] = r /\ runs'[i - 1] = Inner
        BY <1>1, <1>2, <3>2, <4>1
      <4> QED
        BY <1>1, <1>3, <4>2
    <3>3. i <= n \/ i = n + 1
      BY <1>9
    <3> QED
      BY <3>1, <3>2, <3>3
  <2>5. Len(runs') <= started' /\ started' <= MaxRuns
    BY <1>1, <1>2, ContextsAssumption DEF IInv, Nest
  <2>6. Inner' = r
    BY <1>1, <1>2 DEF Inner, Last
  <2> QED
    BY <1>2, <2>2, <2>3, <2>4, <2>5, <2>6 DEF Nest
<1>6. \A i \in 1 .. n : View(i)' = View(i)
  <2>1. \A i \in 1 .. n : i # n => View(i)' = View(i)
    BY <1>1, <1>2 DEF View
  <2>2. View(n)' = Context
    BY <1>1, <1>2, <1>3 DEF View
  <2> QED
    BY <1>1, <2>1, <2>2
<1>7. Stacks'
  <2> SUFFICES ASSUME NEW i \in 1 .. n + 1, ~ runs'[i].native
               PROVE  /\ Stacked(runs'[i], View(i)') /\ Base(runs'[i]) <= (i - 1) * Share
                      /\ contexts'[runs'[i].context].capacity = StackSize
    BY <1>2 DEF Stacks, Stacked, Base, Share
  <2>1. ~ runs[n].native => contexts[current].capacity = StackSize
    <3>1. n \in DOMAIN runs /\ runs[n].context = current
      BY <1>1, <1>2, <1>9
    <3> QED
      BY <3>1 DEF IInv, Stacks
  <2>2. CASE i <= n
    <3>1. i \in 1 .. n
      BY <1>1, <2>2
    <3>2. /\ Stacked(runs[i], View(i)) /\ Base(runs[i]) <= (i - 1) * Share
          /\ contexts[runs[i].context].capacity = StackSize
      BY <1>2, <3>1 DEF IInv, Stacks
    <3>3. runs[i].context \in 1 .. current
      <4>1. runs[i].context <= current /\ runs[i].context \in Nat /\ runs[i].context >= 1
        BY <1>2, <3>1, OutsideFacts, RunFields DEF IInv, Nest
      <4> QED
        BY <1>9, <4>1
    <3>4. contexts'[runs[i].context].capacity = StackSize
      <4>1. CASE runs[i].context # current'
        BY <3>2, <3>3, <4>1
      <4>2. CASE runs[i].context = current'
        <5>1. current' = current /\ ~ r.native
          BY <1>1, <3>3, <4>2, RunFields
        <5> QED
          BY <3>2, <4>2, <5>1 DEF Context
      <4> QED
        BY <4>1, <4>2
    <3> QED
      BY <1>2, <1>6, <3>1, <3>2, <3>4
  <2>3. CASE i = n + 1
    <3>1. View(i)' = contexts'[current'] /\ runs'[i] = r
      BY <1>2, <2>3 DEF View
    <3>2. i - 1 = Len(runs)
      BY <1>1, <1>9, <2>3
    <3>3. ~ r.native
      BY <3>1
    <3> HIDE DEF Share
    <3>4. Stacked(r, contexts'[current']) /\ Base(r) <= (i - 1) * Share
      BY <3>2, <3>3
    <3> QED
      BY <1>1, <2>1, <3>1, <3>3, <3>4 DEF Context
  <2> QED
    BY <1>1, <2>2, <2>3
<1>8. Kept'
  <2> SUFFICES ASSUME NEW i \in 1 .. n + 1
               PROVE  LET q == runs'[i]
                      IN  /\ q.before = Null <=> i = 1 /\ ~ q.native
                          /\ q.before # Null /\ ~ q.native =>
                               q.saved = StackState(q.before.context) /\ q.context = q.before.current
                          /\ q.native =>
                               /\ q.outer = q.before.current /\ q.context = q.outer + 1 /\ q.outer >= 1
                               /\ contexts'[q.outer].stack = q.before.context.stack
                               /\ contexts'[q.outer].frame = q.before.context.frame
                               /\ contexts'[q.outer].target = q.before.context.target
    BY <1>2 DEF Kept
  <2>1. CASE i <= n
    <3>1. i \in 1 .. n /\ runs'[i] = runs[i]
      BY <1>1, <1>2, <2>1
    <3>2. runs[i].native => contexts'[runs[i].outer] = contexts[runs[i].outer]
      <4>1. runs[i].native => runs[i].outer \in 1 .. current - 1
        <5>1. /\ runs[i].context <= current /\ runs[i].context \in Nat
              /\ runs[i].native => runs[i].outer \in 1 .. runs[i].context - 1
          BY <1>2, <3>1, OutsideFacts, RunFields
        <5> QED
          BY <1>9, <5>1
      <4>2. runs[i].native => runs[i].outer \in 1 .. current /\ runs[i].outer # current'
        BY <1>9, <4>1
      <4> QED
        BY <4>2
    <3>3. LET q == runs[i]
          IN  /\ q.before = Null <=> i = 1 /\ ~ q.native
              /\ q.before # Null /\ ~ q.native =>
                   q.saved = StackState(q.before.context) /\ q.context = q.before.current
              /\ q.native =>
                   /\ q.outer = q.before.current /\ q.context = q.outer + 1 /\ q.outer >= 1
                   /\ contexts[q.outer].stack = q.before.context.stack
                   /\ contexts[q.outer].frame = q.before.context.frame
                   /\ contexts[q.outer].target = q.before.context.target
      BY <1>2, <3>1 DEF IInv, Kept
    <3> QED
      BY <3>1, <3>2, <3>3
  <2>2. CASE i = n + 1 /\ r.native
    <3>1. contexts'[current] = Context
      BY <1>1, <2>2 DEF Context
    <3> QED
      BY <1>1, <1>2, <1>3, <2>2, <3>1
  <2>3. CASE i = n + 1 /\ ~ r.native
    BY <1>2, <1>3, <2>3
  <2> QED
    BY <1>1, <2>1, <2>2, <2>3
<1> QED
  BY <1>4, <1>5, <1>7, <1>8

\* The innermost program ends, and the one that started it has what it had.
LEMMA Left ==
  ASSUME IInv, phase = "running", UNCHANGED <<phase, started>>, runs # <<>>, outcome' # Null,
         runs' = Front(runs), contexts' \in Seq(Records),
         current' = Len(contexts'), current' = IF Inner.native THEN Inner.outer ELSE current,
         \A k \in 1 .. current' - 1 : contexts'[k] = contexts[k],
         contexts'[current'].capacity = contexts[current'].capacity,
         Inner.before # Null =>
           /\ contexts'[current'].stack = Inner.before.context.stack
           /\ contexts'[current'].frame = Inner.before.context.frame
  PROVE  TypeOK' /\ Stacks' /\ Kept' /\ Nest' /\ Phases'
<1>0. PICK n \in Nat : n = Len(runs)
  BY InnerFacts
<1>1. /\ contexts \in Seq(Records) /\ current \in 1 .. Len(contexts) /\ current \in Nat
      /\ current = Len(contexts) /\ started \in Nat /\ runs \in Seq(Runs) /\ Context \in Records
      /\ Len(runs) = n /\ Inner = runs[n] /\ Inner.context = current /\ View(n) = Context
      /\ DOMAIN runs = 1 .. n /\ n \in DOMAIN runs
  BY <1>0, ContextFacts, InnerFacts DEF IInv, TypeOK
<1>9. n >= 1 /\ current \in Nat /\ current >= 1 /\ \A i \in 1 .. n - 1 : i \in 1 .. n /\ i + 1 \in 1 .. n
  <2>1. Len(runs) \in Nat \ {0}
    BY InnerFacts
  <2> QED
    BY <1>0, <1>1, <2>1
<1>2. /\ runs' \in Seq(Runs) /\ Len(runs') = n - 1 /\ DOMAIN runs' = 1 .. n - 1
      /\ \A i \in 1 .. n - 1 : runs'[i] = runs[i]
  BY <1>1 DEF Front
<1>3. current' \in Nat /\ current' >= 1 /\ current' <= current
  <2>2. Len(contexts') \in Nat
    BY LenProperties
  <2>1. Inner.native => Inner.outer \in 1 .. current - 1
    BY <1>1, OutsideFacts, RunFields
  <2> QED
    BY <1>1, <2>1, <2>2, RunFields
<1>4. n > 1 => current' = runs[n - 1].context /\ Inner.before # Null
  <2>1. Inner.before = Null => n = 1
    BY <1>1 DEF IInv, Kept
  <2>2. n > 1 => Inner.before.current = runs[n - 1].context
    BY <1>1 DEF IInv, Nest
  <2>3. Inner.before # Null => current' = Inner.before.current
    BY <1>1 DEF IInv, Kept
  <2> QED
    BY <1>1, <2>1, <2>2, <2>3
<1>5. TypeOK' /\ Phases'
  <2>1. TypeOK'
    BY <1>1, <1>2, <1>3 DEF TypeOK
  <2> QED
    BY <1>3, <2>1 DEF Phases
<1>6. Nest'
  <2>1. \A i \in 1 .. n - 1 : i \in 1 .. n
    BY <1>1
  <2>2. runs' # <<>> => n > 1 /\ Inner' = runs[n - 1]
    BY <1>1, <1>2 DEF Inner, Last
  <2>3. \A i \in 1 .. n - 1 : runs'[i].id <= started' /\ runs'[i].context >= 1
    BY <1>1, <1>2, <2>1 DEF IInv, Nest
  <2>4. Len(runs') <= started' /\ started' <= MaxRuns
    BY <1>1, <1>2 DEF IInv, Nest
  <2>5. \A i, j \in 1 .. n - 1 : i <= j => runs'[i].context <= runs'[j].context
    BY <1>1, <1>2, <2>1 DEF IInv, Nest
  <2>6. \A i \in 1 .. n - 1 : i > 1 => /\ runs'[i].before.current = runs'[i - 1].context
                                       /\ ~ runs'[i].native => ~ runs'[i - 1].native
    <3>1. \A i \in 1 .. n - 1 : i > 1 => i - 1 \in 1 .. n - 1
      BY <1>1
    <3> QED
      BY <1>1, <1>2, <2>1, <3>1 DEF IInv, Nest
  <2> QED
    BY <1>2, <1>4, <2>2, <2>3, <2>4, <2>5, <2>6 DEF Nest
<1>7. Stacks'
  <2> SUFFICES ASSUME NEW i \in 1 .. n - 1, ~ runs'[i].native
               PROVE  /\ Stacked(runs'[i], View(i)') /\ Base(runs'[i]) <= (i - 1) * Share
                      /\ contexts'[runs'[i].context].capacity = StackSize
    BY <1>2 DEF Stacks, Stacked, Base, Share
  <2>7. runs'[i] = runs[i]
    BY <1>2
  <2>1. i \in 1 .. n /\ i # n /\ i + 1 \in 1 .. n
    BY <1>1
  <2>2. /\ Stacked(runs[i], View(i)) /\ Base(runs[i]) <= (i - 1) * Share
        /\ contexts[runs[i].context].capacity = StackSize
    BY <1>1, <2>1, <2>7 DEF IInv, Stacks
  <2>3. runs[i].context \in 1 .. current'
    <3>1. runs[i].context \in Nat /\ runs[i].context >= 1
      BY <1>1, <2>1, OutsideFacts, RunFields DEF IInv, Nest
    <3>2. runs[i].context <= runs[n - 1].context /\ n > 1
      <4>1. n - 1 \in 1 .. n /\ i <= n - 1 /\ n > 1
        BY <1>9
      <4> QED
        BY <1>1, <2>1, <4>1 DEF IInv, Nest
    <3> QED
      BY <1>1, <1>3, <1>4, <3>1, <3>2
  <2>4. contexts'[runs[i].context].capacity = StackSize
    <3>1. CASE runs[i].context = current'
      BY <2>2, <3>1
    <3>2. CASE runs[i].context # current'
      <4>1. runs[i].context \in 1 .. current' - 1
        BY <1>3, <1>9, <2>3, <3>2
      <4> QED
        BY <2>2, <4>1
    <3> QED
      BY <3>1, <3>2
  <2>5. CASE i = n - 1
    <3>1. View(i)' = contexts'[current'] /\ View(i) = Inner.before.context
      BY <1>1, <1>2, <2>1, <2>5 DEF View
    <3>2. View(i)'.stack = View(i).stack /\ View(i)'.frame = View(i).frame
      BY <1>1, <1>4, <2>1, <2>5, <3>1
    <3> QED
      BY <2>2, <2>4, <2>7, <3>2 DEF Stacked
  <2>6. CASE i # n - 1
    <3>1. View(i)' = View(i)
      <4>1. i + 1 \in 1 .. n - 1
        BY <1>1, <2>6
      <4> QED
        BY <1>1, <1>2, <2>1, <2>6, <4>1 DEF View
    <3> QED
      BY <2>2, <2>4, <2>7, <3>1
  <2> QED
    BY <2>5, <2>6
<1>8. Kept'
  <2>1. ASSUME NEW i \in 1 .. n - 1, runs[i].native
        PROVE  contexts'[runs[i].outer] = contexts[runs[i].outer]
    <3>1. i \in 1 .. n
      BY <1>1
    <3>2. runs[i].outer \in 1 .. runs[i].context - 1 /\ runs[i].context \in Nat
      BY <1>1, <2>1, <3>1, OutsideFacts, RunFields
    <3>3. runs[i].context <= runs[n - 1].context /\ n > 1
      <4>1. n - 1 \in 1 .. n /\ i <= n - 1 /\ n > 1
        BY <1>9
      <4> QED
        BY <1>1, <3>1, <4>1 DEF IInv, Nest
    <3>4. runs[i].outer \in 1 .. current' - 1
      BY <1>3, <1>4, <3>2, <3>3
    <3> QED
      BY <3>4
  <2>2. \A i \in 1 .. n - 1 : i \in DOMAIN runs
    BY <1>1
  <2> QED
    BY <1>2, <2>1, <2>2 DEF IInv, Kept
<1> QED
  BY <1>5, <1>6, <1>7, <1>8

-----------------------------------------------------------------------------
(* The actions.                                                               *)

LEMMA NoException ==
  ASSUME IInv, outcome = Null
  PROVE  /\ \A k \in DOMAIN contexts : contexts[k].exception = Null
         /\ phase = "running" => runs # <<>> /\ Context.exception = Null
<1>1. \A k \in DOMAIN contexts : contexts[k].exception = Null
  BY DEF IInv, Exceptional
<1>2. phase = "running" => current \in DOMAIN contexts
  BY ContextFacts
<1> QED
  BY <1>1, <1>2 DEF IInv, Phases, Context

LEMMA StateFacts ==
  ASSUME NEW c \in Records
  PROVE  /\ StackState(c) \in Saves /\ StackState(c).sp = Len(c.stack)
         /\ StackState(c).frame = c.frame /\ StackState(c).target = c.target
         /\ Len(c.stack) \in Nat /\ c.stack \in Seq(Words) /\ c.frame.fp \in Nat
<1>1. /\ c.frame \in Frames /\ c.target \in Targets /\ c.stack \in Seq(Words)
      /\ Len(c.stack) \in Nat /\ c.frame.fp \in Nat
  BY DEF Records, Frames
<1> HIDE DEF Frames, Targets
<1> QED
  BY <1>1 DEF StackState, Saves

\* What a byte code program that was started by another finds when it ends.
LEMMA SavedFacts ==
  ASSUME IInv, runs # <<>>, ~ Inner.native
  PROVE  /\ Base(Inner) \in Nat
         /\ Len(runs) = 1 <=> Inner.before = Null
         /\ Inner.before # Null =>
              /\ Inner.saved \in Saves /\ Inner.saved.sp = Base(Inner)
              /\ Inner.before.context.stack \in Seq(Words)
              /\ Base(Inner) = Len(Inner.before.context.stack)
              /\ Inner.saved.frame = Inner.before.context.frame
              /\ Inner.saved.target = Inner.before.context.target
<1>1. /\ Inner \in Runs /\ Inner = runs[Len(runs)] /\ Len(runs) \in DOMAIN runs
  BY InnerFacts
<1>2. /\ Inner.before = Null <=> Len(runs) = 1
      /\ Inner.before # Null => Inner.saved = StackState(Inner.before.context)
  BY <1>1 DEF IInv, Kept
<1>3. Inner.before # Null => Inner.before.context \in Records
  <2>1. Inner.before \in Befores \cup {Null}
    BY <1>1, RunFields
  <2> HIDE DEF Records
  <2> QED
    BY <2>1 DEF Befores
<1> QED
  BY <1>2, <1>3, StateFacts DEF Base

\* The stack of the byte code program that runs.
LEMMA StackFacts ==
  ASSUME IInv, phase = "running", runs # <<>>, ~ Inner.native
  PROVE  /\ Stacked(Inner, Context) /\ Base(Inner) <= (Len(runs) - 1) * Share
         /\ Context.capacity = StackSize
         /\ Inner.id \in Nat /\ Inner.id <= started /\ started \in Nat
         /\ \A j \in 1 .. Len(Context.stack) : Context.stack[j].run < started + 1
<1>1. /\ Inner \in Runs /\ Inner = runs[Len(runs)] /\ Len(runs) \in DOMAIN runs
      /\ View(Len(runs)) = Context /\ Inner.context = current
  BY InnerFacts
<1>2. /\ Stacked(Inner, Context) /\ Base(Inner) <= (Len(runs) - 1) * Share
      /\ Context.capacity = StackSize
  BY <1>1 DEF IInv, Stacks, Context
<1>3. Inner.id \in Nat /\ Inner.id <= started /\ started \in Nat
  BY <1>1, RunFields DEF IInv, Nest, TypeOK
<1>4. /\ Context \in Records /\ Context.stack \in Seq(Words) /\ Len(Context.stack) \in Nat
  BY ContextFacts, StateFacts
<1>5. ASSUME NEW j \in 1 .. Len(Context.stack) PROVE Context.stack[j].run < started + 1
  <2>1. Context.stack[j].run \in Nat
    <3>1. Context.stack[j] \in Words
      BY <1>4
    <3> QED
      BY <3>1 DEF Words
  <2>2. j \in 1 .. Base(Inner) \/ j \in Base(Inner) + 1 .. Len(Context.stack)
    BY <1>4, SavedFacts
  <2> QED
    BY <1>2, <1>3, <2>1, <2>2 DEF Stacked
<1> QED
  BY <1>2, <1>3, <1>5

LEMMA Multiples ==
  ASSUME NEW n \in Nat \ {0}, NEW m \in Nat, n < m, NEW s \in Nat
  PROVE  (n - 1) * s + s = n * s /\ n * s + s <= m * s
<1>1. (n - 1) * s + s = n * s /\ n * s + s = (n + 1) * s
  OBVIOUS
<1>2. (n + 1) * s <= m * s
  OBVIOUS
<1> QED
  BY <1>1, <1>2

\* The stack has room for one more program.
LEMMA Room ==
  ASSUME IInv, phase = "running", runs # <<>>, ~ Inner.native, started < MaxRuns
  PROVE  Len(Context.stack) <= Len(runs) * Share /\ Len(Context.stack) + 3 <= Context.capacity
<1>1. Share \in Nat /\ 3 <= Share /\ MaxRuns \in Nat /\ MaxRuns * Share <= StackSize /\ MaxOwn \in Nat
      /\ Share = 3 + MaxOwn
  BY ContextsAssumption DEF Share, ArgumentWords
<1>2. Len(runs) \in Nat \ {0} /\ Len(runs) < MaxRuns
  BY <1>1, InnerFacts DEF IInv, Nest, TypeOK
<1>3. Len(Context.stack) \in Nat /\ Context.frame.fp \in Nat /\ Base(Inner) \in Nat
  BY ContextFacts, StateFacts, SavedFacts
<1>4. Len(Context.stack) <= Base(Inner) + Share /\ Base(Inner) <= (Len(runs) - 1) * Share
  <2>1. /\ Context.frame.fp = Base(Inner) + 2 + 1
        /\ Len(Context.stack) <= Context.frame.fp + MaxOwn
    BY StackFacts DEF Stacked, ArgumentWords
  <2>2. Base(Inner) <= (Len(runs) - 1) * Share
    BY StackFacts
  <2>3. Len(Context.stack) <= Base(Inner) + Share
    BY <1>1, <1>3, <2>1
  <2> QED
    BY <2>2, <2>3
<1> HIDE DEF Share
<1>5. /\ (Len(runs) - 1) * Share + Share = Len(runs) * Share
      /\ Len(runs) * Share + Share <= MaxRuns * Share
  BY <1>1, <1>2, Multiples
<1>6. (Len(runs) - 1) * Share \in Int /\ Len(runs) * Share \in Int /\ MaxRuns * Share \in Int
  BY <1>1, <1>2
<1>7. Context.capacity = StackSize /\ StackSize \in Nat
  BY StackFacts DEF StackSize
<1> DEFINE a == (Len(runs) - 1) * Share  b == Len(runs) * Share  c == MaxRuns * Share
<1>8. /\ a \in Int /\ b \in Int /\ c \in Int /\ a + Share = b /\ b + Share <= c
      /\ c <= StackSize /\ Len(Context.stack) <= Base(Inner) + Share /\ Base(Inner) <= a
  BY <1>1, <1>4, <1>5, <1>6
<1> HIDE DEF a, b, c
<1>9. Len(Context.stack) <= b /\ Len(Context.stack) + 3 <= Context.capacity
  BY <1>1, <1>3, <1>7, <1>8
<1> QED
  BY <1>9 DEF b

LEMMA WorkStep ==
  ASSUME IInv, Work
  PROVE  IInv'
<1>1. /\ phase = "running" /\ outcome = Null /\ runs # <<>> /\ ~ Inner.native /\ heard' = Null
      /\ UNCHANGED <<current, runs, started, outcome, phase>>
  BY NoException DEF Work, Running
<1>2. /\ contexts \in Seq(Records) /\ current \in DOMAIN contexts /\ Context \in Records
      /\ Len(Context.stack) \in Nat /\ Context.frame.fp \in Nat /\ Base(Inner) \in Nat
  BY <1>1, ContextFacts, StateFacts, SavedFacts
<1>3. /\ Stacked(Inner, Context) /\ Inner.id \in Nat
  BY <1>1, StackFacts
<1>4. PICK n \in 0 .. MaxOwn, ip \in {0, 1} :
        contexts' = [contexts EXCEPT ![current] = Worked(Context, Inner.id, ip, n)]
  BY DEF Work, Context
<1> DEFINE d == Worked(Context, Inner.id, ip, n)
<1>5. n \in Nat /\ ip \in Nat /\ n <= MaxOwn /\ MaxOwn \in Nat
  BY ContextsAssumption
<1>6. /\ d \in Records /\ Alike(Context, d) /\ d.frame.fp = Context.frame.fp
      /\ Len(d.stack) = Context.frame.fp + n
      /\ \A j \in 1 .. Context.frame.fp : d.stack[j] = Context.stack[j]
      /\ \A j \in Context.frame.fp + 1 .. Len(d.stack) : d.stack[j].run = Inner.id
  <2>1. Context.frame.fp <= Len(Context.stack)
    BY <1>3 DEF Stacked
  <2> QED
    <3> DEFINE P(c, e, r, k) ==
                 /\ e \in Records /\ Alike(c, e) /\ e.frame.fp = c.frame.fp
                 /\ Len(e.stack) = c.frame.fp + k
                 /\ \A j \in 1 .. c.frame.fp : e.stack[j] = c.stack[j]
                 /\ \A j \in c.frame.fp + 1 .. Len(e.stack) : e.stack[j].run = r
    <3>1. \A c \in Records, r \in Nat, p \in Nat, k \in Nat :
            c.frame.fp <= Len(c.stack) => P(c, Worked(c, r, p, k), r, k)
      BY WorkedFacts
    <3> HIDE DEF P
    <3>2. P(Context, d, Inner.id, n)
      BY <1>2, <1>3, <1>5, <2>1, <3>1
    <3> QED
      BY <3>2 DEF P
<1>7. contexts' = [contexts EXCEPT ![current] = d]
  BY <1>4
<1> HIDE DEF d
<1>8. Stacked(Inner, d)
  <2>1. /\ Context.frame.fp = Base(Inner) + 2 + 1 /\ Context.frame.fp <= Len(Context.stack)
        /\ \A j \in Base(Inner) + 1 .. Len(Context.stack) : Context.stack[j].run = Inner.id
        /\ \A j \in 1 .. Base(Inner) : Context.stack[j].run < Inner.id
        /\ Inner.before # Null => \A j \in 1 .. Base(Inner) : Context.stack[j] = Inner.before.context.stack[j]
    BY <1>3 DEF Stacked, ArgumentWords
  <2>2. ASSUME NEW j \in Base(Inner) + 1 .. Len(d.stack) PROVE d.stack[j].run = Inner.id
    <3>1. CASE j <= Context.frame.fp
      <4>1. j \in 1 .. Context.frame.fp /\ j \in Base(Inner) + 1 .. Len(Context.stack)
        BY <1>2, <2>1, <3>1
      <4> QED
        BY <1>6, <2>1, <4>1
    <3>2. CASE ~ (j <= Context.frame.fp)
      <4>1. j \in Context.frame.fp + 1 .. Len(d.stack)
        BY <1>2, <3>2
      <4> QED
        BY <1>6, <4>1
    <3> QED
      BY <3>1, <3>2
  <2>3. \A j \in 1 .. Base(Inner) : d.stack[j] = Context.stack[j]
    BY <1>2, <1>6, <2>1
  <2>4. /\ d.frame.fp = Base(Inner) + ArgumentWords + 1
        /\ d.frame.fp <= Len(d.stack) /\ Len(d.stack) <= d.frame.fp + MaxOwn
    BY <1>2, <1>5, <1>6, <2>1 DEF ArgumentWords
  <2>5. \A j \in 1 .. Base(Inner) : d.stack[j].run < Inner.id
    BY <2>1, <2>3
  <2>6. Inner.before # Null => \A j \in 1 .. Base(Inner) : d.stack[j] = Inner.before.context.stack[j]
    BY <2>1, <2>3
  <2> QED
    BY <2>2, <2>4, <2>5, <2>6 DEF Stacked
<1>9. TypeOK' /\ Stacks' /\ Kept' /\ Nest' /\ Phases'
  BY <1>1, <1>6, <1>7, <1>8, SameRuns DEF Alike, IInv, Nest, TypeOK
<1>10. Exceptional'
  BY <1>1, <1>2, <1>6, <1>7, NoException DEF Exceptional, Alike, Context
<1> QED
  BY <1>1, <1>9, <1>10 DEF IInv, Told, FailureHeard

\* What a start takes with it.
LEMMA RunFacts ==
  ASSUME IInv, phase = "running", NEW context \in Nat, NEW saved \in Saves \cup {Null}, NEW native \in BOOLEAN
  PROVE  LET r == Run(context, saved, native)
         IN  /\ r \in Runs /\ r.id = started + 1 /\ r.context = context /\ r.saved = saved
             /\ r.outer = current /\ r.native = native /\ r.before = Before
             /\ Before # Null /\ Before.context = Context
<1>1. current \in Nat /\ Context \in Records /\ started + 1 \in Nat
  BY ContextFacts DEF IInv, TypeOK
<1>2. Before \in Befores
  <2> HIDE DEF Records
  <2> QED
    BY <1>1 DEF Before, Befores
<1>3. Before # Null
  <2>1. "current" \in DOMAIN Before /\ "current" \notin DOMAIN Null
    BY DEF Before, Null
  <2> QED
    BY <2>1
<1>4. Before.context = Context
  BY DEF Before
<1> HIDE DEF Before, Befores, Saves
<1> QED
  BY <1>1, <1>2, <1>3, <1>4 DEF Run, Runs

\* A program that starts above the one that runs, in its context.
LEMMA EvalAccepted ==
  ASSUME IInv, ~ EvalFromNative, NEW start \in Int, Eval(start),
         start \in 0 .. Injected(Context).objects - 1
  PROVE  IInv'
<1>1. /\ phase = "running" /\ outcome = Null /\ runs # <<>> /\ ~ Inner.native /\ heard' = Null
      /\ started < MaxRuns /\ started' = started + 1
      /\ UNCHANGED <<current, phase, outcome>>
  BY NoException DEF Eval, Running
<1>2. /\ contexts \in Seq(Records) /\ current \in DOMAIN contexts /\ Context \in Records
      /\ current \in Nat /\ current = Len(contexts) /\ started \in Nat
      /\ Len(Context.stack) \in Nat
  BY <1>1, ContextFacts, StateFacts, StackFacts
<1> DEFINE c == Unloaded(Injected(Context))
           d == Begun(PushArguments(c, started + 1), started + 1)
           saved == StackState(Context)
           r == Run(current, saved, FALSE)
<1>3. contexts' = [contexts EXCEPT ![current] = d] /\ runs' = Append(runs, r)
  BY DEF Eval, Begun
<1>4. c \in Records /\ Alike(Context, c) /\ c.stack = Context.stack
  BY <1>2, InjectedFacts, UnloadedFacts DEF Alike
<1> HIDE DEF c
<1>5. Len(Context.stack) + 3 <= Context.capacity /\ Len(Context.stack) <= Len(runs) * Share
  BY <1>1, Room
<1>6. /\ d \in Records /\ Alike(c, d)
      /\ d.frame.fp = Len(c.stack) + 3 /\ Len(d.stack) = Len(c.stack) + 3
      /\ \A j \in 1 .. Len(c.stack) : d.stack[j] = c.stack[j]
      /\ \A j \in Len(c.stack) + 1 .. Len(d.stack) : d.stack[j].run = started + 1
  <2>1. Len(c.stack) + 3 <= c.capacity /\ started + 1 \in Nat
    BY <1>2, <1>4, <1>5 DEF Alike
  <2> QED
    BY <1>4, <2>1, GrownFacts
<1> HIDE DEF d
<1>7. saved \in Saves /\ saved.sp = Len(Context.stack)
  BY <1>2, StateFacts
<1>8. /\ r \in Runs /\ r.id = started + 1 /\ r.context = current /\ r.saved = saved
      /\ r.outer = current /\ ~ r.native /\ r.before = Before
      /\ Before # Null /\ Before.context = Context
  BY <1>1, <1>2, <1>7, RunFacts
<1> HIDE DEF saved, r
<1>9. Base(r) = Len(Context.stack)
  BY <1>7, <1>8 DEF Base
<1>10. Stacked(r, d)
  <2>1. MaxOwn \in Nat
    BY ContextsAssumption
  <2>2. \A j \in 1 .. Len(Context.stack) : Context.stack[j].run < started + 1
    BY <1>1, StackFacts
  <2>3. /\ d.frame.fp = Base(r) + ArgumentWords + 1
        /\ d.frame.fp <= Len(d.stack) /\ Len(d.stack) <= d.frame.fp + MaxOwn
    BY <1>2, <1>4, <1>6, <1>9, <2>1 DEF ArgumentWords
  <2> QED
    BY <1>4, <1>6, <1>8, <1>9, <2>2, <2>3 DEF Stacked
<1>11. /\ contexts' \in Seq(Records) /\ Len(contexts') = Len(contexts) /\ contexts'[current] = d
       /\ \A k \in 1 .. current : k # current => contexts'[k] = contexts[k]
  BY <1>2, <1>3, <1>6
<1>12. TypeOK' /\ Stacks' /\ Kept' /\ Nest' /\ Phases'
  <2>1. d.capacity = Context.capacity
    BY <1>4, <1>6 DEF Alike
  <2>2. r.saved = StackState(Context) /\ Base(r) <= Len(runs) * Share
    BY <1>5, <1>8, <1>9 DEF saved
  <2> QED
    BY <1>1, <1>2, <1>3, <1>8, <1>10, <1>11, <2>1, <2>2, Pushed
<1>13. Exceptional'
  <2>1. d.exception = Null
    BY <1>1, <1>4, <1>6, NoException DEF Alike
  <2> QED
    BY <1>1, <1>2, <1>3, <2>1, NoException DEF Exceptional
<1> QED
  BY <1>1, <1>12, <1>13 DEF IInv, Told, FailureHeard

LEMMA EndedFacts ==
  ASSUME NEW native, NEW value, NEW size, NEW failed, NEW words, Ended(native, value, size, failed, words)
  PROVE  /\ outcome' # Null /\ outcome'.native = native /\ outcome'.value = value
         /\ outcome'.size = size /\ outcome'.failed = failed /\ outcome'.words = words
<1>1. "value" \in DOMAIN outcome' /\ "value" \notin DOMAIN Null
  BY DEF Ended, Null
<1>2. outcome' # Null
  BY <1>1
<1> QED
  BY <1>2 DEF Ended

\* A start out of range: the program leaves its arguments for its evaluator.
LEMMA EvalRefused ==
  ASSUME IInv, ~ EvalFromNative, NEW start \in Int, Eval(start),
         start \notin 0 .. Injected(Context).objects - 1
  PROVE  IInv'
<1>1. /\ phase = "running" /\ outcome = Null /\ runs # <<>> /\ ~ Inner.native /\ heard' = Null
      /\ started < MaxRuns /\ started' = started + 1
      /\ UNCHANGED <<current, phase, runs>>
  BY NoException DEF Eval, Running
<1>2. /\ contexts \in Seq(Records) /\ current \in DOMAIN contexts /\ Context \in Records
      /\ current \in Nat /\ current = Len(contexts) /\ started \in Nat
      /\ Len(Context.stack) \in Nat /\ Context.stack \in Seq(Words)
  BY <1>1, ContextFacts, StateFacts, StackFacts
<1> DEFINE c == Unloaded(Injected(Context))
           p == PushArguments(c, started + 1)
           w == Word(started + 1, "args")
           saved == StackState(Context)
           q == Snapshot(p, saved.sp)
           d == Reloaded(q, saved)
<1>3. /\ contexts' = [contexts EXCEPT ![current] = d]
      /\ Ended(FALSE, "INT_MIN", Len(p.stack) - saved.sp, TRUE, <<w, w>>)
  BY DEF Eval
<1>4. c \in Records /\ Alike(Context, c) /\ c.stack = Context.stack
  BY <1>2, InjectedFacts, UnloadedFacts DEF Alike
<1> HIDE DEF c
<1>5. Len(c.stack) + 2 <= c.capacity
  <2>1. Len(Context.stack) + 3 <= Context.capacity /\ Context.capacity \in Nat
    BY <1>1, Room, StackFacts DEF StackSize
  <2> QED
    BY <1>2, <1>4, <2>1 DEF Alike
<1>6. /\ p \in Records /\ Alike(c, p)
      /\ Len(p.stack) = Len(c.stack) + 2
      /\ \A j \in 1 .. Len(c.stack) : p.stack[j] = c.stack[j]
      /\ \A j \in Len(c.stack) + 1 .. Len(c.stack) + 2 : p.stack[j] = w
  <2>1. started + 1 \in Nat
    BY <1>2
  <2> QED
    BY <1>4, <1>5, <2>1, PushArgumentsFacts
<1> HIDE DEF p
<1>7. /\ saved \in Saves /\ saved.sp = Len(Context.stack) /\ p.stack \in Seq(Words)
      /\ saved.frame = Context.frame
  BY <1>2, <1>6, StateFacts
<1> HIDE DEF saved, w
<1>8. /\ q \in Records /\ q.snapshot = SubSeq(p.stack, saved.sp + 1, Len(p.stack))
      /\ q.stack = p.stack /\ q.capacity = p.capacity /\ q.exception = p.exception
  <2>1. saved.sp \in 0 .. Len(p.stack)
    BY <1>2, <1>4, <1>6, <1>7
  <2> QED
    BY <1>6, <2>1, SnapshotFacts
<1>9. q.snapshot = <<w, w>>
  <2>1. q.snapshot = SubSeq(p.stack, Len(Context.stack) + 1, Len(Context.stack) + 2)
    BY <1>4, <1>6, <1>7, <1>8
  <2>2. /\ Len(q.snapshot) = 2 /\ q.snapshot \in Seq(Words)
        /\ q.snapshot[1] = p.stack[Len(Context.stack) + 1]
        /\ q.snapshot[2] = p.stack[Len(Context.stack) + 2]
    BY <1>2, <1>4, <1>6, <1>7, <2>1
  <2>3. p.stack[Len(Context.stack) + 1] = w /\ p.stack[Len(Context.stack) + 2] = w
    BY <1>2, <1>4, <1>6
  <2> QED
    BY <2>2, <2>3
<1> HIDE DEF q
<1>10. /\ d \in Records /\ Alike(q, d) /\ d.frame = saved.frame
       /\ Len(d.stack) = saved.sp /\ \A j \in 1 .. saved.sp : d.stack[j] = q.stack[j]
  <2>1. saved.sp <= Len(q.stack)
    BY <1>2, <1>4, <1>6, <1>7, <1>8
  <2> QED
    BY <1>7, <1>8, <2>1, ReloadedFacts
<1> HIDE DEF d
<1>11. /\ d.capacity = Context.capacity /\ d.exception = Null
       /\ d.snapshot = <<w, w>> /\ d.frame = Context.frame /\ Len(d.stack) = Len(Context.stack)
       /\ \A j \in 1 .. Len(Context.stack) : d.stack[j] = Context.stack[j]
  BY <1>1, <1>4, <1>6, <1>7, <1>8, <1>9, <1>10, NoException DEF Alike
<1>12. /\ outcome' # Null /\ ~ outcome'.native /\ outcome'.value = "INT_MIN" /\ outcome'.size = 2
       /\ outcome'.failed /\ outcome'.words = <<w, w>>
  <2>1. Len(p.stack) - saved.sp = 2
    BY <1>2, <1>4, <1>6, <1>7
  <2> QED
    BY <1>3, <2>1, EndedFacts
<1>13. Stacked(Inner, d)
  <2>1. Stacked(Inner, Context) /\ Base(Inner) \in Nat /\ Context.frame.fp \in Nat /\ MaxOwn \in Nat
    BY <1>1, <1>2, StackFacts, SavedFacts, StateFacts, ContextsAssumption
  <2>2. Base(Inner) <= Len(Context.stack)
    BY <1>2, <2>1 DEF Stacked, ArgumentWords
  <2>3. \A j \in 1 .. Base(Inner) : d.stack[j] = Context.stack[j]
    BY <1>2, <1>11, <2>1, <2>2
  <2>4. \A j \in Base(Inner) + 1 .. Len(d.stack) : d.stack[j] = Context.stack[j]
    BY <1>2, <1>11, <2>1, <2>2
  <2> QED
    BY <1>11, <2>1, <2>3, <2>4 DEF Stacked
<1>14. TypeOK' /\ Stacks' /\ Kept' /\ Nest' /\ Phases'
  <2>1. started' \in {started, started + 1} /\ started' <= MaxRuns
    BY <1>1, <1>2, ContextsAssumption
  <2> QED
    BY <1>1, <1>3, <1>10, <1>11, <1>13, <2>1, SameRuns
<1>15. contexts'[current] = d /\ Context' = d /\ Exceptional'
  BY <1>1, <1>2, <1>3, <1>11, NoException DEF Exceptional, Context
<1>16. Told'
  BY <1>11, <1>12, <1>15 DEF Told
<1> QED
  BY <1>1, <1>14, <1>15, <1>16 DEF IInv, FailureHeard

\* The context of a native program, when it starts.
NativeOwn(run) == [PushArguments(NativeContext, run) EXCEPT !.target = "native"]

LEMMA NativeContextFacts ==
  /\ NativeContext \in Records /\ NativeContext.exception = Null
  /\ NativeContext.capacity = 2 /\ NativeContext.stack = <<>>
<1>1. NoFrame \in Frames /\ <<>> \in Seq(Words) /\ Len(<<>>) = 0 /\ StackSize \in Nat
  BY WordTypes DEF StackSize
<1> HIDE DEF NoFrame, Frames, Words, Exceptions, StackSize
<1>2. ByteContext(0) \in Records /\ ByteContext(0).exception = Null /\ ByteContext(0).stack = <<>>
  BY <1>1 DEF ByteContext, Records, Targets
<1> QED
  BY <1>2 DEF NativeContext, Records, ArgumentWords

LEMMA NativeOwnFacts ==
  ASSUME NEW run \in Nat
  PROVE  NativeOwn(run) \in Records /\ NativeOwn(run).exception = Null
<1> DEFINE c == PushArguments(NativeContext, run)
<1>1. c \in Records /\ c.exception = Null
  BY NativeContextFacts, PushArgumentsFacts DEF Alike
<1>2. NativeOwn(run) = [c EXCEPT !.target = "native"]
  BY DEF NativeOwn
<1> HIDE DEF c, Words, Frames, Exceptions
<1> QED
  BY <1>1, <1>2 DEF Records, Targets

LEMMA EvalNativeStep ==
  ASSUME IInv, EvalNative
  PROVE  IInv'
<1>1. /\ phase = "running" /\ outcome = Null /\ runs # <<>> /\ heard' = Null
      /\ started < MaxRuns /\ started' = started + 1
      /\ UNCHANGED <<phase, outcome>>
  BY NoException DEF EvalNative, Running
<1>2. /\ contexts \in Seq(Records) /\ current \in DOMAIN contexts /\ Context \in Records
      /\ current \in Nat /\ current = Len(contexts) /\ started \in Nat
  BY <1>1, ContextFacts DEF IInv, TypeOK
<1> DEFINE d == NativeOwn(started + 1)
           r == Run(current + 1, Null, TRUE)
<1>3. contexts' = Append(contexts, d) /\ runs' = Append(runs, r) /\ current' = current + 1
  BY <1>2 DEF EvalNative, NativeOwn
<1>4. d \in Records /\ d.exception = Null
  BY <1>2, NativeOwnFacts
<1>5. /\ r \in Runs /\ r.id = started + 1 /\ r.context = current + 1
      /\ r.outer = current /\ r.native /\ r.before = Before
  <2>1. current + 1 \in Nat /\ Null \in Saves \cup {Null} /\ TRUE \in BOOLEAN
    BY <1>2
  <2> QED
    BY <1>1, <2>1, RunFacts, Zenon
<1> HIDE DEF d, r
<1>6. /\ contexts' \in Seq(Records) /\ Len(contexts') = current + 1 /\ contexts'[current + 1] = d
      /\ \A k \in 1 .. current : contexts'[k] = contexts[k]
  BY <1>2, <1>3, <1>4
<1>7. TypeOK' /\ Stacks' /\ Kept' /\ Nest' /\ Phases'
  BY <1>1, <1>2, <1>3, <1>5, <1>6, Pushed
<1>8. Exceptional'
  <2>1. \A k \in DOMAIN contexts' : k \in 1 .. current \/ k = current + 1
    BY <1>2, <1>6
  <2> QED
    BY <1>1, <1>2, <1>4, <1>6, <2>1, NoException DEF Exceptional
<1> QED
  BY <1>1, <1>7, <1>8 DEF IInv, Told, FailureHeard

\* What the evaluator of a program finds when it has ended.
Back ==
  Inner.before # Null =>
    LET before == Inner.before.context  after == contexts'[current']
    IN  /\ current' = Inner.before.current
        /\ after.stack = before.stack /\ after.frame = before.frame
        /\ after.target = before.target

\* The stack, the frame and the target are set back to what they were.
LEMMA BackFacts ==
  ASSUME IInv, phase = "running", runs # <<>>, ~ Inner.native, Inner.before # Null,
         NEW p \in Records, Base(Inner) <= Len(p.stack),
         \A j \in 1 .. Base(Inner) : p.stack[j] = Context.stack[j]
  PROVE  LET d == Reloaded(p, Inner.saved)
         IN  /\ d \in Records /\ Alike(p, d)
             /\ d.stack = Inner.before.context.stack /\ d.frame = Inner.before.context.frame
             /\ d.target = Inner.before.context.target
<1> DEFINE d == Reloaded(p, Inner.saved)
<1>1. /\ Inner.saved \in Saves /\ Inner.saved.sp = Base(Inner)
      /\ Inner.before.context.stack \in Seq(Words)
      /\ Base(Inner) = Len(Inner.before.context.stack)
      /\ Inner.saved.frame = Inner.before.context.frame
      /\ Inner.saved.target = Inner.before.context.target
  BY SavedFacts
<1>2. /\ d \in Records /\ Alike(p, d) /\ d.frame = Inner.saved.frame
      /\ d.target = Inner.saved.target /\ Len(d.stack) = Base(Inner)
      /\ \A j \in 1 .. Base(Inner) : d.stack[j] = p.stack[j]
  BY <1>1, ReloadedFacts
<1> HIDE DEF d
<1>3. \A j \in 1 .. Base(Inner) : d.stack[j] = Inner.before.context.stack[j]
  BY <1>2, StackFacts DEF Stacked
<1>4. d.stack \in Seq(Words)
  BY <1>2, StateFacts
<1>5. d.stack = Inner.before.context.stack
  BY <1>1, <1>2, <1>3, <1>4
<1> QED
  BY <1>1, <1>2, <1>5 DEF d

LEMMA ReturnStep ==
  ASSUME IInv, NEW value \in {"0", "INT_MIN"}, Return(value)
  PROVE  IInv' /\ Back
<1>1. /\ phase = "running" /\ outcome = Null /\ runs # <<>> /\ ~ Inner.native /\ heard' = Null
      /\ runs' = Front(runs) /\ Ended(FALSE, value, 0, FALSE, <<>>)
      /\ UNCHANGED <<current, started, phase>>
  BY NoException DEF Return, Running, Leave
<1>2. /\ contexts \in Seq(Records) /\ current \in DOMAIN contexts /\ Context \in Records
      /\ current \in Nat /\ current = Len(contexts) /\ started \in Nat
      /\ Len(Context.stack) \in Nat /\ Context.frame.fp \in Nat
  BY <1>1, ContextFacts, StateFacts, StackFacts
<1>3. /\ Stacked(Inner, Context) /\ Inner.id \in Nat /\ Base(Inner) \in Nat
      /\ Context.frame.fp = Base(Inner) + 3 /\ Context.frame.fp <= Len(Context.stack)
  <2>1. Stacked(Inner, Context) /\ Inner.id \in Nat /\ Base(Inner) \in Nat
    BY <1>1, StackFacts, SavedFacts
  <2> QED
    BY <2>1 DEF Stacked, ArgumentWords
<1> DEFINE p == Popped(Context, Inner.id)
           d == IF Len(runs) = 1 THEN p ELSE Reloaded(p, Inner.saved)
<1>4. contexts' = [contexts EXCEPT ![current] = d]
  BY DEF Return, Popped
<1>5. /\ p \in Records /\ Alike(Context, p) /\ Len(p.stack) = Base(Inner) + 2
      /\ \A j \in 1 .. Base(Inner) : p.stack[j] = Context.stack[j]
  <2>1. /\ p \in Records /\ Alike(Context, p) /\ Len(p.stack) = Context.frame.fp - 1
        /\ \A j \in 1 .. Context.frame.fp - 1 : p.stack[j] = Context.stack[j]
    BY <1>2, <1>3, PoppedFacts
  <2> HIDE DEF p
  <2> QED
    BY <1>2, <1>3, <2>1
<1> HIDE DEF p
<1>6. /\ d \in Records /\ Alike(Context, d)
      /\ Inner.before # Null =>
           /\ d.stack = Inner.before.context.stack /\ d.frame = Inner.before.context.frame
           /\ d.target = Inner.before.context.target
  <2>1. CASE Inner.before = Null
    BY <1>1, <1>5, <2>1, SavedFacts
  <2>2. CASE Inner.before # Null
    <3>1. Len(runs) # 1 /\ d = Reloaded(p, Inner.saved)
      BY <1>1, <2>2, SavedFacts
    <3>2. Base(Inner) <= Len(p.stack)
      BY <1>3, <1>5
    <3> HIDE DEF d
    <3>3. /\ d \in Records /\ Alike(p, d)
          /\ d.stack = Inner.before.context.stack /\ d.frame = Inner.before.context.frame
          /\ d.target = Inner.before.context.target
      BY <1>1, <1>5, <2>2, <3>1, <3>2, BackFacts
    <3> QED
      BY <1>5, <3>3 DEF Alike
  <2> QED
    BY <2>1, <2>2
<1> HIDE DEF d
<1>7. /\ contexts' \in Seq(Records) /\ Len(contexts') = current /\ contexts'[current] = d
      /\ \A k \in 1 .. current - 1 : contexts'[k] = contexts[k]
  BY <1>2, <1>4, <1>6
<1>8. outcome' # Null /\ ~ outcome'.native /\ ~ outcome'.failed
  BY <1>1, EndedFacts
<1>9. TypeOK' /\ Stacks' /\ Kept' /\ Nest' /\ Phases'
  BY <1>1, <1>2, <1>6, <1>7, <1>8, Left DEF Alike, Context
<1>10. Exceptional'
  BY <1>1, <1>2, <1>4, <1>6, NoException DEF Exceptional, Alike
<1>11. Back
  <2>1. Inner.before # Null => current = Inner.before.current
    BY <1>1, InnerFacts DEF IInv, Kept
  <2> QED
    BY <1>1, <1>6, <1>7, <2>1 DEF Back
<1> QED
  BY <1>1, <1>8, <1>9, <1>10, <1>11 DEF IInv, Told, FailureHeard

LEMMA FailStep ==
  ASSUME IInv, Fail
  PROVE  IInv' /\ Back
<1>1. /\ phase = "running" /\ outcome = Null /\ runs # <<>> /\ ~ Inner.native /\ heard' = Null
      /\ runs' = Front(runs)
      /\ Ended(FALSE, "INT_MIN", Len(Context.stack) - Inner.saved.sp, TRUE, Own(Context.stack, Inner.id))
      /\ UNCHANGED <<current, started, phase>>
  BY NoException DEF Fail, Running, Leave
<1>2. /\ contexts \in Seq(Records) /\ current \in DOMAIN contexts /\ Context \in Records
      /\ current \in Nat /\ current = Len(contexts) /\ started \in Nat /\ runs \in Seq(Runs)
      /\ Len(Context.stack) \in Nat /\ Context.stack \in Seq(Words) /\ Context.frame.fp \in Nat
  BY <1>1, ContextFacts, StateFacts, StackFacts, InnerFacts
<1>3. /\ Stacked(Inner, Context) /\ Inner.id \in Nat /\ Base(Inner) \in Nat
      /\ Base(Inner) <= Len(Context.stack)
  <2>1. Stacked(Inner, Context) /\ Inner.id \in Nat /\ Base(Inner) \in Nat
    BY <1>1, StackFacts, SavedFacts
  <2> QED
    BY <1>2, <2>1 DEF Stacked, ArgumentWords
<1> DEFINE d == IF Len(runs) = 1 THEN Context ELSE Failed(Context, Inner)
           words == Own(Context.stack, Inner.id)
           rest == SubSeq(Context.stack, Base(Inner) + 1, Len(Context.stack))
<1>4. contexts' = [contexts EXCEPT ![current] = d]
  BY DEF Fail, Context
<1>5. words = rest /\ Len(words) = Len(Context.stack) - Base(Inner)
  <2>1. /\ Base(Inner) \in 0 .. Len(Context.stack)
        /\ \A j \in Base(Inner) + 1 .. Len(Context.stack) : Context.stack[j].run = Inner.id
    BY <1>2, <1>3 DEF Stacked
  <2>2. \A j \in 1 .. Base(Inner) : Context.stack[j].run # Inner.id
    BY <1>3 DEF Stacked
  <2> QED
    BY <1>2, <1>3, <2>1, <2>2, OwnFacts
<1> HIDE DEF words
<1>6. /\ d \in Records /\ d.capacity = Context.capacity /\ d.exception = Context.exception
      /\ Inner.before # Null =>
           /\ d.stack = Inner.before.context.stack /\ d.frame = Inner.before.context.frame
           /\ d.target = Inner.before.context.target /\ d.snapshot = rest
           /\ Inner.saved.sp = Base(Inner)
  <2>1. CASE Inner.before = Null
    BY <1>1, <1>2, <2>1, SavedFacts
  <2>2. CASE Inner.before # Null
    <3> DEFINE q == Snapshot(Context, Inner.saved.sp)
               p == Unloaded(q)
    <3>1. Len(runs) # 1 /\ d = Reloaded(p, Inner.saved) /\ Inner.saved.sp = Base(Inner)
      BY <1>1, <2>2, SavedFacts DEF Failed
    <3>2. /\ q \in Records /\ q.stack = Context.stack /\ q.capacity = Context.capacity
          /\ q.exception = Context.exception /\ q.snapshot = rest
      <4>1. Base(Inner) \in 0 .. Len(Context.stack)
        BY <1>2, <1>3
      <4>2. LET e == Snapshot(Context, Base(Inner))
            IN  /\ e \in Records /\ e.stack = Context.stack /\ e.capacity = Context.capacity
                /\ e.exception = Context.exception /\ e.snapshot = rest
        BY <1>2, <4>1, SnapshotFacts
      <4> QED
        BY <3>1, <4>2
    <3> HIDE DEF q, d, rest
    <3>3. p \in Records /\ Alike(q, p) /\ p.stack = Context.stack
      BY <3>2, UnloadedFacts
    <3> HIDE DEF p
    <3>4. /\ d \in Records /\ Alike(p, d)
          /\ d.stack = Inner.before.context.stack /\ d.frame = Inner.before.context.frame
          /\ d.target = Inner.before.context.target
      BY <1>1, <1>3, <2>2, <3>1, <3>3, BackFacts
    <3> QED
      BY <3>1, <3>2, <3>3, <3>4 DEF Alike
  <2> QED
    BY <2>1, <2>2
<1> HIDE DEF d, rest
<1>7. /\ contexts' \in Seq(Records) /\ Len(contexts') = current /\ contexts'[current] = d
      /\ \A k \in 1 .. current - 1 : contexts'[k] = contexts[k]
  BY <1>2, <1>4, <1>6
<1>8. /\ outcome' # Null /\ ~ outcome'.native /\ outcome'.value = "INT_MIN"
      /\ outcome'.size = Len(Context.stack) - Inner.saved.sp /\ outcome'.words = words
  BY <1>1, EndedFacts DEF words
<1>9. TypeOK' /\ Stacks' /\ Kept' /\ Nest' /\ Phases'
  BY <1>1, <1>2, <1>6, <1>7, <1>8, Left DEF Context
<1>10. Exceptional'
  BY <1>1, <1>2, <1>4, <1>6, NoException DEF Exceptional
<1>11. Told'
  <2>1. runs' # <<>> => Inner.before # Null
    <3>1. runs' # <<>> => Len(runs) # 1
      BY <1>1, <1>2 DEF Front
    <3> QED
      BY <1>1, <3>1, SavedFacts
  <2>2. Context' = d
    BY <1>1, <1>7 DEF Context
  <2> QED
    BY <1>5, <1>6, <1>8, <2>1, <2>2 DEF Told
<1>12. Back
  <2>1. Inner.before # Null => current = Inner.before.current
    BY <1>1, InnerFacts DEF IInv, Kept
  <2> QED
    BY <1>1, <1>6, <1>7, <2>1 DEF Back
<1> QED
  BY <1>1, <1>9, <1>10, <1>11, <1>12 DEF IInv, FailureHeard

\* A native program ends with what its context then is.
LEMMA LeaveNativeStep ==
  ASSUME IInv, phase = "running", outcome = Null, Inner.native, NEW inner \in Records,
         LeaveNative(inner), outcome' # Null, outcome'.native,
         outcome'.failed <=> inner.exception # Null,
         outcome'.failed => inner.exception.size = Len(outcome'.words) /\ inner.snapshot = outcome'.words
  PROVE  IInv' /\ Back
<1>1. /\ runs # <<>> /\ heard' = Null /\ runs' = Front(runs) /\ current' = Inner.outer
      /\ contexts' = [Front(contexts) EXCEPT ![Inner.outer] = Transferred(@, inner)]
      /\ UNCHANGED <<started, phase>>
  BY NoException DEF LeaveNative, Leave, Restored
<1>2. /\ contexts \in Seq(Records) /\ current \in Nat /\ current = Len(contexts)
      /\ Inner \in Runs /\ Inner = runs[Len(runs)] /\ Len(runs) \in DOMAIN runs /\ Inner.context = current
  BY <1>1, ContextFacts, InnerFacts
<1>3. /\ Inner.outer = Inner.before.current /\ current = Inner.outer + 1 /\ Inner.outer >= 1
      /\ contexts[Inner.outer].stack = Inner.before.context.stack
      /\ contexts[Inner.outer].frame = Inner.before.context.frame
      /\ contexts[Inner.outer].target = Inner.before.context.target
  BY <1>2 DEF IInv, Kept
<1>4. PICK n \in Nat : n = Inner.outer
  BY <1>2, RunFields
<1>5. n >= 1 /\ current = n + 1 /\ n \in DOMAIN contexts /\ contexts[n] \in Records
  <2>1. n >= 1 /\ current = n + 1
    BY <1>3, <1>4
  <2>2. n \in DOMAIN contexts
    <3>1. DOMAIN contexts = 1 .. current
      BY <1>2
    <3> QED
      BY <1>2, <2>1, <3>1
  <2>3. contexts[n] \in Records
    BY <1>2, <2>2
  <2> QED
    BY <2>1, <2>2, <2>3
<1> DEFINE d == Transferred(contexts[n], inner)
<1>6. /\ d \in Records /\ d.exception = inner.exception /\ d.snapshot = inner.snapshot
      /\ d.stack = contexts[n].stack /\ d.frame = contexts[n].frame
      /\ d.target = contexts[n].target /\ d.capacity = contexts[n].capacity
  BY <1>5, TransferredFacts
<1>7. Front(contexts) \in Seq(Records) /\ Len(Front(contexts)) = n
      /\ \A k \in 1 .. n : Front(contexts)[k] = contexts[k]
  BY <1>2, <1>5 DEF Front
<1>8. contexts' = [Front(contexts) EXCEPT ![n] = d]
  <2>1. Front(contexts)[n] = contexts[n]
    BY <1>5, <1>7
  <2>2. contexts' = [Front(contexts) EXCEPT ![n] = Transferred(Front(contexts)[n], inner)]
    BY <1>1, <1>4, Zenon
  <2> QED
    BY <2>1, <2>2, Zenon
<1> HIDE DEF d
<1>9. /\ contexts' \in Seq(Records) /\ Len(contexts') = n /\ contexts'[n] = d
      /\ \A k \in 1 .. n - 1 : contexts'[k] = contexts[k]
  BY <1>5, <1>6, <1>7, <1>8
<1>10. TypeOK' /\ Stacks' /\ Kept' /\ Nest' /\ Phases'
  BY <1>1, <1>2, <1>3, <1>4, <1>5, <1>6, <1>9, Left
<1>11. Exceptional'
  <2>1. \A k \in DOMAIN contexts' : k = n \/ (k \in 1 .. n - 1 /\ k \in DOMAIN contexts)
    BY <1>2, <1>5, <1>9
  <2> QED
    BY <1>1, <1>4, <1>6, <1>9, <2>1, NoException DEF Exceptional
<1>12. Told'
  BY <1>1, <1>4, <1>6, <1>9 DEF Told, Context
<1>13. Back
  BY <1>1, <1>3, <1>4, <1>6, <1>9 DEF Back
<1> QED
  BY <1>1, <1>10, <1>11, <1>12, <1>13 DEF IInv, FailureHeard

LEMMA ReturnNativeStep ==
  ASSUME IInv, NEW value \in {"0", "INT_MIN"}, ReturnNative(value)
  PROVE  IInv' /\ Back
<1>1. /\ phase = "running" /\ outcome = Null /\ Inner.native /\ LeaveNative(Context)
      /\ Ended(TRUE, value, 0, FALSE, <<>>)
  BY DEF ReturnNative, Running
<1>2. Context \in Records /\ Context.exception = Null
  BY <1>1, ContextFacts, NoException
<1>3. outcome' # Null /\ outcome'.native /\ ~ outcome'.failed
  BY <1>1, EndedFacts
<1> QED
  BY <1>1, <1>2, <1>3, LeaveNativeStep

\* A chain of frames has at most three.
LEMMA UnwindingFacts ==
  ASSUME NEW u \in Unwindings
  PROVE  u.frames \in Nat
<1>1. PICK image \in Images :
        u \in UNION {{[frames |-> Len(frames), frame |-> IF t.handler = 0 THEN 0 ELSE t.frame,
                       own |-> t.handler = Offset(image, Len(image))] : t \in throwException(image, frames)}
                     : frames \in Chains(image)}
  BY DEF Unwindings
<1>2. PICK frames \in Chains(image) : u.frames = Len(frames)
  BY <1>1
<1>3. frames \in Chains(image) => Len(frames) \in Nat
  <2> DEFINE called == Instructions(image, {s \in DOMAIN image : image[s].function # StaticBlock(image)})
                         \cup {Outside(image)}
             above == ReturnAddresses(image, {s \in DOMAIN image : image[s].function # StaticBlock(image)})
             below == ReturnAddresses(image, {s \in DOMAIN image : image[s].handler # 0})
             block == Instructions(image, {s \in DOMAIN image : image[s].handler # 0})
  <2>1. frames \in {<<x>> : x \in block} \cup (called \X below) \cup (called \X above \X below)
    BY DEF Chains
  <2> HIDE DEF called, above, below, block
  <2>2. CASE frames \in {<<x>> : x \in block}
    BY <2>2
  <2>3. CASE frames \in called \X below
    BY <2>3
  <2>4. CASE frames \in called \X above \X below
    BY <2>4
  <2> QED
    BY <2>1, <2>2, <2>3, <2>4
<1> QED
  BY <1>2, <1>3

LEMMA RaiseStep ==
  ASSUME IInv, NEW u \in Unwindings, Raise(u)
  PROVE  IInv' /\ (Len(runs') < Len(runs) => Back)
<1>1. phase = "running" /\ outcome = Null /\ runs # <<>> /\ Inner.native
  BY NoException DEF Raise, Running
<1>2. Context \in Records /\ Inner.id \in Nat /\ Len(runs) \in Nat
  BY <1>1, ContextFacts, InnerFacts, RunFields
<1> DEFINE stack == [i \in 1 .. u.frames |-> Word(Inner.id, "own")]
           inner == Raised(Context, Inner.id, stack)
<1>3. stack \in Seq(Words)
  BY <1>2, WordTypes, UnwindingFacts
<1>4. CASE u.frame = u.frames /\ u.own
  <2>1. LeaveNative(inner) /\ Ended(TRUE, "0", 0, TRUE, stack)
    BY <1>4 DEF Raise
  <2> HIDE DEF stack
  <2>2. /\ inner \in Records /\ inner.snapshot = stack /\ inner.exception # Null
        /\ inner.exception.size = Len(stack)
    BY <1>2, <1>3, RaisedFacts
  <2>3. outcome' # Null /\ outcome'.native /\ outcome'.failed /\ outcome'.words = stack
    BY <2>1, EndedFacts
  <2> HIDE DEF inner
  <2> QED
    BY <1>1, <2>1, <2>2, <2>3, LeaveNativeStep
<1>5. CASE ~ (u.frame = u.frames /\ u.own)
  <2>1. phase' = "lost" /\ UNCHANGED <<contexts, current, runs, started, outcome, heard>>
    BY <1>5 DEF Raise
  <2>2. TypeOK' /\ Phases'
    BY <1>1, <2>1 DEF IInv, TypeOK, Phases
  <2>3. Stacks' /\ Kept' /\ Nest'
    BY <2>1 DEF IInv, Stacks, Stacked, Base, View, Share, Kept, Nest, Inner, StackState
  <2>4. Exceptional' /\ Told' /\ FailureHeard'
    BY <2>1 DEF IInv, Exceptional, Told, FailureHeard, Context
  <2> QED
    BY <1>2, <2>1, <2>2, <2>3, <2>4 DEF IInv
<1> QED
  BY <1>4, <1>5

\* The evaluator changes nothing of the context but what it has read.
Read(c, d) ==
  /\ d.native = c.native /\ d.capacity = c.capacity /\ d.stack = c.stack /\ d.frame = c.frame
  /\ d.target = c.target

LEMMA ReadStep ==
  ASSUME IInv, outcome # Null, NEW d \in Records, Read(Context, d), d.exception = Null,
         contexts' = [contexts EXCEPT ![current] = d], outcome' = Null,
         UNCHANGED <<current, runs, started>>,
         phase' = IF runs = <<>> THEN "exited" ELSE phase, FailureHeard'
  PROVE  IInv'
<1>1. phase = "running" /\ started <= MaxRuns /\ started \in Nat
  BY DEF IInv, Phases, Nest, TypeOK
<1>2. contexts \in Seq(Records) /\ current \in DOMAIN contexts /\ Context \in Records
  BY <1>1, ContextFacts
<1>3. runs # <<>> /\ ~ Inner.native => Stacked(Inner, d)
  BY <1>1, StackFacts DEF Read, Stacked
<1>4. TypeOK' /\ Stacks' /\ Kept' /\ Nest' /\ Phases'
  BY <1>1, <1>3, SameRuns DEF Read
<1>5. Exceptional'
  BY <1>2 DEF IInv, Exceptional
<1> QED
  BY <1>4, <1>5 DEF IInv, Told

LEMMA TakeValueStep ==
  ASSUME IInv, TakeValue
  PROVE  IInv'
<1>1. /\ outcome # Null /\ ~ outcome.native /\ runs # <<>> /\ outcome' = Null
      /\ UNCHANGED <<current, runs, started, phase>>
  BY DEF TakeValue
<1>2. phase = "running"
  BY <1>1 DEF IInv, Phases
<1>3. /\ contexts \in Seq(Records) /\ current \in DOMAIN contexts /\ Context \in Records
  BY <1>2, ContextFacts
<1> DEFINE said == outcome.value = "INT_MIN"
           s == IF said THEN <<>> ELSE Context.snapshot
           d == [Context EXCEPT !.snapshot = s]
<1>4. contexts' = [contexts EXCEPT ![current] = d]
  BY <1>3 DEF TakeValue, Context
<1>5. heard' = [outcome |-> outcome, failed |-> said,
                words |-> IF said THEN Fetched(Context, outcome.size) ELSE <<>>]
  BY DEF TakeValue
<1>6. d \in Records /\ Read(Context, d) /\ d.exception = Context.exception
  <2>1. s \in Seq(Words)
    BY <1>3, StateFacts DEF Records
  <2> HIDE DEF s, Words, Frames, Exceptions
  <2> QED
    BY <1>3, <2>1 DEF Records, Read
<1>7. d.exception = Null
  BY <1>1, <1>3, <1>6 DEF IInv, Exceptional, Context
<1>8. FailureHeard'
  <2>1. outcome.failed => said /\ outcome.size = Len(Context.snapshot) /\ Context.snapshot = outcome.words
    BY <1>1 DEF IInv, Told
  <2>2. Fetched(Context, Len(Context.snapshot)) = Context.snapshot
    BY <1>3, FetchedFacts
  <2>3. outcome.failed => said /\ Fetched(Context, outcome.size) = outcome.words
    BY <2>1, <2>2
  <2> QED
    BY <1>1, <1>5, <2>3 DEF FailureHeard
<1> HIDE DEF d
<1> QED
  BY <1>1, <1>4, <1>6, <1>7, <1>8, ReadStep

LEMMA TakenFacts ==
  ASSUME NEW c \in Records
  PROVE  Taken(c) \in Records /\ Read(c, Taken(c)) /\ Taken(c).exception = Null
<1> DEFINE s == IF c.exception = Null THEN c.snapshot ELSE <<>>
<1>1. s \in Seq(Words)
  BY DEF Records
<1>2. Taken(c) = [[c EXCEPT !.exception = Null] EXCEPT !.snapshot = s]
  BY DEF Taken, Records
<1> HIDE DEF s
<1>3. LET d == [[c EXCEPT !.exception = Null] EXCEPT !.snapshot = s]
      IN  d \in Records /\ Read(c, d) /\ d.exception = Null
  <2> HIDE DEF Words, Frames, Exceptions, Null
  <2> QED
    BY <1>1 DEF Records, Read
<1> QED
  BY <1>2, <1>3

LEMMA TakeExceptionStep ==
  ASSUME IInv, TakeException
  PROVE  IInv'
<1>1. /\ outcome # Null /\ outcome.native /\ outcome' = Null
      /\ UNCHANGED <<current, runs, started>>
      /\ phase' = IF runs = <<>> THEN "exited" ELSE phase
  BY DEF TakeException
<1>2. phase = "running"
  BY <1>1 DEF IInv, Phases
<1>3. /\ contexts \in Seq(Records) /\ current \in DOMAIN contexts /\ Context \in Records
  BY <1>2, ContextFacts
<1> DEFINE d == Taken(Context)
           raised == Context.exception
<1>4. contexts' = [contexts EXCEPT ![current] = d]
  BY DEF TakeException, Context
<1>5. heard' = [outcome |-> outcome, failed |-> raised # Null,
                words |-> IF raised = Null THEN <<>> ELSE Fetched(Context, raised.size)]
  BY DEF TakeException
<1>6. d \in Records /\ Read(Context, d) /\ d.exception = Null
  BY <1>3, TakenFacts
<1>7. FailureHeard'
  <2>1. /\ outcome.failed <=> raised # Null
        /\ outcome.failed => raised.size = Len(Context.snapshot) /\ Context.snapshot = outcome.words
    BY <1>1 DEF IInv, Told
  <2>2. Fetched(Context, Len(Context.snapshot)) = Context.snapshot
    BY <1>3, FetchedFacts
  <2>3. outcome.failed => Fetched(Context, raised.size) = outcome.words
    BY <2>1, <2>2
  <2> QED
    BY <1>1, <1>5, <2>1, <2>3 DEF FailureHeard
<1> HIDE DEF d
<1> QED
  BY <1>1, <1>4, <1>6, <1>7, ReadStep

LEMMA EndStep ==
  ASSUME IInv, EndByteCodeSection
  PROVE  IInv'
<1>1. /\ outcome # Null /\ ~ outcome.native /\ runs = <<>> /\ phase' = "exited" /\ outcome' = Null
      /\ UNCHANGED <<contexts, current, runs, started, heard>>
  BY DEF EndByteCodeSection
<1>2. phase = "running" /\ TypeOK /\ Kept /\ Stacks /\ Nest
  BY <1>1 DEF IInv, Phases
<1>3. TypeOK' /\ Phases'
  BY <1>1, <1>2 DEF IInv, TypeOK, Phases
<1>4. Stacks' /\ Kept' /\ Nest'
  BY <1>1, <1>2 DEF Stacks, Stacked, Base, View, Share, Kept, Nest, Inner, StackState
<1>5. Exceptional' /\ Told' /\ FailureHeard'
  BY <1>1 DEF IInv, Exceptional, Told, FailureHeard
<1> QED
  BY <1>3, <1>4, <1>5 DEF IInv

LEMMA InitIInv ==
  ASSUME Init
  PROVE  IInv
<1>1. contexts = <<>> /\ runs = <<>> /\ started = 0 /\ current = 0
      /\ outcome = Null /\ heard = Null /\ phase = "loading"
  BY DEF Init
<1>2. TypeOK /\ Phases /\ Told /\ FailureHeard
  BY <1>1 DEF TypeOK, Phases, Told, FailureHeard
<1>3. DOMAIN runs = {} /\ DOMAIN contexts = {} /\ Len(runs) = 0 /\ MaxRuns \in Nat
  BY <1>1, ContextsAssumption
<1>4. Stacks /\ Kept /\ Nest /\ Exceptional
  BY <1>1, <1>3 DEF Stacks, Kept, Nest, Exceptional
<1> QED
  BY <1>2, <1>4 DEF IInv

\* A first program, which none started but the section itself.
LEMMA Started ==
  ASSUME IInv, phase = "loading", phase' = "running", started' = 1, current' = Len(contexts'),
         contexts' \in Seq(Records), UNCHANGED <<outcome, heard>>,
         \A k \in DOMAIN contexts' : contexts'[k].exception = Null,
         NEW r \in Runs, runs' = <<r>>, r.id = 1, r.context = current', current' >= 1,
         r.before = Null <=> ~ r.native,
         ~ r.native => Stacked(r, contexts'[current']) /\ contexts'[current'].capacity = StackSize,
         r.native =>
           /\ r.outer = r.before.current /\ r.context = r.outer + 1 /\ r.outer >= 1
           /\ contexts'[r.outer].stack = r.before.context.stack
           /\ contexts'[r.outer].frame = r.before.context.frame
           /\ contexts'[r.outer].target = r.before.context.target
  PROVE  IInv'
<1>1. /\ runs' \in Seq(Runs) /\ Len(runs') = 1 /\ DOMAIN runs' = 1 .. 1 /\ runs'[1] = r
      /\ Inner' = r /\ MaxRuns \in Nat /\ MaxRuns >= 1 /\ current' \in Nat
  <2>1. Len(contexts') \in Nat
    BY LenProperties
  <2> QED
    BY <2>1, ContextsAssumption DEF Inner, Last
<1>2. TypeOK' /\ Phases'
  BY <1>1 DEF IInv, TypeOK, Phases
<1>3. Nest'
  <2>1. runs' # <<>> => current' = Inner'.context
    BY <1>1
  <2>2. \A i \in 1 .. 1 : i = 1
    OBVIOUS
  <2>3. \A i \in DOMAIN runs' : runs'[i] = r /\ ~ (i > 1)
    BY <1>1, <2>2
  <2> QED
    BY <1>1, <2>1, <2>3 DEF Nest
<1>4. Kept'
  <2>1. \A i \in DOMAIN runs' : i = 1
    BY <1>1
  <2> QED
    BY <1>1, <2>1 DEF Kept
<1>5. Stacks'
  <2>1. \A i \in DOMAIN runs' : i = 1
    BY <1>1
  <2>2. View(1)' = contexts'[current']
    BY <1>1 DEF View
  <2>3. ~ r.native => Base(r) <= (1 - 1) * Share
    <3>1. Share \in Nat
      BY ContextsAssumption DEF Share, ArgumentWords
    <3> HIDE DEF Share
    <3> QED
      BY <3>1 DEF Base
  <2>4. ~ r.native => /\ Stacked(r, View(1)') /\ Base(r) <= (1 - 1) * Share
                      /\ contexts'[r.context].capacity = StackSize
    BY <2>2, <2>3
  <2> SUFFICES ASSUME NEW i \in DOMAIN runs', ~ runs'[i].native
               PROVE  /\ Stacked(runs'[i], View(i)') /\ Base(runs'[i]) <= (i - 1) * Share
                      /\ contexts'[runs'[i].context].capacity = StackSize
    BY DEF Stacks, Stacked, Base, Share
  <2>5. i = 1
    BY <2>1
  <2> QED
    BY <1>1, <2>4, <2>5
<1>6. Exceptional' /\ Told' /\ FailureHeard'
  <2>1. outcome' = Null /\ FailureHeard
    BY DEF IInv, Phases
  <2> QED
    BY <2>1 DEF Exceptional, Told, FailureHeard
<1> QED
  BY <1>2, <1>3, <1>4, <1>5, <1>6 DEF IInv

LEMMA StartByteCodeStep ==
  ASSUME IInv, phase = "loading", UNCHANGED <<outcome, heard>>, StartByteCode(0, 1)
  PROVE  IInv'
<1> DEFINE b == ByteContext(1)
           p == PushArguments(b, 1)
           c == Unloaded(p)
           d == Begun(c, 1)
           r == [id |-> 1, context |-> 1, saved |-> StackState(c), outer |-> 0,
                 native |-> FALSE, before |-> Null]
<1>1. /\ contexts' = <<d>> /\ current' = 1 /\ started' = 1 /\ phase' = "running" /\ runs' = <<r>>
  BY DEF StartByteCode, Begun
<1>2. b \in Records /\ b.exception = Null /\ b.stack = <<>> /\ b.capacity = 100
  <2>1. NoFrame \in Frames /\ <<>> \in Seq(Words) /\ StackSize \in Nat /\ StackSize = 100
    BY WordTypes DEF StackSize
  <2> HIDE DEF NoFrame, Frames, Words, Exceptions, StackSize
  <2> QED
    BY <2>1 DEF ByteContext, Records, Targets
<1> HIDE DEF b
<1>3. /\ p \in Records /\ Alike(b, p) /\ Len(p.stack) = 2
      /\ \A j \in 1 .. 2 : p.stack[j].run = 1
  <2>1. Len(b.stack) = 0 /\ Len(b.stack) + 2 <= b.capacity
    BY <1>2
  <2>3. /\ p \in Records /\ Alike(b, p) /\ Len(p.stack) = Len(b.stack) + 2
        /\ \A j \in Len(b.stack) + 1 .. Len(b.stack) + 2 : p.stack[j] = Word(1, "args")
    BY <1>2, <2>1, PushArgumentsFacts
  <2> HIDE DEF p
  <2>2. Len(p.stack) = 2 /\ \A j \in 1 .. 2 : p.stack[j] = Word(1, "args")
    BY <2>1, <2>3
  <2> QED
    BY <2>2, <2>3, WordTypes
<1> HIDE DEF p
<1>4. c \in Records /\ Alike(b, c) /\ c.stack = p.stack
  BY <1>3, UnloadedFacts DEF Alike
<1> HIDE DEF c
<1>5. /\ d \in Records /\ Alike(c, d) /\ d.frame.fp = 3 /\ Len(d.stack) = 3
      /\ \A j \in 1 .. 2 : d.stack[j] = c.stack[j]
      /\ d.stack[3].run = 1
  <2>1. Len(c.stack) = 2 /\ Len(c.stack) < c.capacity
    <3>1. c.capacity = 100 /\ c.stack = p.stack /\ Len(p.stack) = 2
      BY <1>2, <1>3, <1>4 DEF Alike
    <3> QED
      BY <3>1
  <2>2. /\ d \in Records /\ Alike(c, d)
        /\ d.frame.fp = Len(c.stack) + 1 /\ Len(d.stack) = Len(c.stack) + 1
        /\ \A j \in 1 .. Len(c.stack) : d.stack[j] = c.stack[j]
        /\ d.stack[Len(c.stack) + 1].run = 1
    BY <1>4, <2>1, InvokedFacts
  <2> HIDE DEF d
  <2> QED
    BY <2>1, <2>2
<1> HIDE DEF d
<1>6. \A j \in 1 .. 3 : d.stack[j].run = 1
  <2>1. \A j \in 1 .. 3 : j \in 1 .. 2 \/ j = 3
    OBVIOUS
  <2> QED
    BY <1>3, <1>4, <1>5, <2>1
<1>7. /\ r \in Runs /\ r.id = 1 /\ r.context = 1 /\ r.before = Null /\ r.native = FALSE
  <2>1. StackState(c) \in Saves
    BY <1>4, StateFacts
  <2> HIDE DEF Saves, Befores, Null
  <2> QED
    BY <2>1 DEF Runs
<1> HIDE DEF r
<1>8. Stacked(r, d)
  <2>1. Base(r) = 0 /\ MaxOwn \in Nat
    BY <1>7, ContextsAssumption DEF Base
  <2> QED
    BY <1>5, <1>6, <1>7, <2>1 DEF Stacked, ArgumentWords
<1>9. /\ contexts' \in Seq(Records) /\ Len(contexts') = 1 /\ contexts'[1] = d
      /\ \A k \in DOMAIN contexts' : contexts'[k].exception = Null
      /\ d.capacity = StackSize
  BY <1>1, <1>2, <1>4, <1>5 DEF Alike, StackSize
<1> QED
  BY <1>1, <1>7, <1>8, <1>9, Started

LEMMA StartNativeStep ==
  ASSUME IInv, phase = "loading", UNCHANGED <<outcome, heard>>, StartNative
  PROVE  IInv'
<1> DEFINE section == [NativeContext EXCEPT !.target = "native"]
           own == NativeOwn(1)
           b == [current |-> 1, context |-> section]
           r == [id |-> 1, context |-> 2, saved |-> Null, outer |-> 1, native |-> TRUE, before |-> b]
<1>1. /\ contexts' = <<section, own>> /\ current' = 2 /\ started' = 1 /\ phase' = "running"
      /\ runs' = <<r>>
  BY DEF StartNative, NativeOwn
<1>2. own \in Records /\ own.exception = Null
  BY NativeOwnFacts
<1>3. section \in Records /\ section.exception = Null
  <2> HIDE DEF NativeContext, Words, Frames, Exceptions
  <2> QED
    BY NativeContextFacts DEF Records, Targets
<1> HIDE DEF section, own
<1>4. b \in Befores /\ b # Null /\ b.current = 1 /\ b.context = section
  <2>1. "current" \in DOMAIN b /\ "current" \notin DOMAIN Null
    BY DEF Null
  <2>2. b # Null
    BY <2>1
  <2> HIDE DEF Records, Null
  <2> QED
    BY <1>3, <2>2 DEF Befores
<1> HIDE DEF b
<1>5. /\ r \in Runs /\ r.id = 1 /\ r.context = 2 /\ r.before = b /\ r.native = TRUE /\ r.outer = 1
  <2> HIDE DEF Saves, Befores, Null
  <2> QED
    BY <1>4 DEF Runs
<1> HIDE DEF r
<1>6. /\ contexts' \in Seq(Records) /\ Len(contexts') = 2 /\ contexts'[1] = section
      /\ \A k \in DOMAIN contexts' : contexts'[k].exception = Null
  <2>1. \A k \in 1 .. 2 : k = 1 \/ k = 2
    OBVIOUS
  <2> QED
    BY <1>1, <1>2, <1>3, <2>1
<1> QED
  BY <1>1, <1>4, <1>5, <1>6, Started

LEMMA LoadStep ==
  ASSUME IInv, NEW file \in Files, NEW entry \in {0, 1}, Load(file, entry)
  PROVE  IInv' /\ ~ (Len(runs') < Len(runs))
<1>1. /\ phase = "loading" /\ UNCHANGED <<outcome, heard>>
      /\ contexts = <<>> /\ runs = <<>> /\ started = 0 /\ Len(runs) = 0 /\ outcome = Null
  BY DEF Load, IInv, Phases
<1>2. \/ phase' = "refused" /\ UNCHANGED <<contexts, current, runs, started>>
      \/ StartByteCode(0, 1) \/ StartNative
  <2>1. \/ phase' = "refused" /\ UNCHANGED <<contexts, current, runs, started>>
        \/ StartByteCode(entry, 1) \/ StartNative
    BY DEF Load
  <2>2. CASE entry = 1 /\ StartByteCode(entry, 1)
    BY <2>2 DEF StartByteCode
  <2>3. entry = 0 \/ entry = 1
    OBVIOUS
  <2> QED
    BY <2>1, <2>2, <2>3
<1>3. CASE phase' = "refused" /\ UNCHANGED <<contexts, current, runs, started>>
  <2>1. TypeOK' /\ Phases'
    BY <1>1, <1>3 DEF IInv, TypeOK, Phases
  <2>2. Stacks' /\ Kept' /\ Nest'
    BY <1>1, <1>3 DEF IInv, Stacks, Kept, Nest
  <2>3. Exceptional' /\ Told' /\ FailureHeard'
    BY <1>1, <1>3 DEF IInv, Exceptional, Told, FailureHeard
  <2> QED
    BY <1>1, <1>3, <2>1, <2>2, <2>3 DEF IInv
<1>4. CASE StartByteCode(0, 1) \/ StartNative
  <2>1. IInv'
    BY <1>1, <1>4, StartByteCodeStep, StartNativeStep
  <2>2. Len(runs') \in Nat
    BY <2>1, LenProperties DEF IInv, TypeOK
  <2> QED
    BY <1>1, <2>1, <2>2
<1> QED
  BY <1>2, <1>3, <1>4

-----------------------------------------------------------------------------
(* The specification.                                                         *)

LEMMA Stuttering ==
  ASSUME IInv, UNCHANGED vars
  PROVE  IInv'
<1>1. TypeOK' /\ Phases' /\ Exceptional' /\ Told' /\ FailureHeard'
  BY DEF IInv, TypeOK, Phases, Exceptional, Told, FailureHeard, Context, vars
<1>2. Stacks' /\ Kept' /\ Nest'
  BY DEF IInv, Stacks, Stacked, Base, View, Share, Kept, Nest, Inner, StackState, vars
<1> QED
  BY <1>1, <1>2 DEF IInv

\* Every step keeps the invariant, and gives an evaluator back what it had.
LEMMA NextStep ==
  ASSUME IInv, ~ EvalFromNative, Next
  PROVE  IInv' /\ (Len(runs') < Len(runs) => Back)
<1>1. runs \in Seq(Runs) /\ Len(runs) \in Nat
  BY LenProperties DEF IInv, TypeOK
<1>2. CASE \E file \in Files, entry \in {0, 1} : Load(file, entry)
  BY <1>2, LoadStep
<1>3. CASE Work
  <2>1. runs' = runs
    BY <1>3 DEF Work
  <2>2. ~ (Len(runs') < Len(runs))
    BY <1>1, <2>1
  <2> QED
    BY <1>3, <2>2, WorkStep
<1>4. CASE EvalNative
  <2>1. PICK r : runs' = Append(runs, r)
    BY <1>4 DEF EvalNative
  <2>2. Len(runs') = Len(runs) + 1
    BY <1>1, <2>1
  <2> QED
    BY <1>1, <1>4, <2>2, EvalNativeStep
<1>5. CASE Fail
  BY <1>5, FailStep
<1>6. ASSUME NEW start \in 0 .. MaxRuns + 1, Eval(start)
      PROVE  IInv' /\ (Len(runs') < Len(runs) => Back)
  <2>1. IInv'
    BY <1>6, EvalAccepted, EvalRefused
  <2>2. runs' = runs \/ \E r : runs' = Append(runs, r)
    BY <1>6 DEF Eval
  <2>3. ~ (Len(runs') < Len(runs))
    BY <1>1, <2>2
  <2> QED
    BY <2>1, <2>3
<1>7. CASE \E value \in {"0", "INT_MIN"} : Return(value) \/ ReturnNative(value)
  BY <1>7, ReturnStep, ReturnNativeStep
<1>8. CASE \E u \in Unwindings : Raise(u)
  BY <1>8, RaiseStep
<1>9. CASE TakeValue \/ TakeException \/ EndByteCodeSection
  <2>1. runs' = runs
    BY <1>9 DEF TakeValue, TakeException, EndByteCodeSection
  <2>2. ~ (Len(runs') < Len(runs))
    BY <1>1, <2>1
  <2> QED
    BY <1>9, <2>2, TakeValueStep, TakeExceptionStep, EndStep
<1> QED
  BY <1>2, <1>3, <1>4, <1>5, <1>6, <1>7, <1>8, <1>9 DEF Next

LEMMA Invariance ==
  ASSUME ~ EvalFromNative
  PROVE  Spec => []IInv
<1>1. IInv /\ [Next]_vars => IInv'
  BY NextStep, Stuttering
<1>2. Init => IInv
  BY InitIInv
<1> QED
  BY <1>1, <1>2, PTL DEF Spec

\* An evaluator hears of every failure and of no other, with the stack of the
\* program that failed, whatever ran before or inside it, in runs of any length.
THEOREM FailureSafety ==
  ASSUME ~ EvalFromNative
  PROVE  Spec => []FailureHeard
<1>1. IInv => FailureHeard
  BY DEF IInv
<1> QED
  BY <1>1, Invariance, PTL

\* An evaluator has its context, its stack, its frame and its target again when
\* the program it started has ended, in whatever way.
THEOREM CallerSafety ==
  ASSUME ~ EvalFromNative
  PROVE  Spec => CallerUntouched
<1> DEFINE Kind == Len(runs') < Len(runs) /\ Inner.before # Null =>
             LET before == Inner.before.context  after == contexts'[current']
             IN  /\ current' = Inner.before.current
                 /\ after.stack = before.stack /\ after.frame = before.frame
                 /\ after.target = before.target
<1>1. IInv /\ [Next]_vars => [Kind]_vars
  BY NextStep DEF Back
<1>2. CallerUntouched <=> [][Kind]_vars
  BY DEF CallerUntouched
<1> HIDE DEF Kind
<1> QED
  BY <1>1, <1>2, Invariance, PTL DEF Spec

-----------------------------------------------------------------------------
(* The exception table and the walk over the frames, for any layout.          *)

LEMMA Least ==
  ASSUME NEW T, T \subseteq Nat, T # {}
  PROVE  \E m \in T : \A x \in T : m <= x
<1> DEFINE Chain == {0 .. m : m \in T}
<1>1. Chain \subseteq FiniteSubsetsOf(Nat) /\ Chain # {}
  <2>1. \A m \in T : m \in Int /\ 0 .. m \in SUBSET Nat
    OBVIOUS
  <2>2. \A m \in T : IsFiniteSet(0 .. m)
    <3> TAKE m \in T
    <3> HIDE DEF Chain
    <3> QED
      BY <2>1, FS_Interval, 0 \in Int
  <2> QED
    BY <2>1, <2>2 DEF FiniteSubsetsOf
<1>2. \E c \in Chain : \A d \in Chain : <<d, c>> \notin StrictSubsetOrdering(Nat)
  <2> HIDE DEF Chain
  <2> QED
    BY <1>1, FS_StrictSubsetOrderingWellFounded, WFMin
<1>3. PICK m \in T : \A x \in T : <<0 .. x, 0 .. m>> \notin StrictSubsetOrdering(Nat)
  BY <1>2
<1>4. ASSUME NEW x \in T, x < m
      PROVE  <<0 .. x, 0 .. m>> \in StrictSubsetOrdering(Nat)
  <2>1. m \in Nat /\ x \in Nat
    OBVIOUS
  <2>2. 0 .. x \in SUBSET Nat /\ 0 .. m \in SUBSET Nat /\ 0 .. x \subseteq 0 .. m
    BY <2>1, <1>4
  <2>3. m \in 0 .. m /\ m \notin 0 .. x
    BY <2>1, <1>4
  <2> QED
    BY <2>2, <2>3 DEF StrictSubsetOrdering
<1>5. \A x \in T : ~ (x < m)
  BY <1>3, <1>4
<1>6. \A x \in T : x \in Nat /\ m \in Nat
  OBVIOUS
<1> HIDE DEF Chain
<1> QED
  BY <1>5, <1>6

\* Where the segments end: what the recursive definition picks exists.
IsEnds(f, image, n) ==
  f = [m \in 0 .. n |-> IF m = 0 THEN 0 ELSE f[m - 1] + image[m].length]
Ends(image) == CHOOSE f : IsEnds(f, image, Len(image))

LEMMA OffsetIs ==
  ASSUME NEW image, NEW s
  PROVE  Offset(image, s) = Ends(image)[s - 1]
BY DEF Offset, Ends, IsEnds

LEMMA EndsExist ==
  ASSUME NEW image, NEW n \in Nat
  PROVE  \E f : IsEnds(f, image, n)
<1> DEFINE Never == {k \in Nat : ~ \E f : IsEnds(f, image, k)}
<1>1. 0 \notin Never
  <2> DEFINE f == [m \in 0 .. 0 |-> 0]
  <2>1. f = [m \in 0 .. 0 |-> IF m = 0 THEN 0 ELSE f[m - 1] + image[m].length]
    OBVIOUS
  <2>2. IsEnds(f, image, 0)
    BY <2>1 DEF IsEnds
  <2> QED
    BY <2>2
<1>2. ASSUME NEW k \in Nat, k \notin Never PROVE k + 1 \notin Never
  <2>1. PICK f : IsEnds(f, image, k)
    BY <1>2
  <2> DEFINE last == f[k] + image[k + 1].length
             g == [m \in 0 .. k + 1 |-> IF m <= k THEN f[m] ELSE last]
  <2>2. /\ \A m \in 0 .. k : g[m] = f[m]
        /\ g[k + 1] = last
        /\ g = [m \in 0 .. k + 1 |-> g[m]]
    OBVIOUS
  <2>3. \A m \in 0 .. k : f[m] = IF m = 0 THEN 0 ELSE f[m - 1] + image[m].length
    BY <2>1 DEF IsEnds
  <2> HIDE DEF g
  <2>4. ASSUME NEW m \in 0 .. k + 1
        PROVE  g[m] = IF m = 0 THEN 0 ELSE g[m - 1] + image[m].length
    <3>1. CASE m \in 0 .. k
      <4>1. m # 0 => m - 1 \in 0 .. k
        BY <3>1
      <4>2. g[m] = f[m] /\ (m # 0 => g[m - 1] = f[m - 1])
        BY <2>2, <3>1, <4>1
      <4> QED
        BY <2>3, <3>1, <4>2
    <3>2. CASE m = k + 1
      <4>1. k \in 0 .. k /\ m - 1 = k /\ m # 0
        BY <3>2
      <4>2. g[k] = f[k]
        BY <2>2, <4>1
      <4> QED
        BY <2>2, <3>2, <4>1, <4>2
    <3> QED
      BY <3>1, <3>2
  <2>5. IsEnds(g, image, k + 1)
    BY <2>2, <2>4 DEF IsEnds
  <2> QED
    BY <2>5
<1>3. Never = {}
  <2>1. SUFFICES ASSUME Never # {} PROVE FALSE
    OBVIOUS
  <2>2. PICK m \in Never : \A k \in Never : m <= k
    <3>1. Never \subseteq Nat
      OBVIOUS
    <3> HIDE DEF Never
    <3> QED
      BY <2>1, <3>1, Least
  <2>3. m \in Nat /\ m # 0
    BY <1>1, <2>2
  <2>4. m - 1 \in Nat /\ m - 1 \notin Never
    BY <2>2, <2>3
  <2>5. m - 1 + 1 \notin Never
    BY <1>2, <2>4
  <2> QED
    BY <2>2, <2>3, <2>5
<1> QED
  BY <1>3

\* The table after some of the segments.
IsSteps(f, image, n) ==
  f = [m \in 0 .. n |->
         IF m = 0 THEN <<>> ELSE emitExceptionEntry(f[m - 1], Offset(image, m), image[m].handler)]
Steps(image) == CHOOSE f : IsSteps(f, image, Len(image))

LEMMA StepsExist ==
  ASSUME NEW image, NEW n \in Nat
  PROVE  \E f : IsSteps(f, image, n)
<1> DEFINE Never == {k \in Nat : ~ \E f : IsSteps(f, image, k)}
<1>1. 0 \notin Never
  <2> DEFINE f == [m \in 0 .. 0 |-> <<>>]
  <2>1. f = [m \in 0 .. 0 |-> IF m = 0 THEN <<>> ELSE emitExceptionEntry(f[m - 1], Offset(image, m), image[m].handler)]
    OBVIOUS
  <2>2. IsSteps(f, image, 0)
    BY <2>1 DEF IsSteps
  <2> QED
    BY <2>2
<1>2. ASSUME NEW k \in Nat, k \notin Never PROVE k + 1 \notin Never
  <2>1. PICK f : IsSteps(f, image, k)
    BY <1>2
  <2> DEFINE last == emitExceptionEntry(f[k], Offset(image, k + 1), image[k + 1].handler)
             g == [m \in 0 .. k + 1 |-> IF m <= k THEN f[m] ELSE last]
  <2>2. /\ \A m \in 0 .. k : g[m] = f[m]
        /\ g[k + 1] = last
        /\ g = [m \in 0 .. k + 1 |-> g[m]]
    OBVIOUS
  <2>3. \A m \in 0 .. k : f[m] = IF m = 0 THEN <<>> ELSE emitExceptionEntry(f[m - 1], Offset(image, m), image[m].handler)
    BY <2>1 DEF IsSteps
  <2> HIDE DEF g
  <2>4. ASSUME NEW m \in 0 .. k + 1
        PROVE  g[m] = IF m = 0 THEN <<>> ELSE emitExceptionEntry(g[m - 1], Offset(image, m), image[m].handler)
    <3>1. CASE m \in 0 .. k
      <4>1. m # 0 => m - 1 \in 0 .. k
        BY <3>1
      <4>2. g[m] = f[m] /\ (m # 0 => g[m - 1] = f[m - 1])
        BY <2>2, <3>1, <4>1
      <4> QED
        BY <2>3, <3>1, <4>2
    <3>2. CASE m = k + 1
      <4>1. k \in 0 .. k /\ m - 1 = k /\ m # 0
        BY <3>2
      <4>2. g[k] = f[k]
        BY <2>2, <4>1
      <4> QED
        BY <2>2, <3>2, <4>1, <4>2
    <3> QED
      BY <3>1, <3>2
  <2>5. IsSteps(g, image, k + 1)
    BY <2>2, <2>4 DEF IsSteps
  <2> QED
    BY <2>5
<1>3. Never = {}
  <2>1. SUFFICES ASSUME Never # {} PROVE FALSE
    OBVIOUS
  <2>2. PICK m \in Never : \A k \in Never : m <= k
    <3>1. Never \subseteq Nat
      OBVIOUS
    <3> HIDE DEF Never
    <3> QED
      BY <2>1, <3>1, Least
  <2>3. m \in Nat /\ m # 0
    BY <1>1, <2>2
  <2>4. m - 1 \in Nat /\ m - 1 \notin Never
    BY <2>2, <2>3
  <2>5. m - 1 + 1 \notin Never
    BY <1>2, <2>4
  <2> QED
    BY <2>2, <2>3, <2>5
<1> QED
  BY <1>3

-----------------------------------------------------------------------------
(* Where segments lie.                                                        *)

Handlers(image) == {0, Len(image)}

LEMMA Layout ==
  ASSUME NEW image, IsLayout(image)
  PROVE  /\ Len(image) \in Nat \ {0} /\ DOMAIN image = 1 .. Len(image)
         /\ Last(image) = image[Len(image)]
         /\ \A s \in 1 .. Len(image) : image[s].length \in Nat /\ image[s].handler \in Handlers(image)
         /\ image[Len(image)].handler = 0
<1> DEFINE S == [function : STRING, length : Nat, handler : {0, Len(image)}]
<1>1. image \in Seq(S) /\ image # <<>> /\ Last(image).handler = 0
  BY DEF IsLayout
<1>2. Last(image) = image[Len(image)]
  BY DEF Last
<1>3. \A r \in S : r.length \in Nat /\ r.handler \in {0, Len(image)}
  OBVIOUS
<1> HIDE DEF S
<1>4. Len(image) \in Nat \ {0} /\ DOMAIN image = 1 .. Len(image)
  BY <1>1
<1>5. \A s \in 1 .. Len(image) : image[s] \in S
  BY <1>1
<1> QED
  BY <1>1, <1>2, <1>3, <1>4, <1>5 DEF Handlers

LEMMA Offsets ==
  ASSUME NEW image, IsLayout(image)
  PROVE  /\ Offset(image, 1) = 0
         /\ \A s \in 1 .. Len(image) :
              /\ Offset(image, s) \in Nat /\ Offset(image, s + 1) \in Nat
              /\ Offset(image, s + 1) = Offset(image, s) + image[s].length
<1> DEFINE n == Len(image)
           f == Ends(image)
<1>1. n \in Nat \ {0} /\ \A s \in 1 .. n : image[s].length \in Nat
  BY Layout
<1>2. IsEnds(f, image, n)
  BY <1>1, EndsExist DEF Ends
<1>3. /\ \A s : Offset(image, s) = f[s - 1]
  BY OffsetIs
<1> HIDE DEF n, f
<1>4. f[0] = 0 /\ \A m \in 1 .. n : f[m] = f[m - 1] + image[m].length
  BY <1>1, <1>2 DEF IsEnds
<1> DEFINE Odd == {m \in 0 .. n : f[m] \notin Nat}
<1>5. Odd = {}
  <2>1. SUFFICES ASSUME Odd # {} PROVE FALSE
    OBVIOUS
  <2>2. PICK m \in Odd : \A k \in Odd : m <= k
    <3>1. Odd \subseteq Nat
      BY <1>1
    <3> HIDE DEF Odd
    <3> QED
      BY <2>1, <3>1, Least
  <2>3. m \in 0 .. n /\ m # 0
    BY <1>4, <2>2
  <2>4. m - 1 \in 0 .. n /\ m - 1 \notin Odd /\ m \in 1 .. n
    BY <1>1, <2>2, <2>3
  <2>5. f[m - 1] \in Nat /\ image[m].length \in Nat /\ f[m] = f[m - 1] + image[m].length
    BY <1>1, <1>4, <2>4
  <2> QED
    BY <2>2, <2>5
<1>6. ASSUME NEW s \in 1 .. n
      PROVE  /\ Offset(image, s) \in Nat /\ Offset(image, s + 1) \in Nat
             /\ Offset(image, s + 1) = Offset(image, s) + image[s].length
  <2>1. s - 1 \in 0 .. n /\ s \in 0 .. n /\ s + 1 - 1 = s
    BY <1>1
  <2>2. Offset(image, s) = f[s - 1] /\ Offset(image, s + 1) = f[s]
    BY <1>3, <2>1
  <2>3. f[s - 1] \in Nat /\ f[s] \in Nat
    BY <1>5, <2>1
  <2> QED
    BY <1>4, <2>2, <2>3
<1>7. Offset(image, 1) = 0
  BY <1>3, <1>4
<1> QED
  BY <1>6, <1>7 DEF n

LEMMA Ascending ==
  ASSUME NEW image, IsLayout(image), NEW p \in 1 .. Len(image) + 1, NEW s \in 1 .. Len(image) + 1,
         p <= s
  PROVE  /\ Offset(image, p) <= Offset(image, s)
         /\ Offset(image, p) \in Nat /\ Offset(image, s) \in Nat
<1> DEFINE n == Len(image)
<1>1. n \in Nat \ {0} /\ \A i \in 1 .. n : image[i].length \in Nat
  BY Layout
<1>2. \A i \in 1 .. n : /\ Offset(image, i) \in Nat /\ Offset(image, i + 1) \in Nat
                        /\ Offset(image, i + 1) = Offset(image, i) + image[i].length
  BY Offsets
<1>0. p \in 1 .. n + 1 /\ s \in 1 .. n + 1
  OBVIOUS
<1> HIDE DEF n
<1>3. \A i \in 1 .. n + 1 : Offset(image, i) \in Nat
  <2> TAKE i \in 1 .. n + 1
  <2>1. CASE i \in 1 .. n
    BY <1>2, <2>1
  <2>2. CASE i = n + 1
    <3>1. n \in 1 .. n
      BY <1>1
    <3> QED
      BY <1>2, <2>2, <3>1
  <2> QED
    BY <1>1, <2>1, <2>2
<1> DEFINE Odd == {k \in Nat : k \in p .. n + 1 /\ ~ (Offset(image, p) <= Offset(image, k))}
<1>4. Odd = {}
  <2>1. SUFFICES ASSUME Odd # {} PROVE FALSE
    OBVIOUS
  <2>2. PICK m \in Odd : \A k \in Odd : m <= k
    <3>1. Odd \subseteq Nat
      OBVIOUS
    <3> HIDE DEF Odd
    <3> QED
      BY <2>1, <3>1, Least
  <2>3. m \in p .. n + 1 /\ m # p /\ m - 1 \in p .. n + 1 /\ m - 1 \in 1 .. n
    <3>1. m \in p .. n + 1 /\ ~ (Offset(image, p) <= Offset(image, m))
      BY <2>2
    <3>2. Offset(image, p) \in Nat
      BY <1>0, <1>3
    <3>3. m # p
      BY <3>1, <3>2
    <3> HIDE DEF Odd
    <3> QED
      BY <1>0, <1>1, <3>1, <3>3
  <2>4. m - 1 \notin Odd
    BY <2>2, <2>3
  <2>5. Offset(image, p) <= Offset(image, m - 1)
    BY <1>0, <1>1, <2>3, <2>4
  <2>6. /\ Offset(image, m - 1) \in Nat /\ Offset(image, m - 1 + 1) \in Nat /\ image[m - 1].length \in Nat
        /\ Offset(image, m - 1 + 1) = Offset(image, m - 1) + image[m - 1].length
    BY <1>1, <1>2, <2>3
  <2>7. m - 1 + 1 = m /\ Offset(image, p) \in Nat
    BY <1>0, <1>3, <2>3
  <2>8. Offset(image, p) <= Offset(image, m)
    <3> DEFINE a == Offset(image, p)
               b == Offset(image, m - 1)
               c == Offset(image, m)
               l == image[m - 1].length
    <3>1. a \in Nat /\ b \in Nat /\ c \in Nat /\ l \in Nat /\ c = b + l /\ a <= b
      BY <2>5, <2>6, <2>7
    <3> HIDE DEF a, b, c, l
    <3>2. a <= c
      BY <3>1
    <3> QED
      BY <3>2 DEF a, c
  <2> QED
    BY <2>2, <2>8
<1>5. s \in p .. n + 1 /\ s \in Nat
  BY <1>0, <1>1
<1> QED
  BY <1>0, <1>3, <1>4, <1>5

\* An instruction of a segment, and that no segment begins inside of another.
Within(image, s, x) == x \in Int /\ Offset(image, s) <= x /\ x < Offset(image, s + 1)

LEMMA Begins ==
  ASSUME NEW image, IsLayout(image), NEW s \in 1 .. Len(image), NEW p \in 1 .. Len(image),
         NEW x, Within(image, s, x), Offset(image, p) <= x
  PROVE  p <= s /\ Offset(image, p) <= Offset(image, s)
<1>1. Len(image) \in Nat \ {0}
  BY Layout
<1>2. p \in 1 .. Len(image) + 1 /\ s \in 1 .. Len(image) + 1 /\ s + 1 \in 1 .. Len(image) + 1
  BY <1>1
<1>3. p <= s
  <2>1. SUFFICES ASSUME ~ (p <= s) PROVE FALSE
    OBVIOUS
  <2>2. s + 1 <= p
    BY <1>1, <2>1
  <2>3. /\ Offset(image, s + 1) <= Offset(image, p)
        /\ Offset(image, p) \in Nat /\ Offset(image, s + 1) \in Nat
    BY <1>2, <2>2, Ascending
  <2>4. x \in Int /\ x < Offset(image, s + 1)
    BY DEF Within
  <2> QED
    BY <2>3, <2>4
<1> QED
  BY <1>2, <1>3, Ascending

LEMMA Inside ==
  ASSUME NEW image, IsLayout(image), NEW s \in 1 .. Len(image), NEW x, Within(image, s, x)
  PROVE  x \in 0 .. Offset(image, Len(image) + 1) - 1 /\ x < MaxInt
<1>1. Len(image) \in Nat \ {0}
  BY Layout
<1>2. s + 1 \in 1 .. Len(image) + 1 /\ Len(image) + 1 \in 1 .. Len(image) + 1 /\ s + 1 <= Len(image) + 1
  BY <1>1
<1>3. /\ Offset(image, s + 1) <= Offset(image, Len(image) + 1)
      /\ Offset(image, s + 1) \in Nat /\ Offset(image, Len(image) + 1) \in Nat
  BY <1>2, Ascending
<1>4. Offset(image, s) \in Nat
  BY Offsets
<1>5. Offset(image, Len(image) + 1) < MaxInt /\ MaxInt \in Nat
  BY DEF IsLayout, MaxInt
<1> DEFINE e == Offset(image, Len(image) + 1)
           a == Offset(image, s)
           b == Offset(image, s + 1)
           max == MaxInt
<1>6. x \in Int /\ Offset(image, s) <= x /\ x < Offset(image, s + 1)
  BY DEF Within
<1>7. /\ x \in Int /\ a <= x /\ x < b /\ b <= e /\ e < max
      /\ a \in Nat /\ b \in Nat /\ e \in Nat /\ max \in Nat
  BY <1>3, <1>4, <1>5, <1>6
<1> HIDE DEF a, b, e, max
<1>8. x \in 0 .. e - 1 /\ x < max
  BY <1>7
<1> QED
  BY <1>8 DEF e, max

-----------------------------------------------------------------------------
(* What the table holds after some of the segments.                           *)

Entries(image) == [location : Nat, handler : Handlers(image)]

\* The entry i is the one of the location x, before the last entry is added.
Covers(t, i, x) == t[i].location <= x /\ (i = Len(t) \/ x < t[i + 1].location)

\* An entry begins where a segment does, none before the first guarded one.
Placed(image, t, s) ==
  \A i \in 1 .. Len(t) : \E p \in 1 .. s :
    t[i].location = Offset(image, p) /\ \E q \in 1 .. p : image[q].handler # 0

\* The entry of a location has the handler of its segment ...
Correct(image, t, s) ==
  \A i \in 1 .. Len(t), q \in 1 .. s : \A x :
    Within(image, q, x) /\ Covers(t, i, x) => t[i].handler = image[q].handler

\* ... and there is one in a guarded segment.
Complete(image, t, s) ==
  \A q \in 1 .. s : image[q].handler # 0 =>
    \A x : Within(image, q, x) => \E i \in 1 .. Len(t) : Covers(t, i, x)

\* Where emission stands.
Latest(image, t, s) ==
  /\ t = <<>> => \A q \in 1 .. s : image[q].handler = 0
  /\ t # <<>> => s # 0 /\ t[Len(t)].handler = image[s].handler

Emits(image, t, s) ==
  /\ t \in Seq(Entries(image)) /\ Placed(image, t, s) /\ Correct(image, t, s)
  /\ Complete(image, t, s) /\ Latest(image, t, s)

LEMMA EarlierEntries ==
  ASSUME NEW image, IsLayout(image), NEW s \in Nat, s < Len(image),
         NEW t \in Seq(Entries(image)), Placed(image, t, s)
  PROVE  /\ \A i \in 1 .. Len(t) : t[i].location \in Nat /\ t[i].location <= Offset(image, s + 1)
         /\ \A q \in 1 .. s : \A x : Within(image, q, x) => x < Offset(image, s + 1)
         /\ Offset(image, s + 1) \in Nat
<1>1. Len(image) \in Nat \ {0}
  BY Layout
<1>2. s + 1 \in 1 .. Len(image) + 1 /\ 1 .. s \subseteq 1 .. Len(image) + 1 /\ s + 1 \in 1 .. Len(image)
  BY <1>1
<1>3. \A p \in 1 .. Len(image) + 1 : p <= s + 1 =>
        /\ Offset(image, p) <= Offset(image, s + 1)
        /\ Offset(image, p) \in Nat /\ Offset(image, s + 1) \in Nat
  BY <1>2, Ascending
<1>4. ASSUME NEW i \in 1 .. Len(t)
      PROVE  t[i].location \in Nat /\ t[i].location <= Offset(image, s + 1)
  <2>1. PICK p \in 1 .. s : t[i].location = Offset(image, p)
    BY DEF Placed
  <2>2. p <= s + 1 /\ p \in 1 .. Len(image) + 1
    BY <1>2
  <2> QED
    BY <1>3, <2>1, <2>2
<1>5. ASSUME NEW q \in 1 .. s, NEW x, Within(image, q, x)
      PROVE  x < Offset(image, s + 1)
  <2>1. q + 1 \in 1 .. Len(image) + 1 /\ q + 1 <= s + 1
    BY <1>1
  <2>2. /\ Offset(image, q + 1) <= Offset(image, s + 1)
        /\ Offset(image, q + 1) \in Nat /\ Offset(image, s + 1) \in Nat
    BY <1>3, <2>1
  <2>3. x \in Int /\ x < Offset(image, q + 1)
    BY <1>5 DEF Within
  <2> QED
    BY <2>2, <2>3
<1>6. Offset(image, s + 1) \in Nat
  BY <1>2, Offsets
<1> QED
  BY <1>4, <1>5, <1>6

LEMMA Unchanged ==
  ASSUME NEW image, IsLayout(image), NEW s \in Nat, s < Len(image), NEW t, Emits(image, t, s),
         \/ t = <<>> /\ image[s + 1].handler = 0
         \/ t # <<>> /\ t[Len(t)].handler = image[s + 1].handler
  PROVE  Emits(image, t, s + 1)
<1> DEFINE m == s + 1
           o == Offset(image, m)
<1>1. /\ t \in Seq(Entries(image)) /\ Placed(image, t, s) /\ Correct(image, t, s)
      /\ Complete(image, t, s) /\ Latest(image, t, s)
  BY DEF Emits
<1>2. /\ \A i \in 1 .. Len(t) : t[i].location \in Nat /\ t[i].location <= o
      /\ \A q \in 1 .. s : \A x : Within(image, q, x) => x < o
      /\ o \in Nat
  BY <1>1, EarlierEntries
<1>3. \A x : Within(image, m, x) => x \in Int /\ o <= x
  BY DEF Within
<1>4. Len(t) \in Nat /\ (t = <<>> => Len(t) = 0) /\ (t # <<>> => Len(t) # 0)
  BY <1>1, EmptySeq
<1>5. m \in Nat /\ m # 0 /\ 1 .. m = 1 .. s \cup {m} /\ 1 .. s \subseteq 1 .. m
  OBVIOUS
<1>6. ASSUME NEW i \in 1 .. Len(t), NEW x, Within(image, m, x), Covers(t, i, x)
      PROVE  i = Len(t)
  <2>1. SUFFICES ASSUME i # Len(t) PROVE FALSE
    OBVIOUS
  <2>2. i + 1 \in 1 .. Len(t) /\ x < t[i + 1].location
    BY <1>4, <1>6, <2>1 DEF Covers
  <2>3. x \in Int /\ o <= x /\ t[i + 1].location \in Nat /\ t[i + 1].location <= o
    BY <1>2, <1>3, <1>6, <2>2
  <2> DEFINE l == t[i + 1].location
  <2> HIDE DEF l, o
  <2> QED
    BY <1>2, <2>2, <2>3 DEF l
<1> HIDE DEF o
<1>7. Placed(image, t, m)
  BY <1>1, <1>5 DEF Placed
<1>8. Correct(image, t, m)
  <2>1. ASSUME NEW i \in 1 .. Len(t), NEW q \in 1 .. m, NEW x, Within(image, q, x), Covers(t, i, x)
        PROVE  t[i].handler = image[q].handler
    <3>1. CASE q \in 1 .. s
      BY <1>1, <2>1, <3>1 DEF Correct
    <3>2. CASE q = m
      <4>1. i = Len(t)
        BY <1>6, <2>1, <3>2
      <4>2. t # <<>>
        BY <1>4
      <4> QED
        BY <3>2, <4>1, <4>2
    <3> QED
      BY <1>5, <3>1, <3>2
  <2> QED
    BY <2>1 DEF Correct
<1>9. Complete(image, t, m)
  <2>1. ASSUME NEW q \in 1 .. m, image[q].handler # 0, NEW x, Within(image, q, x)
        PROVE  \E i \in 1 .. Len(t) : Covers(t, i, x)
    <3>1. CASE q \in 1 .. s
      BY <1>1, <2>1, <3>1 DEF Complete
    <3>2. CASE q = m
      <4>1. t # <<>>
        BY <2>1, <3>2
      <4>2. Len(t) \in 1 .. Len(t)
        BY <1>4, <4>1
      <4>3. t[Len(t)].location <= x
        <5> DEFINE l == t[Len(t)].location
        <5>1. l \in Nat /\ l <= o /\ x \in Int /\ o <= x
          BY <1>2, <1>3, <2>1, <3>2, <4>2
        <5> HIDE DEF l
        <5>2. l <= x
          BY <1>2, <5>1
        <5> QED
          BY <5>2 DEF l
      <4> QED
        BY <4>2, <4>3 DEF Covers
    <3> QED
      BY <1>5, <3>1, <3>2
  <2> QED
    BY <2>1 DEF Complete
<1>10. Latest(image, t, m)
  <2>1. t = <<>> => \A q \in 1 .. m : image[q].handler = 0
    BY <1>1, <1>5 DEF Latest
  <2> QED
    BY <1>5, <2>1 DEF Latest
<1> QED
  BY <1>1, <1>7, <1>8, <1>9, <1>10 DEF Emits

LEMMA Extended ==
  ASSUME NEW image, IsLayout(image), NEW s \in Nat, s < Len(image), NEW t, Emits(image, t, s),
         t # <<>> \/ image[s + 1].handler # 0, NEW u,
         u = Append(t, [location |-> Offset(image, s + 1), handler |-> image[s + 1].handler])
  PROVE  Emits(image, u, s + 1)
<1> DEFINE m == s + 1
           o == Offset(image, m)
           n == Len(t)
           h == image[m].handler
           e == [location |-> o, handler |-> h]
<1>1. /\ t \in Seq(Entries(image)) /\ Placed(image, t, s) /\ Correct(image, t, s)
      /\ Complete(image, t, s) /\ Latest(image, t, s)
  BY DEF Emits
<1>2. /\ \A i \in 1 .. n : t[i].location \in Nat /\ t[i].location <= o
      /\ \A q \in 1 .. s : \A x : Within(image, q, x) => x < o
      /\ o \in Nat
  BY <1>1, EarlierEntries
<1>3. \A x : Within(image, m, x) => x \in Int /\ o <= x
  BY DEF Within
<1>4. n \in Nat /\ (t = <<>> => n = 0) /\ (t # <<>> => n # 0)
  BY <1>1, EmptySeq
<1>5. m \in Nat /\ m # 0 /\ 1 .. m = 1 .. s \cup {m} /\ 1 .. s \subseteq 1 .. m
  OBVIOUS
<1>6. e \in Entries(image) /\ e.location = o /\ e.handler = h
  <2>1. m \in 1 .. Len(image)
    BY Layout
  <2>2. h \in Handlers(image)
    BY <2>1, Layout
  <2> HIDE DEF o, h
  <2> QED
    BY <1>2, <2>2 DEF Entries
<1>7. u = Append(t, e)
  OBVIOUS
<1> HIDE DEF o, h, e
<1>8. /\ u \in Seq(Entries(image)) /\ Len(u) = n + 1 /\ u[n + 1] = e
      /\ \A i \in 1 .. n : u[i] = t[i]
  <2> DEFINE S == Entries(image)
  <2>1. t \in Seq(S) /\ e \in S
    BY <1>1, <1>6
  <2> HIDE DEF S
  <2> QED
    BY <1>7, <2>1 DEF S
<1> HIDE DEF n
<1>9. u[n + 1].location = o /\ u[n + 1].handler = h /\ 1 .. n + 1 = 1 .. n \cup {n + 1}
  BY <1>4, <1>6, <1>8
<1>10. ASSUME NEW i \in 1 .. n, NEW x, x \in Int
       PROVE  Covers(u, i, x) <=> Covers(t, i, x) /\ (i = n => x < o)
  <2>1. u[i] = t[i] /\ i # n + 1
    BY <1>4, <1>8
  <2>2. CASE i = n
    BY <1>8, <1>9, <2>1, <2>2 DEF Covers, n
  <2>3. CASE i # n
    <3>1. i + 1 \in 1 .. n
      BY <1>4, <2>3
    <3>2. u[i + 1] = t[i + 1]
      BY <1>8, <3>1
    <3> QED
      BY <1>8, <2>1, <2>3, <3>2 DEF Covers, n
  <2> QED
    BY <2>2, <2>3
<1>11. ASSUME NEW i \in 1 .. n, NEW x, Within(image, m, x)
       PROVE  ~ Covers(u, i, x)
  <2>1. SUFFICES ASSUME Covers(u, i, x) PROVE FALSE
    OBVIOUS
  <2>2. x \in Int /\ o <= x
    BY <1>3, <1>11
  <2>3. CASE i = n
    BY <1>2, <1>10, <2>1, <2>2, <2>3
  <2>4. CASE i # n
    <3>1. i + 1 \in 1 .. n /\ x < t[i + 1].location
      BY <1>4, <1>10, <2>1, <2>2, <2>4 DEF Covers, n
    <3> DEFINE l == t[i + 1].location
    <3>2. l \in Nat /\ l <= o /\ x < l
      BY <1>2, <3>1
    <3> HIDE DEF l
    <3> QED
      BY <1>2, <2>2, <3>2
  <2> QED
    BY <2>3, <2>4
<1>12. ASSUME NEW x, x \in Int
       PROVE  Covers(u, n + 1, x) <=> o <= x
  BY <1>8, <1>9 DEF Covers
<1>13. Placed(image, u, m)
  <2>1. ASSUME NEW i \in 1 .. Len(u)
        PROVE  \E p \in 1 .. m : u[i].location = Offset(image, p) /\ \E q \in 1 .. p : image[q].handler # 0
    <3>1. CASE i \in 1 .. n
      <4>1. \E p \in 1 .. s : t[i].location = Offset(image, p) /\ \E q \in 1 .. p : image[q].handler # 0
        BY <1>1, <3>1 DEF Placed, n
      <4> QED
        BY <1>5, <1>8, <3>1, <4>1
    <3>2. CASE i = n + 1
      <4>1. \E q \in 1 .. m : image[q].handler # 0
        <5>1. CASE t = <<>>
          BY <1>5, <5>1
        <5>2. CASE t # <<>>
          <6>1. 1 \in 1 .. n
            BY <1>4, <5>2
          <6>2. PICK p \in 1 .. s : \E q \in 1 .. p : image[q].handler # 0
            BY <1>1, <6>1 DEF Placed, n
          <6>3. 1 .. p \subseteq 1 .. m
            OBVIOUS
          <6> QED
            BY <6>2, <6>3
        <5> QED
          BY <5>1, <5>2
      <4>2. m \in 1 .. m /\ u[i].location = Offset(image, m)
        BY <1>5, <1>9, <3>2 DEF o
      <4> QED
        BY <4>1, <4>2
    <3> QED
      BY <1>8, <1>9, <3>1, <3>2
  <2> QED
    BY <2>1 DEF Placed
<1>14. Correct(image, u, m)
  <2>1. ASSUME NEW i \in 1 .. Len(u), NEW q \in 1 .. m, NEW x, Within(image, q, x), Covers(u, i, x)
        PROVE  u[i].handler = image[q].handler
    <3>0. x \in Int
      BY <2>1 DEF Within
    <3>1. CASE i \in 1 .. n
      <4>1. q \in 1 .. s
        BY <1>5, <1>11, <2>1, <3>1
      <4>2. Covers(t, i, x) /\ u[i] = t[i]
        BY <1>8, <1>10, <2>1, <3>0, <3>1
      <4> QED
        BY <1>1, <2>1, <3>1, <4>1, <4>2 DEF Correct, n
    <3>2. CASE i = n + 1
      <4>1. o <= x
        BY <1>12, <2>1, <3>0, <3>2
      <4>2. q \notin 1 .. s
        BY <1>2, <2>1, <3>0, <4>1
      <4>3. q = m
        BY <1>5, <4>2
      <4> QED
        BY <1>9, <3>2, <4>3 DEF h
    <3> QED
      BY <1>8, <1>9, <3>1, <3>2
  <2> QED
    BY <2>1 DEF Correct
<1>15. Complete(image, u, m)
  <2>1. ASSUME NEW q \in 1 .. m, image[q].handler # 0, NEW x, Within(image, q, x)
        PROVE  \E i \in 1 .. Len(u) : Covers(u, i, x)
    <3>0. x \in Int
      BY <2>1 DEF Within
    <3>1. CASE q \in 1 .. s
      <4>1. PICK i \in 1 .. n : Covers(t, i, x)
        BY <1>1, <2>1, <3>1 DEF Complete, n
      <4>2. x < o
        BY <1>2, <2>1, <3>1
      <4>3. Covers(u, i, x)
        BY <1>10, <3>0, <4>1, <4>2
      <4> QED
        BY <1>8, <1>9, <4>3
    <3>2. CASE q = m
      <4>1. Covers(u, n + 1, x)
        BY <1>3, <1>12, <2>1, <3>0, <3>2
      <4>2. n + 1 \in 1 .. Len(u)
        BY <1>4, <1>8
      <4> QED
        BY <4>1, <4>2
    <3> QED
      BY <1>5, <3>1, <3>2
  <2> QED
    BY <2>1 DEF Complete
<1>16. Latest(image, u, m)
  <2>1. u # <<>>
    <3>1. Len(u) # 0
      BY <1>4, <1>8
    <3>2. Len(<<>>) = 0
      OBVIOUS
    <3> QED
      BY <3>1, <3>2
  <2> QED
    BY <1>5, <1>8, <1>9, <2>1 DEF Latest, h
<1> QED
  BY <1>8, <1>13, <1>14, <1>15, <1>16 DEF Emits

LEMMA EmitStep ==
  ASSUME NEW image, IsLayout(image), NEW s \in Nat, s < Len(image), NEW t, Emits(image, t, s)
  PROVE  Emits(image, emitExceptionEntry(t, Offset(image, s + 1), image[s + 1].handler), s + 1)
<1> DEFINE h == image[s + 1].handler
           e == [location |-> Offset(image, s + 1), handler |-> h]
           u == emitExceptionEntry(t, Offset(image, s + 1), h)
<1>1. u = IF (h = 0 /\ t = <<>>) \/ (t # <<>> /\ t[Len(t)].handler = h) THEN t ELSE Append(t, e)
  BY DEF emitExceptionEntry, Last
<1> HIDE DEF u
<1>2. CASE (h = 0 /\ t = <<>>) \/ (t # <<>> /\ t[Len(t)].handler = h)
  <2>1. u = t
    BY <1>1, <1>2
  <2>2. Emits(image, t, s + 1)
    BY <1>2, Unchanged
  <2>3. Emits(image, u, s + 1)
    BY <2>1, <2>2
  <2> QED
    BY <2>3 DEF u
<1>3. CASE ~ ((h = 0 /\ t = <<>>) \/ (t # <<>> /\ t[Len(t)].handler = h))
  <2>1. u = Append(t, e)
    BY <1>1, <1>3
  <2>2. Emits(image, u, s + 1)
    BY <1>3, <2>1, Extended
  <2> QED
    BY <2>2 DEF u
<1> QED
  BY <1>2, <1>3

LEMMA Emitted ==
  ASSUME NEW image, IsLayout(image)
  PROVE  Emits(image, Steps(image)[Len(image)], Len(image))
<1> DEFINE n == Len(image)
           f == Steps(image)
           Odd == {m \in 0 .. n : ~ Emits(image, f[m], m)}
<1>1. n \in Nat \ {0}
  BY Layout
<1>2. IsSteps(f, image, n)
  BY <1>1, StepsExist DEF Steps
<1> HIDE DEF n, f
<1>3. /\ f[0] = <<>>
      /\ \A m \in 1 .. n : f[m] = emitExceptionEntry(f[m - 1], Offset(image, m), image[m].handler)
  BY <1>1, <1>2 DEF IsSteps
<1>4. Emits(image, <<>>, 0)
  <2>1. Len(<<>>) = 0 /\ \A i : i \notin 1 .. 0
    OBVIOUS
  <2>2. <<>> \in Seq(Entries(image))
    OBVIOUS
  <2> QED
    BY <2>1, <2>2 DEF Emits, Placed, Correct, Complete, Latest
<1>5. Odd = {}
  <2>1. SUFFICES ASSUME Odd # {} PROVE FALSE
    OBVIOUS
  <2>2. PICK m \in Odd : \A k \in Odd : m <= k
    <3>1. Odd \subseteq Nat
      BY <1>1
    <3> HIDE DEF Odd
    <3> QED
      BY <2>1, <3>1, Least
  <2>3. m \in 0 .. n /\ m # 0
    BY <1>3, <1>4, <2>2
  <2>4. m - 1 \in 0 .. n /\ m - 1 \notin Odd /\ m \in 1 .. n
    BY <1>1, <2>2, <2>3
  <2>5. Emits(image, f[m - 1], m - 1)
    BY <2>4
  <2>6. m - 1 \in Nat /\ m - 1 < Len(image) /\ m - 1 + 1 = m
    BY <1>1, <2>4 DEF n
  <2>7. Emits(image, emitExceptionEntry(f[m - 1], Offset(image, m), image[m].handler), m)
    <3> DEFINE k == m - 1
    <3>1. k \in Nat /\ k < Len(image) /\ Emits(image, f[k], k)
      BY <2>5, <2>6
    <3>2. k + 1 = m
      BY <2>6
    <3> HIDE DEF k
    <3>3. Emits(image, emitExceptionEntry(f[k], Offset(image, k + 1), image[k + 1].handler), k + 1)
      BY <3>1, EmitStep
    <3> QED
      BY <3>2, <3>3 DEF k
  <2>8. Emits(image, f[m], m)
    BY <1>3, <2>4, <2>7
  <2> QED
    BY <2>2, <2>8
<1>6. n \in 0 .. n
  BY <1>1
<1> QED
  BY <1>5, <1>6 DEF f, n

-----------------------------------------------------------------------------
(* The table as it is written, and what is found in it.                       *)

Main(image) == FunctionStart(image, StaticBlock(image))
Located(image, h) ==
  IF h = 0 THEN 0 ELSE Main(image) + (Offset(image, h) - FunctionStart(image, image[h].function))

LEMMA TableIs ==
  ASSUME NEW image
  PROVE  Table(image) =
           LET t == Steps(image)[Len(image)]
           IN  Append([i \in DOMAIN t |-> [t[i] EXCEPT !.handler = Located(image, @)]],
                      [location |-> MaxInt, handler |-> 0])
BY DEF Table, Steps, IsSteps, Located, Main, StaticBlock

LEMMA Handler ==
  ASSUME NEW image, IsLayout(image)
  PROVE  Located(image, 0) = 0 /\ Located(image, Len(image)) = Offset(image, Len(image))
<1> DEFINE n == Len(image)
           f == StaticBlock(image)
           T == {s \in 1 .. n : image[s].function = f}
           First(s) == image[s].function = f /\ \A r \in 1 .. s - 1 : image[r].function # f
           c == CHOOSE s \in DOMAIN image : First(s)
<1>1. n \in Nat \ {0} /\ DOMAIN image = 1 .. n /\ image[n].function = f
  BY Layout DEF StaticBlock
<1> HIDE DEF f
<1>2. c \in 1 .. n
  <2>1. n \in T
    BY <1>1
  <2>2. PICK s \in T : \A r \in T : s <= r
    <3>1. T \subseteq Nat /\ T # {}
      BY <1>1, <2>1
    <3> HIDE DEF T
    <3> QED
      BY <3>1, Least
  <2>3. s \in 1 .. n /\ image[s].function = f
    BY <2>2
  <2>4. ASSUME NEW r \in 1 .. s - 1 PROVE image[r].function # f
    <3>1. r \in 1 .. n /\ ~ (s <= r)
      BY <1>1, <2>3
    <3> QED
      BY <2>2, <3>1
  <2>5. s \in DOMAIN image /\ First(s)
    BY <1>1, <2>3, <2>4
  <2> HIDE DEF First
  <2>6. c \in DOMAIN image
    BY <2>5
  <2> QED
    BY <1>1, <2>6
<1>3. FunctionStart(image, f) = Offset(image, c)
  BY DEF FunctionStart
<1> DEFINE a == FunctionStart(image, f)
           o == Offset(image, n)
<1>4. a \in Nat /\ o \in Nat
  BY <1>1, <1>2, <1>3, Offsets
<1>5. Located(image, n) = a + (o - a)
  BY <1>1 DEF Located, Main, f
<1>6. Located(image, 0) = 0
  BY DEF Located
<1> HIDE DEF a, o
<1>7. a + (o - a) = o
  BY <1>4
<1> QED
  BY <1>5, <1>6, <1>7 DEF o, n

LEMMA TableFacts ==
  ASSUME NEW image, IsLayout(image)
  PROVE  LET t == Steps(image)[Len(image)]
             T == Table(image)
         IN  /\ Emits(image, t, Len(image)) /\ Len(t) \in Nat /\ Len(T) = Len(t) + 1
             /\ T[Len(t) + 1].location = MaxInt
             /\ \A i \in 1 .. Len(t) :
                  T[i].location = t[i].location /\ T[i].handler = Located(image, t[i].handler)
<1> DEFINE t == Steps(image)[Len(image)]
           T == Table(image)
           e == [location |-> MaxInt, handler |-> 0]
           r == [i \in DOMAIN t |-> [t[i] EXCEPT !.handler = Located(image, @)]]
           n == Len(t)
<1>1. T = Append(r, e)
  BY TableIs
<1>2. Emits(image, t, Len(image))
  BY Emitted
<1> HIDE DEF t, T
<1>3. t \in Seq(Entries(image))
  BY <1>2 DEF Emits
<1>4. n \in Nat /\ DOMAIN t = 1 .. n /\ \A i \in 1 .. n : t[i] \in Entries(image)
  BY <1>3
<1>5. ASSUME NEW i \in 1 .. n
      PROVE  r[i].location = t[i].location /\ r[i].handler = Located(image, t[i].handler)
  <2>1. t[i] = [location |-> t[i].location, handler |-> t[i].handler]
    BY <1>4 DEF Entries
  <2>2. r[i] = [t[i] EXCEPT !.handler = Located(image, t[i].handler)]
    BY <1>4
  <2> QED
    BY <2>1, <2>2
<1>6. e.location = MaxInt
  OBVIOUS
<1> DEFINE S == {r[i] : i \in 1 .. n} \cup {e}
<1>7. r \in Seq(S) /\ Len(r) = n /\ e \in S
  <2>1. r = [i \in 1 .. n |-> r[i]] /\ \A i \in 1 .. n : r[i] \in S
    BY <1>4
  <2> HIDE DEF r, S, n, e
  <2>2. r \in Seq(S) /\ Len(r) = n
    BY <1>4, <2>1
  <2> QED
    BY <2>2 DEF S
<1> HIDE DEF r, e, S, n
<1>8. Len(T) = n + 1 /\ T[n + 1] = e /\ \A i \in 1 .. n : T[i] = r[i]
  BY <1>1, <1>4, <1>7
<1> QED
  BY <1>2, <1>4, <1>5, <1>6, <1>8 DEF t, T, n

\* No entry is that of a location in a function.
LEMMA NoEntry ==
  ASSUME NEW image, IsLayout(image), NEW s \in 1 .. Len(image), NEW x, Within(image, s, x),
         image[s].function # StaticBlock(image), NEW first
  PROVE  Search(Table(image), x, first) = {}
<1> DEFINE t == Steps(image)[Len(image)]
           T == Table(image)
           n == Len(t)
           N == Len(image)
<1>1. /\ Emits(image, t, N) /\ n \in Nat /\ Len(T) = n + 1 /\ T[n + 1].location = MaxInt
      /\ \A i \in 1 .. n : T[i].location = t[i].location
  BY TableFacts
<1>0. N \in Nat \ {0} /\ DOMAIN image = 1 .. N
  BY Layout
<1>3. x \in Int /\ x < MaxInt
  BY Inside DEF Within
<1> HIDE DEF t, T, N
<1>2. ASSUME NEW i \in Search(T, x, first) PROVE FALSE
  <2>1. i \in 1 .. n /\ T[i].location <= x
    <3>1. i \in 1 .. n + 1 /\ T[i].location <= x
      BY <1>1 DEF Search, Compared
    <3>2. i # n + 1
      BY <3>1, <1>1, <1>3 DEF MaxInt
    <3> QED
      BY <3>1, <3>2, <1>1
  <2>2. PICK p \in 1 .. N : t[i].location = Offset(image, p) /\ \E q \in 1 .. p : image[q].handler # 0
    BY <1>1, <2>1 DEF Emits, Placed, n
  <2>3. Offset(image, p) <= x
    BY <1>1, <2>1, <2>2
  <2>4. p <= s
    BY <2>2, <2>3, Begins DEF N
  <2>5. PICK q \in 1 .. p : image[q].handler # 0
    BY <2>2
  <2>6. q \in DOMAIN image /\ s \in DOMAIN image /\ q <= s
    BY <1>0, <2>4, <2>5 DEF N
  <2> QED
    BY <2>5, <2>6 DEF IsLayout
<1> QED
  BY <1>2 DEF T

\* Every entry of a location in a guarded segment, and there is one, has the handler.
LEMMA Entry ==
  ASSUME NEW image, IsLayout(image), NEW s \in 1 .. Len(image), NEW x, Within(image, s, x),
         image[s].handler # 0, NEW first \in BOOLEAN, first \/ Offset(image, s) < x
  PROVE  /\ Search(Table(image), x, first) # {}
         /\ \A i \in Search(Table(image), x, first) :
              Table(image)[i].handler = Offset(image, Len(image))
         /\ Offset(image, Len(image)) # 0
<1> DEFINE t == Steps(image)[Len(image)]
           T == Table(image)
           n == Len(t)
           N == Len(image)
<1>1. /\ Emits(image, t, N) /\ n \in Nat /\ Len(T) = n + 1 /\ T[n + 1].location = MaxInt
      /\ \A i \in 1 .. n : T[i].location = t[i].location /\ T[i].handler = Located(image, t[i].handler)
  BY TableFacts
<1>2. x \in Int /\ Offset(image, s) <= x /\ x < Offset(image, s + 1) /\ x < MaxInt
  BY Inside DEF Within
<1>3. N \in Nat \ {0} /\ image[s].handler = N
  BY Layout DEF Handlers
<1> HIDE DEF t, T, N
<1>4. \A i \in 1 .. n : i + 1 \in 1 .. n + 1 /\ (i # n => i + 1 \in 1 .. n)
  BY <1>1
<1>5. ASSUME NEW i \in 1 .. n
      PROVE  Covers(t, i, x) <=> T[i].location <= x /\ x < T[i + 1].location
  <2>1. CASE i = n
    BY <1>1, <1>2, <2>1 DEF Covers, n
  <2>2. CASE i # n
    BY <1>1, <1>4, <2>2 DEF Covers, n
  <2> QED
    BY <2>1, <2>2
<1>6. Len(T) = n + 1 /\ 1 .. n \subseteq 1 .. Len(T)
  BY <1>1
<1>7. Search(T, x, first) # {}
  <2>1. PICK i \in 1 .. n : Covers(t, i, x)
    BY <1>1 DEF Emits, Complete, N, n
  <2>2. T[i].location <= x /\ x < T[i + 1].location
    BY <1>5, <2>1
  <2>3. x <= T[i + 1].location
    <3>1. T[i + 1].location \in Int
      <4>1. CASE i = n
        BY <1>1, <4>1 DEF MaxInt
      <4>2. CASE i # n
        <5>1. i + 1 \in 1 .. n
          BY <1>4, <4>2
        <5>2. t[i + 1] \in Entries(image)
          BY <1>1, <5>1 DEF Emits, n
        <5> QED
          BY <1>1, <5>1, <5>2 DEF Entries
      <4> QED
        BY <4>1, <4>2
    <3> QED
      BY <1>2, <2>2, <3>1
  <2>4. i \in Search(T, x, first)
    BY <1>6, <2>2, <2>3 DEF Search, Compared
  <2> QED
    BY <2>4
<1>8. ASSUME NEW i \in Search(T, x, first)
      PROVE  T[i].handler = Offset(image, Len(image))
  <2>1. i \in 1 .. n /\ T[i].location <= x
        /\ (IF first THEN x < T[i + 1].location ELSE x <= T[i + 1].location)
    <3>1. /\ i \in 1 .. n + 1 /\ T[i].location <= x
          /\ (IF first THEN x < T[i + 1].location ELSE x <= T[i + 1].location)
      BY <1>6 DEF Search, Compared
    <3>2. i # n + 1
      BY <3>1, <1>1, <1>2 DEF MaxInt
    <3> QED
      BY <3>1, <3>2, <1>1
  <2>2. x < T[i + 1].location
    <3>1. CASE first
      BY <2>1, <3>1
    <3>2. CASE ~ first /\ i = n
      BY <1>1, <1>2, <3>2
    <3>3. CASE ~ first /\ i # n
      <4>1. i + 1 \in 1 .. n /\ x <= T[i + 1].location
        BY <1>4, <2>1, <3>3
      <4>2. PICK p \in 1 .. N : t[i + 1].location = Offset(image, p)
        BY <1>1, <4>1 DEF Emits, Placed, n
      <4>3. T[i + 1].location = Offset(image, p) /\ Offset(image, p) \in Nat /\ Offset(image, s) \in Nat
        BY <1>1, <4>1, <4>2, Offsets DEF N
      <4>4. ~ (Offset(image, p) <= x)
        <5>1. SUFFICES ASSUME Offset(image, p) <= x PROVE FALSE
          OBVIOUS
        <5>2. Offset(image, p) <= Offset(image, s)
          BY <5>1, Begins DEF N
        <5>3. Offset(image, s) < x
          BY <3>3
        <5>4. x <= Offset(image, p)
          BY <4>1, <4>3
        <5> DEFINE a == Offset(image, p)
                   b == Offset(image, s)
        <5>5. a \in Nat /\ b \in Nat /\ x \in Int /\ a <= b /\ b < x /\ x <= a
          BY <1>2, <4>3, <5>2, <5>3, <5>4
        <5> HIDE DEF a, b
        <5> QED
          BY <5>5
      <4> QED
        BY <1>2, <4>3, <4>4
    <3> QED
      BY <3>1, <3>2, <3>3
  <2>3. Covers(t, i, x)
    BY <1>5, <2>1, <2>2
  <2>4. t[i].handler = N
    BY <1>1, <1>3, <2>1, <2>3 DEF Emits, Correct, N, n
  <2> QED
    BY <1>1, <2>1, <2>4, Handler DEF N
<1>9. Offset(image, Len(image)) # 0
  <2>1. s # N
    BY <1>3, Layout DEF N
  <2>2. s + 1 \in 1 .. N + 1 /\ N \in 1 .. N + 1 /\ s + 1 <= N
    BY <1>3, <2>1 DEF N
  <2>3. Offset(image, s + 1) <= Offset(image, N) /\ Offset(image, s + 1) \in Nat /\ Offset(image, N) \in Nat
    BY <2>2, Ascending DEF N
  <2>4. Offset(image, s) \in Nat
    BY Offsets
  <2> QED
    BY <1>2, <2>3, <2>4 DEF N
<1> QED
  BY <1>7, <1>8, <1>9 DEF T

-----------------------------------------------------------------------------
(* The walk.                                                                  *)

Covered(image, frames, k) ==
  LET x == IF k = 1 THEN frames[1] ELSE frames[k] - 1
  IN  IF x \in 0 .. Offset(image, Len(image) + 1) - 1 THEN Search(Table(image), x, k = 1) ELSE {}

LEMMA WalkIs ==
  ASSUME NEW image, NEW frames
  PROVE  throwException(image, frames) =
           LET found == {k \in DOMAIN frames : Covered(image, frames, k) # {}}
               first == CHOOSE k \in found : \A j \in found : k <= j
           IN  IF found = {} THEN {[frame |-> 0, handler |-> 0]}
               ELSE {[frame |-> first, handler |-> Table(image)[i].handler] :
                       i \in Covered(image, frames, first)}
BY DEF throwException, Covered

\* A chain of any depth: an instruction, and return addresses above it, the last one
\* in a guarded segment and the others in functions or outside of the image.
InFunction(image, x) == \E s \in 1 .. Len(image) :
  image[s].function # StaticBlock(image) /\ Within(image, s, x)
Beyond(image, x) == x \in Int /\ x >= Offset(image, Len(image) + 1)

IsChain(image, frames) ==
  LET n == Len(frames)
      Location(k) == IF k = 1 THEN frames[1] ELSE frames[k] - 1
  IN  /\ n \in Nat \ {0} /\ DOMAIN frames = 1 .. n
      /\ \A k \in 1 .. n - 1 : InFunction(image, Location(k)) \/ Beyond(image, Location(k))
      /\ \E s \in 1 .. Len(image) :
           /\ image[s].handler # 0 /\ Within(image, s, Location(n))
           /\ n # 1 => Offset(image, s) < Location(n)

\* Whatever the layout and the depth, the walk ends at the frame of the static block
\* and calls its handler.
THEOREM ChainReaches ==
  ASSUME NEW image, IsLayout(image), NEW frames, IsChain(image, frames),
         NEW t \in throwException(image, frames)
  PROVE  /\ t.frame = Len(frames) /\ t.handler = Offset(image, Len(image))
         /\ t.handler # 0
<1> DEFINE n == Len(frames)
           e == Offset(image, Len(image) + 1)
           Location(k) == IF k = 1 THEN frames[1] ELSE frames[k] - 1
           found == {k \in DOMAIN frames : Covered(image, frames, k) # {}}
           first == CHOOSE k \in found : \A j \in found : k <= j
           o == Offset(image, Len(image))
<1>1. /\ n \in Nat \ {0} /\ DOMAIN frames = 1 .. n
      /\ \A k \in 1 .. n - 1 : InFunction(image, Location(k)) \/ Beyond(image, Location(k))
  BY DEF IsChain
<1>2. PICK s \in 1 .. Len(image) :
        image[s].handler # 0 /\ Within(image, s, Location(n)) /\ (n # 1 => Offset(image, s) < Location(n))
  BY DEF IsChain
<1>3. \A k : Covered(image, frames, k) =
               IF Location(k) \in 0 .. e - 1 THEN Search(Table(image), Location(k), k = 1) ELSE {}
  BY DEF Covered
<1>4. e \in Nat
  <2>1. Len(image) \in 1 .. Len(image)
    BY Layout
  <2> QED
    BY <2>1, Offsets
<1> HIDE DEF n, e, Location, o
<1>5. ASSUME NEW k \in 1 .. n - 1 PROVE Covered(image, frames, k) = {}
  <2>1. CASE InFunction(image, Location(k))
    <3>1. PICK r \in 1 .. Len(image) :
            image[r].function # StaticBlock(image) /\ Within(image, r, Location(k))
      BY <2>1 DEF InFunction
    <3>2. Search(Table(image), Location(k), k = 1) = {}
      BY <3>1, NoEntry
    <3> QED
      BY <1>3, <3>2
  <2>2. CASE Beyond(image, Location(k))
    <3>1. Location(k) \notin 0 .. e - 1
      BY <1>4, <2>2 DEF Beyond, e
    <3> QED
      BY <1>3, <3>1
  <2> QED
    BY <1>1, <2>1, <2>2
<1>6. /\ Covered(image, frames, n) # {} /\ o # 0
      /\ \A i \in Covered(image, frames, n) : Table(image)[i].handler = o
  <2> DEFINE b == n = 1
             x == Location(n)
  <2>1. b \in BOOLEAN /\ (b \/ Offset(image, s) < x)
    BY <1>2
  <2>2. x \in 0 .. e - 1
    BY <1>2, Inside DEF e
  <2>3. Covered(image, frames, n) = Search(Table(image), x, b)
    BY <1>3, <2>2
  <2>4. Within(image, s, x) /\ image[s].handler # 0
    BY <1>2
  <2> HIDE DEF b, x
  <2> QED
    BY <2>1, <2>3, <2>4, Entry DEF o
<1>7. n \in found /\ \A k \in found : k = n
  <2>1. n \in 1 .. n
    BY <1>1
  <2>2. \A k \in 1 .. n : k = n \/ k \in 1 .. n - 1
    BY <1>1
  <2> QED
    BY <1>1, <1>5, <1>6, <2>1, <2>2
<1>8. first = n /\ found # {}
  <2>1. \A j \in found : n <= j
    BY <1>1, <1>7
  <2> HIDE DEF found
  <2> QED
    BY <1>7, <2>1
<1>9. t \in {[frame |-> first, handler |-> Table(image)[i].handler] :
               i \in Covered(image, frames, first)}
  <2>1. throwException(image, frames) =
          IF found = {} THEN {[frame |-> 0, handler |-> 0]}
          ELSE {[frame |-> first, handler |-> Table(image)[i].handler] :
                  i \in Covered(image, frames, first)}
    BY WalkIs
  <2> HIDE DEF found, first
  <2> QED
    BY <1>8, <2>1
<1> HIDE DEF found, first
<1>10. PICK i \in Covered(image, frames, n) : t = [frame |-> n, handler |-> Table(image)[i].handler]
  BY <1>8, <1>9
<1>11. t.frame = n /\ t.handler = o
  BY <1>6, <1>10
<1> QED
  BY <1>6, <1>11 DEF n, o

LEMMA InstructionsWithin ==
  ASSUME NEW image, IsLayout(image), NEW ss, ss \subseteq 1 .. Len(image), NEW x
  PROVE  /\ x \in Instructions(image, ss) => \E s \in ss : Within(image, s, x)
         /\ x \in ReturnAddresses(image, ss) =>
              \E s \in ss : Within(image, s, x - 1) /\ Offset(image, s) < x - 1
<1>1. \A s \in ss : Offset(image, s) \in Nat /\ Offset(image, s + 1) \in Nat
  BY Offsets
<1>2. ASSUME NEW s \in ss, x \in Offset(image, s) .. Offset(image, s + 1) - 1
      PROVE  Within(image, s, x)
  <2> DEFINE a == Offset(image, s)
             b == Offset(image, s + 1)
  <2>1. a \in Nat /\ b \in Nat /\ x \in a .. b - 1
    BY <1>1, <1>2
  <2> HIDE DEF a, b
  <2>2. x \in Int /\ a <= x /\ x < b
    BY <2>1
  <2> QED
    BY <2>2 DEF a, b, Within
<1>3. ASSUME NEW s \in ss, x \in Offset(image, s) + 2 .. Offset(image, s + 1)
      PROVE  Within(image, s, x - 1) /\ Offset(image, s) < x - 1
  <2> DEFINE a == Offset(image, s)
             b == Offset(image, s + 1)
  <2>1. a \in Nat /\ b \in Nat /\ x \in a + 2 .. b
    BY <1>1, <1>3
  <2> HIDE DEF a, b
  <2>2. x - 1 \in Int /\ a <= x - 1 /\ x - 1 < b /\ a < x - 1
    BY <2>1
  <2> QED
    BY <2>2 DEF a, b, Within
<1>4. ASSUME x \in Instructions(image, ss) PROVE \E s \in ss : Within(image, s, x)
  <2>1. PICK s \in ss : x \in Offset(image, s) .. Offset(image, s + 1) - 1
    BY <1>4 DEF Instructions
  <2> QED
    BY <1>2, <2>1
<1>5. ASSUME x \in ReturnAddresses(image, ss)
      PROVE  \E s \in ss : Within(image, s, x - 1) /\ Offset(image, s) < x - 1
  <2>1. PICK s \in ss : x \in Offset(image, s) + 2 .. Offset(image, s + 1)
    BY <1>5 DEF ReturnAddresses
  <2> QED
    BY <1>3, <2>1
<1> QED
  BY <1>4, <1>5

\* The chains of generated code are such chains.
LEMMA ChainsAre ==
  ASSUME NEW image, IsLayout(image), NEW frames \in Chains(image)
  PROVE  IsChain(image, frames)
<1> DEFINE guarded == {s \in DOMAIN image : image[s].handler # 0}
           others == {s \in DOMAIN image : image[s].function # StaticBlock(image)}
           called == Instructions(image, others) \cup {Outside(image)}
<1>0. DOMAIN image = 1 .. Len(image) /\ Len(image) \in 1 .. Len(image)
  BY Layout
<1>1. guarded \subseteq 1 .. Len(image) /\ others \subseteq 1 .. Len(image)
      /\ (\A s \in guarded : image[s].handler # 0)
      /\ (\A s \in others : image[s].function # StaticBlock(image))
  BY <1>0
<1>2. \/ \E x \in Instructions(image, guarded) : frames = <<x>>
      \/ \E x \in called, y \in ReturnAddresses(image, guarded) : frames = <<x, y>>
      \/ \E x \in called, y \in ReturnAddresses(image, others), z \in ReturnAddresses(image, guarded) :
           frames = <<x, y, z>>
  <2> DEFINE A == Instructions(image, guarded)
             B == ReturnAddresses(image, guarded)
             C == ReturnAddresses(image, others)
  <2>1. frames \in {<<x>> : x \in A} \cup called \X B \cup called \X C \X B
    BY DEF Chains
  <2> HIDE DEF A, B, C, called
  <2>2. \/ \E x \in A : frames = <<x>>
        \/ \E x \in called, y \in B : frames = <<x, y>>
        \/ \E x \in called, y \in C, z \in B : frames = <<x, y, z>>
    <3>1. CASE frames \in called \X B
      BY <3>1
    <3>2. CASE frames \in called \X C \X B
      BY <3>2
    <3> QED
      BY <2>1, <3>1, <3>2
  <2> QED
    BY <2>2 DEF A, B, C
<1> HIDE DEF guarded, others
<1>3. ASSUME NEW x \in called PROVE InFunction(image, x) \/ Beyond(image, x)
  <2>1. CASE x \in Instructions(image, others)
    <3>1. PICK s \in others : Within(image, s, x)
      BY <1>1, <2>1, InstructionsWithin
    <3> QED
      BY <1>1, <3>1 DEF InFunction
  <2>2. CASE x = Outside(image)
    <3> DEFINE e == Offset(image, Len(image) + 1)
    <3>1. e \in Nat /\ x = e + 5
      BY <1>0, <2>2, Offsets DEF Outside
    <3> HIDE DEF e
    <3>2. x \in Int /\ x >= e
      BY <3>1
    <3> QED
      BY <3>2 DEF Beyond, e
  <2> QED
    BY <2>1, <2>2
<1> HIDE DEF called
<1>4. ASSUME NEW y \in ReturnAddresses(image, others) PROVE InFunction(image, y - 1)
  <2>1. PICK s \in others : Within(image, s, y - 1)
    BY <1>1, InstructionsWithin
  <2> QED
    BY <1>1, <2>1 DEF InFunction
<1>5. CASE \E x \in Instructions(image, guarded) : frames = <<x>>
  <2>1. PICK x \in Instructions(image, guarded) : frames = <<x>>
    BY <1>5
  <2>2. PICK s \in guarded : Within(image, s, x)
    BY <1>1, InstructionsWithin
  <2>3. Len(frames) = 1 /\ DOMAIN frames = 1 .. 1 /\ frames[1] = x /\ \A k : k \notin 1 .. 1 - 1
    BY <2>1
  <2>4. s \in 1 .. Len(image) /\ image[s].handler # 0
    BY <1>1
  <2> QED
    BY <2>2, <2>3, <2>4 DEF IsChain
<1>6. CASE \E x \in called, y \in ReturnAddresses(image, guarded) : frames = <<x, y>>
  <2>1. PICK x \in called, y \in ReturnAddresses(image, guarded) : frames = <<x, y>>
    BY <1>6
  <2>2. PICK s \in guarded : Within(image, s, y - 1) /\ Offset(image, s) < y - 1
    BY <1>1, InstructionsWithin
  <2>3. /\ Len(frames) = 2 /\ DOMAIN frames = 1 .. 2 /\ frames[1] = x /\ frames[2] = y
        /\ \A k \in 1 .. 2 - 1 : k = 1
    BY <2>1
  <2>4. s \in 1 .. Len(image) /\ image[s].handler # 0
    BY <1>1
  <2>5. InFunction(image, x) \/ Beyond(image, x)
    BY <1>3
  <2> QED
    BY <2>2, <2>3, <2>4, <2>5 DEF IsChain
<1>7. CASE \E x \in called, y \in ReturnAddresses(image, others), z \in ReturnAddresses(image, guarded) :
             frames = <<x, y, z>>
  <2>1. PICK x \in called, y \in ReturnAddresses(image, others), z \in ReturnAddresses(image, guarded) :
          frames = <<x, y, z>>
    BY <1>7
  <2>2. PICK s \in guarded : Within(image, s, z - 1) /\ Offset(image, s) < z - 1
    BY <1>1, InstructionsWithin
  <2>3. /\ Len(frames) = 3 /\ DOMAIN frames = 1 .. 3
        /\ frames[1] = x /\ frames[2] = y /\ frames[3] = z
        /\ \A k \in 1 .. 3 - 1 : k = 1 \/ k = 2
    BY <2>1
  <2>4. s \in 1 .. Len(image) /\ image[s].handler # 0
    BY <1>1
  <2>5. (InFunction(image, x) \/ Beyond(image, x)) /\ InFunction(image, y - 1)
    BY <1>3, <1>4
  <2> QED
    BY <2>2, <2>3, <2>4, <2>5 DEF IsChain
<1> QED
  BY <1>2, <1>5, <1>6, <1>7

LEMMA EachReaches ==
  ASSUME NEW u \in Unwindings
  PROVE  u.frame = u.frames /\ u.own
<1>1. PICK image \in Images :
        u \in UNION {{[frames |-> Len(frames), frame |-> IF t.handler = 0 THEN 0 ELSE t.frame,
                       own |-> t.handler = Offset(image, Len(image))] : t \in throwException(image, frames)}
                     : frames \in Chains(image)}
  BY DEF Unwindings
<1>2. PICK frames \in Chains(image) :
        u \in {[frames |-> Len(frames), frame |-> IF t.handler = 0 THEN 0 ELSE t.frame,
                own |-> t.handler = Offset(image, Len(image))] : t \in throwException(image, frames)}
  BY <1>1
<1>3. PICK t \in throwException(image, frames) :
        u = [frames |-> Len(frames), frame |-> IF t.handler = 0 THEN 0 ELSE t.frame,
             own |-> t.handler = Offset(image, Len(image))]
  BY <1>2
<1>4. IsLayout(image)
  BY ImagesAssumption
<1>5. t.frame = Len(frames) /\ t.handler = Offset(image, Len(image)) /\ t.handler # 0
  BY <1>4, ChainReaches, ChainsAre
<1> QED
  BY <1>3, <1>5

(* For every layout of functions and guarded segments, empty segments and        *)
(* segments that share a location among them, an exception reaches the handler   *)
(* of the static block with that block's frame, whichever of the entries that     *)
(* compare equal the binary search of throwException() returns.                   *)
THEOREM HandlerSafety == Spec => []HandlerReached
<1>1. Init => HandlerReached
  BY DEF Init, HandlerReached
<1>2. HandlerReached /\ [Next]_vars => HandlerReached'
  <2> SUFFICES ASSUME HandlerReached, [Next]_vars PROVE HandlerReached'
    OBVIOUS
  <2> USE DEF HandlerReached
  <2>1. CASE UNCHANGED vars
    BY <2>1 DEF vars
  <2>2. ASSUME NEW file \in Files, NEW entry \in {0, 1}, Load(file, entry) PROVE HandlerReached'
    BY <2>2 DEF Load, StartByteCode, StartNative
  <2>3. CASE Work \/ EvalNative \/ Fail
    BY <2>3 DEF Work, EvalNative, Fail
  <2>4. ASSUME NEW start \in 0 .. MaxRuns + 1, Eval(start) PROVE HandlerReached'
    BY <2>4 DEF Eval
  <2>5. ASSUME NEW value \in {"0", "INT_MIN"}, Return(value) \/ ReturnNative(value) PROVE HandlerReached'
    BY <2>5 DEF Return, ReturnNative, LeaveNative
  <2>6. ASSUME NEW u \in Unwindings, Raise(u) PROVE HandlerReached'
    BY <2>6, EachReaches DEF Raise, LeaveNative
  <2>7. CASE TakeValue \/ TakeException \/ EndByteCodeSection
    BY <2>7 DEF TakeValue, TakeException, EndByteCodeSection
  <2> QED
    BY <2>1, <2>2, <2>3, <2>4, <2>5, <2>6, <2>7 DEF Next
<1> QED
  BY <1>1, <1>2, PTL DEF Spec

==============================================================================
