# Parasol: models and proofs

Parasol is a language whose compiler is written in itself (`src/lib/*.p`),
with a library (`lib/root.p`), two code targets (a byte code interpreter and
x86-64) and a C++ runtime for Windows (`runtime`). `Parasol_1` keeps the
source of an earlier system of the same name, its kernel included.

This directory holds TLA+ models of the parts where the order of events, or a
long sequence of steps, decides whether the result is right; the TLC runs that
check them; and proofs for any value of the constants. Paths are relative to the
repository's root.

    tlc -workers 2 -config pool_safety.cfg ThreadPoolProps
    tlapm ThreadPoolProofs.tla       # likewise every other module of proofs

`PROJECT.json` relates every definition to its lines of source, every property
to a hazard of the code, and every property to a defect that it detects: the
operators that begin with the comment "Defect:" are deliberate mistakes in the
code's place and take no part in any specification.

## 1. Inventory

| Component | Source | State | Interacts with | What is hard | What makes it correct |
|---|---|---|---|---|---|
| Thread pool | `runtime/common/process.cc`, `.h` | list of handlers, semaphore, counts of idle and waiting threads, shutdown semaphore | its clients; its own handlers call it again; fires the event `idle` | semaphore and list under no common lock; `runOne` lends foreign threads; shutdown | every handler run once, in order; counters exact; destruction ends and leaves nobody inside |
| Events | `runtime/common/event.h` | list of handlers, flags busy and removed | handlers change the list that is being walked | deletion during the call, nested fires | nobody called after deletion, nobody leaked or called twice |
| Register temporaries | `src/lib/x86_allocTemp.p`, `x86_assignTemps.p`, `x86_sethi.p`, `x86_addressModes.p`, part of `x86_64.p` | stack of temporaries, free registers, queue of spills; register of each node | filled in one walk of the tree, emptied in a second one | pushes, pops and exchanges decided long before they are emitted | every instruction finds its operands |
| Hash table | `lib/root.p` 1939-2125 | open-addressing table, count, threshold | compiler takes addresses of elements; iterators | rehash inside of insert, stale slots and iterators | behaves as a map; probes end |
| Byte code interpreter | `runtime/Parasol/runtime.cc` 320-385, 632-2170, 2348-2430 | memory of words, frames, instruction and frame pointer | the compiler's byte codes; functions of the runtime; `dumpStack` | some 170 instructions, each known a second time to `disassemble()`; five ways to leave a frame | a run ends as the program means it to; calls nest |
| Byte code target | `src/lib/byteCodes.p` | code and depth of the stack of one function | feeds the interpreter | arguments last to first, ellipsis first to last; branches | the value of the tree is what is left |
| Execution contexts | `runtime/Parasol/runtime.cc` 259-630, `pxi.cc`, `x86_pxi.cc` | contexts, their stacks, snapshot and exception, the context of the thread | compiler's `run()`, both kinds of programs start one another | nested evaluations that return, fail and raise | the evaluator finds its own state again and hears of each failure |
| Exception table, unwinding | `src/lib/x86_encode.p` 613-785, `runtime/Parasol/executionContext.cc` | sorted table of code offsets | the layout writes it, the runtime walks frames with it | frames of C++ between; bounds of ranges | the innermost handler is found with its frame |
| Debugged processes | `runtime/common/process.cc` 280-545 | counts of exceptions, breakpoint seen, captured output | Windows debug events, a thread that drains a pipe | timeout against late events; a child's children | answer, exception and output agree; the call returns |
| Options, dictionary, vector | `runtime/common/command_line.*`, `dictionary.h`, `vector.h`, `runtime/Parasol/main.cc` | tables of names, values, words left | `main.cc` | clusters of letters that take the next word; a table that must not fill; a sort in place | names found, words parsed as meant |
| Kernel, semaphores | `Parasol_1/SRC/KERNEL/COMMON/PROCESS.P`, `ANIMOBJ.P` | count and queue of each semaphore, flags of each process | everything in that kernel | aborted and suspended waits | no unit lost or given twice |
| Kernel, messages | `.../MESSAGE.P` | pool of 256 messages, states | sender, receiver, semaphores | interrupted senders | a message freed once |
| Code layout and jumps | `src/lib/x86_encode.p` | code buffer, segments, fixups | the exception table | sizes of jumps | bytes are where references say |
| Compile pipeline | `src/lib/arena.p`, `compile.p`, `storage.p`, `symbolTable.p` | scopes, files, work-list positions | imports add files while the list is walked | circular definitions, growing list | each scope visited once; ends |
| Scanner, parser, syntax tree | `src/lib/scanner.p`, `parser.p`, `syntaxTree.p` | - | - | sequential | their own tests |
| Strings, paths | `runtime/common/string.*`, `file_system.cc` | a length, an allocation, a NUL behind the characters | all of the runtime; options, files | sizes worked out anew at each change; allocations exactly full | the characters are right and ended; paths lead where they should |
| Files, tools | the rest | - | - | input and output | their own tests |

`PROJECT.json` lists them all with their status, and under `hazards` what can go
wrong at which line.

How they interact: the compiler's pipeline hands one syntax tree per function to
a target. The byte code target leaves code for the stack machine (Byte code
interpreter). In the x86-64 target Sethi-Ullman numbers are assigned, registers
are allocated (Register temporaries), code is emitted and packed, and the
exception table is written (Exception table). The C++ runtime reads its options
(Options), loads an image and runs it in a context (Execution contexts); the
compiler is itself such a program and evaluates those it compiles, so contexts
nest. When generated code raises an exception the runtime walks the frames with
the table. The pool, events and debugged processes are in the runtime's `common`
library; the pool's event `idle` is of the class in `event.h`. The hash table is
the map of every Parasol program, the compiler among them.

## 2. Modules and runs

| Part | Modules | Runs | Proofs |
|---|---|---|---|
| Thread pool | `ThreadPool`, `ThreadPoolProps`, abstract `Executor` | `pool_safety`, `pool_live` | `ThreadPoolProofs` |
| Register temporaries | `RegisterState`, `RegisterStateProps`, `MCRegisterState` | `reg_safety` | `RegisterStateProofs` |
| Hash table | `HashMap`, `HashMapProps`, abstract `AbstractMap`, `MCHashMap` | `map_check` | `HashMapProofs` |
| Events | `Event`, `EventProps` | `event_check` | `EventProofs` |
| Byte codes | `Interpreter`, `ByteCodesTarget`, abstract `CallStack`, `InterpreterProps`, `MCInterpreter` | `interp`, `interp_static` | - |
| Contexts, unwinding | `ExceptionTable`, `Contexts`, `ContextsProps`, `MCContexts` | `contexts` | `ContextsProofs` |
| Debugged processes | `DebugSpawn`, `DebugSpawnProps` | `spawn` | `DebugSpawnProofs` |
| Options | `Dictionary`, `Vector`, `CommandLine`, `CommandLineProps`, `MCCommandLine` | `command` | `CommandLineProofs` |
| Kernel semaphores | `KernelSemaphore`, `KernelSemaphoreProps` | `kernel` | `KernelSemaphoreProofs` |
| Strings, paths | `Strings`, `Paths`, `StringsProps`, `MCStrings` | `strings` | - |

One of the runs, `interp_static`, ends in a counterexample that shows a defect of
the code (`PROJECT.json`, findings). Four more configurations that are not among
the runs show where the code leaves the conditions the others rest on; each ends
in a counterexample too: `pool_run_one.cfg` (with `ThreadPoolProps`),
`reg_untamed.cfg` (with `MCRegisterState`), `event_nested.cfg` (with
`EventProps`) and `contexts_native.cfg` (with `MCContexts`). The sections below
say what they show, and the comments in two of the files how to get the further
counterexamples.

What comes next, in order: `RegistersAccounted` for divisions, too, and `SpillsNest`
of the allocator; then the kernel's messages on top of `KernelSemaphore`, and the
compile pipeline. No module that is to be proved about
declares a RECURSIVE operator; `Interpreter` uses Bitwise, out of the prover's reach.

## 3. Thread pool: ThreadPool, ThreadPoolProps, Executor and the proofs

**State.** `actions`, `tokens`, `idle`, `waiting`, `stopped` and `size` are
`_actions`, the count of `_actionQueue`, `_idleThreads`, `_waitingThreads`, the
count of `_shutdownSemaphore` and `_threads.size()`. `pc` says where each thread
stands, `frames` which handlers it is inside of (a handler that calls `runOne`
runs another one on top). `stale` and `fires` are history.

**Actions.** One per block that runs under `_lock`, and one per semaphore
operation outside of it, so that a thread can be overtaken between any two:
`Run` (enqueue's locked block), `Release`, `Dequeue`, `Pass` (the wait
succeeds), `TakeOne`, `Finish`, `RunOne`, `Interrupt`, `RunOneTake`,
`RunOneAfter`, `FlushActions`, and for the owner `StartThread`, `PushThread`,
`Destroy`, `EnqueueStop`, `WaitStopped`, with `RunStop` in the worker. Threads
start running before `_threads` knows them, as in the constructor.

**Assumptions about callers.** A client uses the pool only between construction
and destruction; a handler may use it until its thread stops. A handler does not
call `flushActions` once destruction has begun: it would delete the stop
handler, which is on the destructor's stack.

**Runs.** Two workers, the owner and one other client, three handlers of which
one calls `run` and `runOne` itself. Two workers are the least for which one
can be idle while the other is busy; three handlers let one run, one wait in the
list and one be taken by `runOne`.

- `pool_safety`: `TokenAccounting` (counts in the semaphore, waiters past it and
  releases to come add up to the queued and the flushed handlers),
  `ExactlyOnePlace` (no handler is lost or run twice), `IdleCount` (both counters
  are what the threads are doing), `IdleFireMeansQuiet` (the event is fired only
  when nothing runs or waits), `DestroyedPoolUnused`, and `ExecSpec`: the pool
  implements `Executor`, a queue served in order.
- `pool_live`: every accepted handler is run or deleted, and the destructor
  returns. Fairness is weak, per thread and for the owner: Windows schedules
  every thread that can run, a wait on a semaphore that stays positive ends, and
  a handler returns. Nothing obliges a caller to call. The run has no
  `runOne` and no `flushActions`, and the owner polls `busy()` first
  (`DrainFirst`). That last condition is needed: see below.

**Where the code differs from its comment** (`pool_run_one.cfg`). The comment at `process.h:375-378` says that `runOne`
returns true if it was interrupted or an action was run, and false if none were
ready and no threads were busy. Neither holds. `flushActions` deletes handlers and leaves their
counts in the semaphore. A later waiter then passes and finds no handler:
`runOne` returns true having run nothing, and a worker leaves its loop for good.
As the destructor flushes before it queues its stop handlers, a pool destroyed
while handlers are queued can lose a worker in this way and then wait for its
stop for ever (set `DrainFirst = FALSE` in `pool_live.cfg`). And `runOne` counts
its caller among the pool's threads even when it is not one of them, so it says
that nobody is busy while somebody is.

**Proofs** (`ThreadPoolProofs`, for any number of workers, clients and
handlers, under `PoolAssumption` only): `TypeCorrect`, `TokensAccounted`,
`IdleCounted`, `IdleFireIsQuiet`. The inductive invariant is

    IInv == TypeOK /\ TokenAccounting /\ IdleCount /\ Shape

`TypeOK` alone is not inductive: `stale' = stale - 1` when a waiter finds the
list empty stays a natural number only because `TokenAccounting` makes it
positive there. `TokenAccounting` and `IdleCount` are about cardinalities of
sets of threads that each step changes by one; the lemmas `AddOne`, `DropOne`
and `Sets` carry that arithmetic. `Shape` says what the owner's phase implies:
nothing is queued during construction, no stop handler before destruction, a
worker in its loop is inside of no handler, and which workers are started.
`IdleFireIsQuiet` follows: when `idle = size` all workers are at their wait,
because those on the way back inside of `runOne` only lower the count.
There is one lemma per action, and `Inductive` puts them together.

The refinement goes on from `IInv` with two further invariants.

    JInv == Once /\ Apart /\ NoneLost

says where the handlers are. The list, the hands of a thread between the two
locked blocks of `runOne`, and the handlers a thread is inside of share none
(`Apart`) and hold none twice (`Once`); together with those not yet given, done
and deleted they are all, as long as the pool is open (`NoneLost`).
`HandlersInPlace` (`ExactlyOnePlace`) follows. `Apart` is what makes it inductive:
that a handler taken from the list is not running already cannot be seen from the
thread that takes it.

    DInv == Alone /\ StopsCounted

is about the destructor: once it has begun no client is inside of the pool, and
the threads that have ended are as many as the stop handlers it has heard of and
is about to hear of. So at its return all have (`DestroyedUnused`). This is so only
for a run in which no worker was lost to a count without a handler: the destructor
then does not return (see above), and `DestroyedPoolUnused` says nothing of it.

`ExecutorImplemented` takes every action to a step of `Executor` or to a stutter:
handlers are started in the order they were accepted, each at most once.

Only model-checked: the two liveness properties, out of the prover's reach.

## 4. Register temporaries: RegisterState, RegisterStateProps, RegisterStateProofs

**What is modelled.** The allocator `RegisterState` for integer registers: its
stack of temporaries (`rs.temps`), `_oldestUnspilled` (`rs.oldest`), free and
used registers, and the queue of spills; driven by `assignRegisters` over a
tree for `return e`, where `e` is built of leaves, additions (any operator
without a register demand of its own), shifts by a variable, 8-bit and wide
division and remainder, subscripts and calls with up to three arguments. Then
the second walk, which emits each node's instruction and, where their node
comes up, the queued spills, on an abstract machine: a register holds the name
of the node whose value it has; a push and a pop move names; a call overwrites
every register.

**How.** The walks are a list of tasks (`agenda`); each task is one action of
the model and one call of the code: assign a node's registers, vacate the
registers of a call, reserve, clean up, take the result, generate, emit spills,
execute. `Node.register` is the function `register`.

**Properties.** `OperandsInPlace`, the purpose of it all: at each instruction
every operand is in a register the instruction takes it from and that register
holds that operand's value. `RegistersAccounted`: free and used registers agree
with the temporaries and no two share one. `SpillsNest`: what the queued spills
leave pushed are the spilled temporaries in order, the comment at
`x86_allocTemp.p:154`. `SpillsEmitted`: the queue is empty and the machine
stack level at the end. `Completes`: no assert fails and no loop of
`cleanupTemps` runs for ever. Its only fairness is weak fairness of the next
step: the compiler is one thread and it goes on.

**Runs.** `reg_safety` takes every expression of up to 7 nodes that satisfies
`Tame`, with the real register set (RAX, RCX, RDX, R8 to R11). Seven nodes
suffice for an argument that is itself a call whose arguments need pushing, and
for three arguments whose registers conflict. `Tame` leaves out three shapes,
which the compiler gets wrong; `reg_untamed.cfg` shows each of them:

- `return x + f(a)[g(b)]`. The parts of a memory operand are cleaned up by the
  operator above with its other operands; the exchange loop then meets a pushed
  temporary and the allocator's asserts fail.
- `f(x << y)`. The shift changes the node's register mask before its own temporary
  is made, so the argument stays in RAX.
- `f(a, b, c % d)`. A wide division claims RDX without freeing it, and the second
  argument is destroyed.

Also noticed and not checked: spills that a leaf's `getreg` queues are
never emitted (it takes seven live temporaries).

**Proofs** (`RegisterStateProofs`, for any set of registers that has those with a part
of their own, and any set of expressions in the sense of `Expressions`: of leaves,
additions, shifts by a variable, subscripts and calls with at most four arguments,
whatever their Sethi-Ullman numbers; `Tame` is not assumed): `RegistersSafety`, which
is `RegistersAccounted`. The difficulty is in `AssignResult`. The result of an
addition or a shift is made in the register that `latestResult()` gives for the first
operand, and the code does not ask whether that register is free. That it is needs

    IInv(E) == types /\ IF phase = "assign" THEN Fine(E, agenda, rs, register) ELSE ...
    Fine: an assert has failed, or Sound /\ Plan /\ Ready and Bounds of the head

- `Sound`: the sets agree with the temporaries (`Exact`), every temporary is of a node
  of its own, and where the queued spills leave that node the temporary is
  (`Followed`). `Latest` is that place; `LatestPushed`, `LatestPlaced`,
  `LatestSwapped` and `LatestBorn` say what each kind of spill and a new node do
  to it. The induction they rest on is by a least counterexample (`Least`), which
  needs no operator as a parameter.
- `Plan`: what the agenda still has to do. No node is claimed by two tasks, or again
  after it has a register (`Fresh`); cleanups nest (`Depths`); and before a result
  that is left in place comes a cleanup that will release the temporary of its
  first operand, whether that has been made or is still to be (`Waits`).
- `Ready`: when that cleanup is over the operand's register is free, or the operand was
  pushed and the code asserts.

`Decomposes` is what `Plan` needs of the tasks a node is replaced by; it holds for
every operator of `Expressions`. Divisions are left out of the theorem: their result is
made in RAX or RDX because the cleanup has just brought the first operand there,
which the counting of fitting temporaries in `cleanupOperands` has to show.
`SpillsNest`, `OperandsInPlace` and `SpillsEmitted` are only model-checked.

**Not modelled.** Floating registers (a second, equal set), stack arguments,
assignments and conditions, allocation in void context.

## 5. Hash table: HashMap, HashMapProps, AbstractMap, MCHashMap, HashMapProofs

**State.** The fields of `class map`, the write that waits for a rehash with the
locals of `hadToRehash()`, one iterator and one element address a caller holds.
**Actions.** `Get`, `WritePresent`, `WriteAbsent` and `Rehash` for insert,
replace and set, `RehashMove` (one turn of the loop, whose `insert` runs under
the old threshold), `RehashEnds` (with the second search), `ElementAddress`,
`Store` through such an address, `Begin` and `IteratorNext`.

**Properties.** `ProbeFinds`, `CountExact`, `RoomLeft` (a probe always ends and
a rehash never starts another), `IteratesAll`, `ElementStays`, and `MapSpec`:
the table implements `AbstractMap`, the entries of the old table standing for
the contents while a rehash is under way.

**Run.** `map_check`: four keys of which three collide, probes that wrap around,
a table of 4 slots that grows to 8 (3/4 full instead of the code's 7/8 of 64, so
that four keys reach the threshold). That is the smallest instance with a
rehash; a second one repeats it. The two values are never looked at and are
symmetric. There is nothing random and no operation that cannot continue, so
deadlock is checked. That the 32-bit products in the threshold overflow for very
large tables (`root.p:2059`, from some 2^27 entries) is not modelled.

**Proofs** (for any keys, values, hash function, first size and `RehashShift`;
from `MapAssumption` alone, which states that 2 ^ `RehashShift` is a natural
number of at least 2, because the prover knows nothing of powers). All seven
properties of `map_check` are theorems. `IInv` (in `HashMapProofs`) adds to the
properties `Settled` - between two rehashes the threshold is that of the table
in use - and `Rehashing` - the new table is twice the old one, the entries moved
and those to move make up the old threshold, and the new table has the very
entries of the old slots before `i`. That is what the code relies on without
saying so: the inserts of the loop run under the threshold of the old table,
which is less than half of the new one, so none of them can rehash, and after
the last write the count is within the new threshold (`Thresholds`). The table
itself is in four lemmas: `Probe` (the probe stops at the nearest slot), `FoundWhereItIs`,
`Inserted` and `Overwritten` (what a write does to a table whose probes are
right). `IterationComplete` needs `Visited` beside `IInv`: an undisturbed
iterator was at the keys up to its index. `MapImplemented`
takes every action to a step of `AbstractMap` or to a
stutter; two tables with the same set of entries are the same map (`LookupSame`,
`LookupWritten`), which is why a rehash that puts them elsewhere is invisible.

## 6. Events: Event, EventProps, EventProofs

The linked list with `next`, `busy` and `removed` of each handler, and a stack
of fires in progress. `AddHandler`, `RemoveHandler`, `RemoveHandlers` and
`Return` (what `fire()` does after a handler came back: clear busy, delete a
removed one, go on to the successor it reads then). `Reachable` is what one comes
to along `next`: the least set that has the start and the successors of its own.

**Properties.** `CalledAlive`, `LivesWhileNeeded` (no leak, no use after deletion)
and `FireVisits` (each handler that was there, once).

**Client.** They, and their proofs, rest on `MayRemove`, which `event.h` does not
enforce. A handler that has removed itself, or has
fired the event again, removes no other one before it returns: `fire()` then reads
its successor from a handler that is not in the list any more, or may delete it
(the inner fire has cleared `busy`). And no handler is removed while fires are
nested. `event_nested.cfg` shows why nesting matters: an inner fire clears `busy` of
a handler that is still being called, against the comment at `event.h:65`.

**Run.** `event_check`: four handlers - one being called, its neighbours on both
sides, and one added meanwhile - and fires two deep.

**Proofs** (`EventProofs`, for any handlers, fires and depth of nesting, for clients
that keep to `MayRemove`): `CalledSafety`, `LifeSafety`, `VisitSafety`. The inductive invariant is

    IInv == TypeOK /\ LivesWhileNeeded /\ ListShape /\ FireShape

`ListShape`: the list has no cycle, nor does one come back to a handler that has
been taken out of it; and nothing leads to one that was never added. `FireShape`:
each fire is at a handler of the list, or the outermost at one that was removed
since and is still busy; either way its successor is in the list, and those still
due are just those one comes to. The lemmas about `Reachable` (`ReachableLeast`,
`ReachableClosed` and what an insertion at the head and an unlinking make of it)
stand in for an induction along the list.

## 7. Byte codes: Interpreter, ByteCodesTarget, CallStack, InterpreterProps

**State.** `program` is what is run; `m` the active frame (`_active.code`, `.ip`,
`.fp`), `_sp`, memory and the live blocks of the heap; `lastIp` what a dump
shows; `status` and `result` how the run ends. Memory is a function from word
addresses to words, static objects below the heap below the stack, so a load or
store that goes wrong hits something. Every opcode of the switch in
`ExecutionContext::run()` is a disjunct of an action (`Arithmetic`, `Compare`,
`LoadIndirect`, `Call`, `Ret1`, `VariantArithmetic` and so on), with what makes it
fail. `ByteCodesTarget` is the compiler's side for expressions over ints,
`generate` with `checkStack`, and `Eval`, the meaning of the trees.

**Properties.** `CallsNest`: the interpreter implements `CallStack`, in which a
call suspends a frame and a return resumes it as it was, with the arguments
replaced by results; frames are read from memory as `dumpStack()` does.
`OutcomeRight`: each run leaves the value its program means, or fails where an
address, an instruction or an assertion is bad. `TraceRight`: `disassemble()`
reads the operands the instruction has and shows the address it works on, and what
`dumpStack()` and `dumpIp()` say of a run that failed is every call it was in, each
just behind a call instruction, and the instruction it stopped at.

**Run.** `interp` takes every tree of one level over four leaves and a second
level over those with branches and calls, compiled; and a routine for each way to
store, load, convert, compare, move, pass or refuse. Words have 8 bits, ints 4,
shorts 3 and bytes 2: the values -77, -3, 5, 30 have differing high parts at each
width. Trees whose value does not fit an int are left out, as the byte codes
compute whole words.

`interp_static` is a defect: `STSA` stores the low int of a word where `LDSA`
loads all of it (`runtime.cc:705`, `717`), so a pointer in a static variable loses
its high half.

**Not modelled.** Of the functions of the runtime all but one for each shape
`XCALL` tells apart. A push onto a full stack is refused, which no caller looks at
(`runtime.cc:321`); the programs end before it. `varCompare`
(1739) gives the difference of two values as their order, which wraps, and is
modelled so; the routines compare values whose difference fits.

## 8. Contexts and unwinding: ExceptionTable, Contexts, ContextsProps, ContextsProofs

**What is modelled.** A file is loaded (which section, and whether it is valid);
its program runs in an `ExecutionContext`, and any program may start another, of
byte codes (`Eval`, on the same context and stack) or native (`EvalNative`, with
a context of its own). Each may return, fail or raise; then the evaluator takes
the value or the exception and fetches the copy of the stack, as
`ByteCodesTarget.run()` and `X86_64Encoder.run()` do. `contexts` is the stack of
contexts, `current` the one of the thread, `runs` the locals of the evaluations
in progress; `Run.before`, `outcome` and `heard` are history for the properties.

`ExceptionTable` is `packFunction()` with the entries of guarded segments, made
while a called function is packed inside of its caller, and the walk of
`throwException()` over frames with the two comparators. `Chains` are the frames
generated code can have: an instruction, and return addresses above it up to the
static block whose segment has the handler.

**Properties.** `CallerUntouched`: after a run the evaluator has the context,
stack, frame and target it had. `FailureHeard`: it hears of a failure exactly
when there was one (but for a program that itself returns the least int, the
value that stands for failure), with that program's stack. `HandlerReached`: each
exception reaches the static block's handler with its frame.

**Runs.** `contexts`: five programs, so that an evaluation nests twice on each
side of one that failed; three layouts, without functions, with one, and with two
and two guarded segments.

**Arguments from native code** (`contexts_native.cfg`, `ArgumentsInPlace`). When a
native program evaluates byte codes, the native context has room for two words,
which its own arguments fill (`runtime.cc:296`), and no push is checked, so the
byte code program gets neither its arguments nor its link, although the target of
an execution can be chosen (`main.p:102`). That is why `contexts` has
`EvalFromNative = FALSE`.

**Proofs** (`ContextsProofs`, for any programs, kinds, sections and depth of
nesting): `FailureSafety` (`FailureHeard`) and `CallerSafety` (`CallerUntouched`).
`ContextsAssumption` states that the stack holds what the programs put on it: a push onto
a full stack is refused and nobody looks, so a program would miss its arguments. Both
have the hypothesis `~EvalFromNative`, without which they are false, as the
configuration above shows. The inductive invariant is

    IInv == TypeOK /\ Stacks /\ Kept /\ Nest /\ Phases
              /\ Exceptional /\ Told /\ FailureHeard

`CallerUntouched` is about one step, the end of an evaluation; what it needs is
that nothing since its beginning has touched what the evaluator had. `Stacks`:
every byte code program in progress has its arguments, its link and its own words
above the stack as it found it, the inner ones above the outer ones, and within its
share of the space. `Kept`: what a run saved is what its evaluator had, and the
context outside of a native program is as it was left. `Nest` and `Phases`: how
runs, contexts and `current` belong together. `FailureHeard` needs `Told` - what an
ended run has left is what its evaluator will fetch - and `Exceptional`: nobody but
the evaluator of a native program that failed finds an exception in its context, so
none hears of a failure that was another one's.

`HandlerSafety` (`HandlerReached`) and `ChainReaches` are about the tables, for any
layout. They need neither the invariant above nor `~EvalFromNative`. `ImagesAssumption`
is what `generateFunctionCore` makes of a static block (`x86_64.p` 487-563): its segments
are the last ones, only they are guarded, by one handler, which ends the image; the
code is shorter than the sentinel. Segments may be empty, so that several begin at one
location. The invariant is of the loop that fills the table, `Emits(image, t, s)` after
`s` segments: each entry lies where a segment begins, none before the first guarded one
(`Placed`); the entry of a location has the handler of the segment the location is in
(`Correct`), and in a guarded segment there is one (`Complete`); a new entry is left out only
when the last one has the same handler (`Latest`). From it: a location in a function has no
entry (`NoEntry`), so the walk goes on; every entry that compares equal to one in a guarded
segment has the handler (`Entry`), where the `<=` of the comparator for return
addresses does no harm because a call has two bytes, so that the address one
byte back is not the first of a segment. `ChainReaches` puts them together for chains of
any depth; `Chains`, which the actions use, has up to three frames.

**Limits.** Native sections are whole: one that is cut short is still valid
(`x86_pxi.cc:45`), and what half an image does is outside of a model. Functions
of the runtime are taken to keep RBP. An evaluation clears the argument strings
the outer program's array points into (`runtime.cc:336`); the compiler copies its
options first, so nothing reads them. The end of the state graph is the end of the
program, so deadlock is not checked.

## 9. Debugged processes: DebugSpawn, DebugSpawnProps, DebugSpawnProofs

`process` are the child and those it starts, each with the debug event it waits
for; `ending` is what ended the child and the exit value that gave it; `monitor` the
locals of `monitorDebugEvents()`; `pipe`, `written` and `captured` the output on its
way; `drainer` the thread that reads it; `caller` where `debugSpawn()` stands.
`HandleEvent` is one turn of the loop (`Verdict`: what an exception does to the
counts, to `*exception` and to the child). `MainExited` and `WaitFails` are its two
ends. `WaitFails` is any failed `WaitForDebugEvent`, which the code takes for a
timeout whatever the reason and with or without one (`process.cc:360-366`);
`TimesOut` is the failure that is sure to come: there is a timeout and nobody has an
event. `Spawn`, `Drain` and `Join` are the rest.

What Windows does is external: a process with an event stops until that is
continued; an exception not handled comes back once, then ends the process; one
that ends keeps its handles until its exit event is continued, but one that
`TerminateProcess` ends may keep them until then or lose them at once (state
`"stripped"`), so the model has both. Exit values are any of `ExitCodes`; a process
the loop terminates has 0xc3770001.

**Properties.** `OutputComplete`. `VerdictRight`: a child that an exception ended, or
the loop, is never reported with an exit value, and "too many" is said only past the
limit. It does not say that -2 is always an exception and -1 a child that did not
start: the code returns whatever exit value the child has (`process.cc:454`), so
`exit(-2)` gives -2 with `*exception` unset, and the callers look at the sign first
(`compilerTest.p:575`, 595). Nor does an exit value mean that the loop
saw nothing: exceptions the child handles are ignored, and an `MS_VC_EXCEPTION` that it
does not handle ends it with an exit value (`process.cc:412`).

`Returns`: with a timeout the call returns, but for two cases, which TLC finds each
when it is not excepted. (1) The timeout is for each wait and not for the run
(`process.cc:359`), so a child is never timed out that raises for ever what is not
counted: exceptions it handles itself, `MS_VC_EXCEPTION`, libraries it loads, or what
its own child raises each time after a different process did (382). (2) The loop is
over and a process still has the pipe: one the child left behind, or, after a failed
wait, the child itself, whose last event nobody continues.
What is left to the property: a child that hangs, one that raises what counts for
ever, in whatever order its events and those of its child come, and the drain.

**Run and fairness.** `spawn`: limit 2 in place of 100, so that each count can
pass it; one other process; a timeout; the exit values 0 and the two that look like
answers, -1 and -2. Nothing bounds the events of a process, only its output. The
loop, the drain and the caller are threads Windows schedules: weak fairness, which is
enough for the events as well, since a process that has one does nothing until the loop
takes it. Processes need not do anything, but for the loader's breakpoint.

**Proofs** (`DebugSpawnProofs`, for any number of other processes, any limit, any exit
values, any amount of output, with or without a timeout): `OutputSafety` and
`VerdictSafety`. The inductive invariant is

    IInv == TypeOK /\ Output /\ Held /\ Threads /\ Counts /\ Ended /\ Verdicts

`Output`: what was written is what was read followed by what is in the pipe; with
`Threads` - when the drain has ended the pipe is empty and nobody has it any more -
all of it is there at the return. `Counts`: the loop has counted no more exceptions
of a process than that has had, whatever the order of the events, so "too many" is
right. `Ended`: while the loop runs a child that has ended has its last event and a
cause of it, and if no exception was given the cause is its own exit or an
`MS_VC_EXCEPTION`; when the loop is over the child does not run any more. `Verdicts`: `sawAnException` and an answer
set go together, and the result is made from them. `Held` says that only an existing
process has an event. `Returns` is liveness and stays model-checked.

## 10. Options: Dictionary, Vector, CommandLine, CommandLineProps, CommandLineProofs

`Dictionary` is the runtime's table of names (probe, doubling), `Vector` its
array with the quicksort that `help()` uses, `CommandLine` the class `Command`:
`Define` (`stringArgument`, `booleanArgument`, `helpArgument` with
`defineOption`), `Parse` with `main.cc`'s reaction, `Help`. `meant` is what the
user wants the words to mean, from which the words are written in each of the
forms there are (`-v`, `-vo x`, `-ox`, `--out=x`, `--`).

**Properties.** `NamesFound` (a name leads to the argument that entered it last
and a slot stays free), `ParseRight` (values, help and final words are those
meant), `HelpComplete` (every argument once, in order). **Run.** `command`: four of
five arguments, of which three long names begin at the last slot of a table of
four, so that it wraps and then doubles, and three words. Deadlock is not
checked, as `main` ends.

**Proofs** (`CommandLineProofs`, for any options, names, values, final words, hash
function and table size): `NamesFoundAlways`, `ParseRightAlways` and `HelpCompleteAlways`.
`DictionaryAssumption` is what the code's constants are (an even initial size, above
the eighth of it that stays free); `CommandLineAssumption` says which names and words
there are: no letter is a dash and no long name contains an equals sign, a value is not
empty, the first final word begins with no dash, and every name hashes to a number.
Nothing is assumed of how the hash function spreads the names. `CodeAssumption` is
what `strcmp` gives: any two long names are told apart, and no name comes before each.

For `NamesFound` the invariant is

    NamesInv == ArgsRight(arguments) /\ handles \subseteq DOMAIN arguments
                  /\ IsTable(shortOptions, arguments, "short")
                  /\ IsTable(longOptions, arguments, "long")

`IsTable` says more than that names are found: every key lies where its own probe
stops (`Reaches`), the count is the number of the keys, it is below the size, and the
threshold leaves a slot. `Put` keeps that because a probe over a table with a vacant
slot ends (`FindEntry` picks the least of the steps that do), and `Rehash` because
moving the entries one slot after another into a vacant table is a sequence of such
insertions of different keys. The slots of a probe are all of them (`Probe` modulo the
size), so a vacant one is met.

For `ParseRight` it is `ParseInv == NamesInv /\ (phase = "defining" => Fresh) /\
ParseRight`, where `Fresh` says that nothing has a value before the parse and that no
earlier argument has the letter of one the client got. The loop of `parse()` runs over
words and the loop inside of it over letters, so the proof reads a word at a time
(`LongRead`, `ShortRead`, `ItemRead`, `JoinedRead`), with `Accounts(items, args)`: the
arguments after the words for `items` have what was meant by the last item about each,
and are untouched without one. A letter that takes the next word moves the index past
it, and the outer loop skips that word; a joined letter is read in the same pass as
the one before it. `NamesInv` is what makes the reader look up the argument the writer
meant. The symbols `"-"`, `"="` and `"false"` are members of `Symbol`, because the provers
do not know that a literal is a string.

For `HelpComplete` it is `HelpInv == NamesInv /\ (phase # "helped" => Listed) /\
HelpComplete`: until it is sorted, the array holds the arguments by number, however
much room it has (`PushLists`). `PassNext` is the loop invariant of the quicksort: the
place of the pivot, which has been read out and does not count, moves up with each
element that is not greater (`LoweredPart`), a greater one changes places with one at
the end (`RaisedPart`), and the other places of the part keep the same elements
between them (`Parted`). The pivot put back makes the part whole again
(`PartitionCuts`), and two sorted parts with the pivot between them are one sorted
part (`Halves`); that asks of the relation to be antisymmetric only, since the property
compares neighbours. `Sorted` is the induction over the bound of the recursion, by the
least level that would fail.

The properties describe what the code does, which may surprise: a definition that is
refused because its letter is taken has taken the letter all the same; the word
`--` stays among the final words, so `main.cc` tries to load a file of that name;
a word `-` alone is skipped.

## 11. Kernel semaphores: KernelSemaphore, KernelSemaphoreProps, KernelSemaphoreProofs

`count` and `waiting` are the fields of a `kernelSemaphore` (the one that hands
out `Units` and `SuspendEvent`, on which suspended processes wait); `status`,
`alertable`, `resource`, `suspended` and `aborted` those of a process; `switching`
says that it is inside of `processSwitch()`. `holds`, `granted`, `lost` and
`phantom` are history. A section under the lock is an action; the wait is split
where the processor goes elsewhere (`Down`, then `SwitchSuspended`,
`SwitchAborted` or `SwitchEnds`); `KillTests`, `KillMarks` (it sets `alertable`) and
`KillAborts` are three because `killChild` has no lock. The order of the run queue is open.

**Properties.** `UnitsAccounted`: each unit is free, counted for one process or
lost; each queue holds exactly those who wait, as its count says. `ToldRight`: no
process goes on with a unit it has not got, and one that got its unit is told
otherwise only if it was suspended inside of its wait. **Run.** `kernel`: three
processes and one unit, so that two wait while the third disturbs them; one kill.

Three things the model shows and the properties except: a process that is
suspended while it waits, although it then gets its unit, is told that its wait
was aborted, because the second wait overwrites `alertable` (`PROCESS.P:546`), and
the unit is lost; a kill that comes after the process got its unit adds one
nobody gave back (`phantom`; `PROCESS.P:404`, `ANIMOBJ.P:384`); and `startle`
(717) wakes at most the first in the queue, not all as its comment says.

**Proofs** (`KernelSemaphoreProofs`, for any finite set of processes, any units and
any number of kills): `UnitsSafety` (`UnitsAccounted`) and `ToldSafety`
(`ToldRight`). The inductive invariant is

    IInv == TypeOK /\ Queues /\ UnitsCounted /\ NoIdleWait /\ Calls

The argument is about `Free(s)`, the count and the length of the queue added up:
`down` and `up` change both so that it falls by one for each unit given and rises
by one for each returned; an abort takes one from the queue and adds one to the
count. `UnitsCounted` equates it to the units less those counted for a process and
those lost. `Queues` (a queue holds each of its waiters once) makes the
removal of an aborted process from the middle remove just one. `NoIdleWait`: a unit
is free while somebody waits only after a kill outside of the lock. `Calls` says
what each process inside of `down()` knows of itself, the flag it called with among
it; from it follows what it is told.

Left out: creation and exit of processes, priorities and aging, latched arenas,
`wakeup` and `empty`.

## 12. Strings and paths: Strings, Paths, StringsProps

`strings` gives each object its allocation: `length` and the bytes of `data`,
those that nobody wrote as `Junk`; an empty string has none. `Resize` is
`resize()`, which keeps an allocation as long as the size worked out from the old
length is that for the new one; the operations (`FromText`, `Appended`, `Plus`,
`Substr` and so on) are it and the `memcpy` that follows, and what is written
behind an allocation makes it longer in the model. `Paths` has the functions of
`file_system.cc` in terms of these. `meant` and `cut` are history: the characters
an object should have, and whether `resize()` shortened it, after which no NUL
ends it.

**Properties.** `StringsRight`: characters, size of the allocation and NUL are
right, comparisons are an order that agrees with the prefix, and what `split()`
gives makes the string again. `PathsRight`: a path constructed from a directory, a
name and an extension has all three, whatever dots and slashes they have; one
constructed from its own parts is itself; a relative path stays one as long as its
base is.

**Run.** `strings`: two strings of up to three characters, `/`, `.` and a letter.
The header has one byte and the least allocation four in place of 4 and 16, so that
two characters and the NUL fill one, three need the next, and paths of both the
one after that. The names of the objects are symmetric. A third object would only
add places to keep a value; no operation joins more than two. Every string can
become shorter or be cleared, so deadlock is checked.

**Limits.** A client of the model does none of what the code does not allow:
`+=` writes at the new length, behind the characters (`string.h:262`); a string
appended to itself is copied onto itself with one byte of overlap; `append("")` to an empty
string writes through a null pointer. A count given to `substr` is compared with
the size and not with what is behind the offset, and no string ends with itself
(`string.cc:38`): the model has both, and its client asks for a count that is
there. Of the slashes the model has `/` only, and no drive letters; a backslash
takes the same branches. `makeCompactPath` is not modelled: it compares characters
and not names of directories, so what it makes of `c:\d\ab\x` seen from
`c:\d\a\y` is `ab\x`, and not a path from there (`file_system.cc:264`).

## 13. Not modelled, and limits

Only model-checked, and why:

- liveness (`AcceptedIsServed` and `DestroyEnds` of the pool, `Returns` of
  `debugSpawn`, `Completes` of the allocator): TLAPS does not prove liveness under
  fairness;
- `SpillsNest`, `SpillsEmitted` and `OperandsInPlace` of the allocator: they are not
  facts about every expression. They hold when the loop of exchanges meets no pushed
  temporary and no leaf's `getreg` queues a spill, which the checked expressions give,
  and no inductive invariant that says so for every size has been found;
- `RegistersAccounted` for expressions with a division, for the reason section 4
  gives;
- `StringsRight` and `PathsRight`: what recursive definitions or folds compute from
  data;
- the interpreter's properties: `Interpreter` uses Bitwise, which no module with a
  proof may reach.

Components without a module, and the reason, are in `PROJECT.json`. Of the
conversions in `string.cc`, noticed in passing: `unescapeC` skips a
character after a hexadecimal or octal escape and refuses `"\0"` (259-322), and
`escapeC` writes `\x%x`, which takes the digits that follow into the escape. The
compile pipeline, the parser, the symbol table and the tree rules are sequential
and covered by the repository's own test scripts (`test`). Code layout beyond
the order of functions is the size and place of instructions. The kernel's
messages (`MESSAGE.P`) wait on semaphores that announce events, which
`KernelSemaphore` leaves out: a sender whose wait is interrupted closes its
message while its receiver may reply to it (195), `close()` changes the id of a
message after it is back on the free list (332), and all share 256 of them (15).
The bulk of `Parasol_1` is kept as a backup and is not built.
