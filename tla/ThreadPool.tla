----------------------------- MODULE ThreadPool -----------------------------
(***************************************************************************)
(* The thread pool of the C++ runtime (runtime/common/process.h and .cc).  *)
(*                                                                         *)
(* A pool owns a linked list of handlers (_actions), a counting semaphore  *)
(* (_actionQueue) released once per handler queued, a lock, and a fixed    *)
(* set of worker threads that loop over dequeue.  run() may be called from *)
(* any thread, a handler included; runOne() lends the calling thread to    *)
(* the pool for one handler; the destructor queues one stop handler per    *)
(* worker and waits for each to be run.                                    *)
(*                                                                         *)
(* Every block the code runs under _lock is one action.  The semaphore is  *)
(* released and waited for outside the lock, so a thread can be stopped    *)
(* between any two of these.                                               *)
(***************************************************************************)
EXTENDS Integers, Sequences, FiniteSets

CONSTANTS
  Workers,    \* the threads the constructor starts, numbered from 1
  Clients,    \* the other threads that use the pool
  Owner,      \* the client that constructs and destroys it
  Jobs,       \* the handlers that run() may be given, each used once
  Callers,    \* the clients and jobs that call run()
  Helpers,    \* the clients and jobs that call runOne()
  Flushers,   \* the clients and jobs that call flushActions()
  Interrupts, \* the clients and jobs that give runOne() an event
  DrainFirst, \* TRUE: the owner polls busy() before it destroys the pool
  Stop,       \* the stop handler of the destructor
  Null        \* no handler

ASSUME PoolAssumption ==
  /\ IsFiniteSet(Workers) /\ Workers # {}
  /\ Workers = 1 .. Cardinality(Workers)
  /\ IsFiniteSet(Clients) /\ Owner \in Clients
  /\ IsFiniteSet(Jobs)
  /\ Workers \cap Clients = {} /\ (Workers \cup Clients) \cap Jobs = {}
  /\ Stop \notin Workers \cup Clients \cup Jobs \cup {Null} /\ Null \notin Jobs
  /\ DrainFirst \in BOOLEAN

VARIABLES
  phase,     \* where the owner is in the life of the pool
  started,   \* the number of workers whose thread is running
  size,      \* _threads.size()
  actions,   \* _actions, the head of the list first
  tokens,    \* the count of _actionQueue
  idle,      \* _idleThreads
  waiting,   \* _waitingThreads
  stopped,   \* the count of _shutdownSemaphore
  stops,     \* the number of stop handlers the destructor has queued
  pc,        \* what each thread is doing
  frames,    \* the handlers each thread is inside of, the outermost first
  got,       \* what takeOne returned to a thread in runOne
  releasing, \* the threads in enqueue that have not released the semaphore
  fresh,     \* the handlers not yet given to run()
  done,      \* the handlers that have run to their end
  flushed,   \* the handlers flushActions has deleted
  stale,     \* (history) tokens whose handler was flushed
  fires      \* (history) 0 or 1, flipped whenever the event idle is fired

vars == <<phase, started, size, actions, tokens, idle, waiting, stopped,
          stops, pc, frames, got, releasing, fresh, done, flushed, stale,
          fires>>

ownerVars == <<phase, started, size, stopped, stops>>
jobVars   == <<fresh, done, flushed>>

Threads == Workers \cup Clients
N       == Cardinality(Workers)

(***************************************************************************)
(* A worker is in dequeue or takeOne ("loop", "wait", "passed"); a thread  *)
(* in runOne is at its wait ("rwait"), past it ("rpassed", or "rintr" when *)
(* interrupted), or about to take the lock again ("rafter", "iafter");     *)
(* "run" is user code: the body of the last handler of frames, or a        *)
(* client's own code when there is none.  "exited" is ExitThread,          *)
(* "returned" is loop leaving after a null handler.                        *)
(***************************************************************************)
After    == {"rafter", "iafter"}
InPool   == {"loop", "wait", "passed", "rwait", "rpassed", "rintr"} \cup After
PcStates == InPool \cup {"unborn", "run", "exited", "returned"}

Phases == {"ctor", "open", "stopEnqueue", "stopRelease", "stopWait", "gone"}

Init ==
  /\ phase = "ctor" /\ started = 0 /\ size = 0
  /\ actions = <<>> /\ tokens = 0
  /\ idle = 0 /\ waiting = 0
  /\ stopped = 0 /\ stops = 0
  /\ pc = [t \in Threads |-> IF t \in Workers THEN "unborn" ELSE "run"]
  /\ frames = [t \in Threads |-> <<>>]
  /\ got = [t \in Threads |-> Null]
  /\ releasing = {}
  /\ fresh = Jobs /\ done = {} /\ flushed = {}
  /\ stale = 0 /\ fires = 0

-----------------------------------------------------------------------------
(***************************************************************************)
(* Construction: each thread runs as soon as it is created, before         *)
(* _threads has room for it.                                               *)
(***************************************************************************)
StartThread ==
  /\ phase = "ctor" /\ started = size /\ size < N
  /\ started' = started + 1
  /\ pc' = [pc EXCEPT ![started + 1] = "loop"]
  /\ UNCHANGED <<phase, size, actions, tokens, idle, waiting, stopped, stops,
                 frames, got, releasing, jobVars, stale, fires>>

PushThread ==
  /\ phase = "ctor" /\ started = size + 1
  /\ size' = started
  /\ phase' = IF size' = N THEN "open" ELSE "ctor"
  /\ UNCHANGED <<started, actions, tokens, idle, waiting, stopped, stops, pc,
                 frames, got, releasing, jobVars, stale, fires>>

-----------------------------------------------------------------------------
(***************************************************************************)
(* The code a thread is running on its own account: a client, or the       *)
(* handler it is inside of.  A client uses the pool only while it exists   *)
(* and is not being destroyed; a handler may do so until its thread stops. *)
(***************************************************************************)
Actor(t) == IF frames[t] = <<>> THEN t ELSE frames[t][Len(frames[t])]

Running(t) == /\ pc[t] = "run" /\ t \notin releasing
              /\ Actor(t) # Stop
              /\ frames[t] = <<>> => phase = "open"

Busy == idle # size \/ actions # <<>>

(* What a defect would make of it: the newest handler goes first.          *)
RunLifo(t, j) ==
  /\ Running(t) /\ Actor(t) \in Callers /\ j \in fresh /\ phase = "open"
  /\ fresh' = fresh \ {j}
  /\ actions' = <<j>> \o actions
  /\ releasing' = releasing \cup {t}
  /\ UNCHANGED <<ownerVars, tokens, idle, waiting, pc, frames, got, done,
                 flushed, stale, fires>>

(* run(): a handler is refused once the shutdown semaphore exists.         *)
Run(t, j) ==
  /\ Running(t) /\ Actor(t) \in Callers /\ j \in fresh
  /\ fresh' = fresh \ {j}
  /\ \/ /\ phase = "open"
        /\ actions' = Append(actions, j)
        /\ releasing' = releasing \cup {t}
     \/ /\ phase # "open"
        /\ UNCHANGED <<actions, releasing>>
  /\ UNCHANGED <<ownerVars, tokens, idle, waiting, pc, frames, got, done,
                 flushed, stale, fires>>

(* Defect: an event instead of a semaphore, two releases count as one.     *)
ReleaseEvent(t) ==
  /\ t \in releasing
  /\ tokens' = 1
  /\ releasing' = releasing \ {t}
  /\ phase' = IF t = Owner /\ phase = "stopRelease" THEN "stopWait" ELSE phase
  /\ UNCHANGED <<started, size, stopped, stops, actions, idle, waiting, pc,
                 frames, got, jobVars, stale, fires>>

(* The end of enqueue, after the lock is released.                         *)
Release(t) ==
  /\ t \in releasing
  /\ tokens' = tokens + 1
  /\ releasing' = releasing \ {t}
  /\ phase' = IF t = Owner /\ phase = "stopRelease" THEN "stopWait" ELSE phase
  /\ UNCHANGED <<started, size, stopped, stops, actions, idle, waiting, pc,
                 frames, got, jobVars, stale, fires>>

(* The stop handler is not heap allocated and never in the list when it is *)
(* emptied: the destructor flushes before it queues the first.             *)
Flushed ==
  /\ actions' = <<>>
  /\ flushed' = flushed \cup {actions[i] : i \in 1 .. Len(actions)}
  /\ stale' = stale + Len(actions)

FlushActions(t) ==
  /\ Running(t) /\ Actor(t) \in Flushers
  /\ phase = "open"
  /\ Flushed
  /\ UNCHANGED <<ownerVars, tokens, idle, waiting, pc, frames, got, releasing,
                 fresh, done, fires>>

-----------------------------------------------------------------------------
(***************************************************************************)
(* The worker loop.                                                        *)
(***************************************************************************)
(* Defect: the event is fired without a look at the list.                  *)
DequeueFires(w) ==
  /\ w \in Workers /\ pc[w] = "loop"
  /\ idle' = idle + 1
  /\ fires' = IF idle' = size THEN 1 - fires ELSE fires
  /\ pc' = [pc EXCEPT ![w] = "wait"]
  /\ UNCHANGED <<ownerVars, actions, tokens, waiting, frames, got, releasing,
                 jobVars, stale>>

Dequeue(w) ==
  /\ w \in Workers /\ pc[w] = "loop"
  /\ idle' = idle + 1
  /\ fires' = IF idle' = size /\ actions = <<>> THEN 1 - fires ELSE fires
  /\ pc' = [pc EXCEPT ![w] = "wait"]
  /\ UNCHANGED <<ownerVars, actions, tokens, waiting, frames, got, releasing,
                 jobVars, stale>>

(* wait2 returns 0: the semaphore has been decremented for this thread.    *)
Pass(t) ==
  /\ pc[t] \in {"wait", "rwait"} /\ tokens > 0
  /\ tokens' = tokens - 1
  /\ pc' = [pc EXCEPT ![t] = IF @ = "wait" THEN "passed" ELSE "rpassed"]
  /\ UNCHANGED <<ownerVars, actions, idle, waiting, frames, got, releasing,
                 jobVars, stale, fires>>

(* Defect: the handler is not unlinked.                                    *)
TakenNotUnlinked(h) ==
  /\ idle' = idle - 1
  /\ actions # <<>> /\ h = Head(actions)
  /\ UNCHANGED <<actions, stale>>

(* What takeOne does under the lock after a wait that returned 0.          *)
Taken(h) ==
  /\ idle' = idle - 1
  /\ \/ /\ actions # <<>> /\ h = Head(actions)
        /\ actions' = Tail(actions)
        /\ UNCHANGED stale
     \/ /\ actions = <<>> /\ h = Null
        /\ stale' = stale - 1
        /\ UNCHANGED actions

TakeOne(w) ==
  /\ w \in Workers /\ pc[w] = "passed"
  /\ \E h \in Jobs \cup {Stop, Null} :
       /\ Taken(h)
       /\ pc' = [pc EXCEPT ![w] = IF h = Null THEN "returned" ELSE "run"]
       /\ frames' = IF h = Null THEN frames
                    ELSE [frames EXCEPT ![w] = Append(@, h)]
  /\ UNCHANGED <<ownerVars, tokens, waiting, got, releasing, jobVars, fires>>

(* h->run() returns, and the handler is deleted.                           *)
Finish(t) ==
  /\ pc[t] = "run" /\ t \notin releasing
  /\ frames[t] # <<>> /\ Actor(t) # Stop
  /\ done' = done \cup {Actor(t)}
  /\ frames' = [frames EXCEPT ![t] = SubSeq(@, 1, Len(@) - 1)]
  /\ pc' = [pc EXCEPT ![t] = IF t \in Workers /\ Len(frames[t]) = 1
                             THEN "loop" ELSE "run"]
  /\ UNCHANGED <<ownerVars, actions, tokens, idle, waiting, got, releasing,
                 fresh, flushed, stale, fires>>

(* Defect: a stop handler that does not report.                            *)
RunStopSilently(t) ==
  /\ pc[t] = "run" /\ Actor(t) = Stop
  /\ pc' = [pc EXCEPT ![t] = "exited"]
  /\ UNCHANGED <<ownerVars, actions, tokens, idle, waiting, frames, got,
                 releasing, jobVars, stale, fires>>

(* The stop handler: release the shutdown semaphore, then ExitThread.      *)
RunStop(t) ==
  /\ pc[t] = "run" /\ Actor(t) = Stop
  /\ stopped' = stopped + 1
  /\ pc' = [pc EXCEPT ![t] = "exited"]
  /\ UNCHANGED <<phase, started, size, stops, actions, tokens, idle, waiting,
                 frames, got, releasing, jobVars, stale, fires>>

-----------------------------------------------------------------------------
(***************************************************************************)
(* runOne.                                                                 *)
(***************************************************************************)
(* The first locked block, after _waitingThreads++: nobody could bring     *)
(* work, or so the counts say.                                             *)
GivesUp == idle + waiting + 1 = size /\ actions = <<>>

(* Defect: the caller is not counted as waiting.                           *)
RunOneUncounted(t) ==
  /\ Running(t) /\ Actor(t) \in Helpers
  /\ ~GivesUp
  /\ pc' = [pc EXCEPT ![t] = "rwait"]
  /\ UNCHANGED <<ownerVars, waiting, actions, tokens, idle, frames, got,
                 releasing, jobVars, stale, fires>>

RunOne(t) ==
  /\ Running(t) /\ Actor(t) \in Helpers
  /\ \/ /\ GivesUp                                      \* returns false
        /\ UNCHANGED <<waiting, pc>>
     \/ /\ ~GivesUp
        /\ waiting' = waiting + 1
        /\ pc' = [pc EXCEPT ![t] = "rwait"]
  /\ UNCHANGED <<ownerVars, actions, tokens, idle, frames, got, releasing,
                 jobVars, stale, fires>>

(* wait2 returns 1; of two signalled objects it reports the first.         *)
Interrupt(t) ==
  /\ pc[t] = "rwait" /\ Actor(t) \in Interrupts /\ tokens = 0
  /\ pc' = [pc EXCEPT ![t] = "rintr"]
  /\ UNCHANGED <<ownerVars, actions, tokens, idle, waiting, frames, got,
                 releasing, jobVars, stale, fires>>

RunOneTake(t) ==
  /\ \/ /\ pc[t] = "rpassed"
        /\ \E h \in Jobs \cup {Stop, Null} :
             Taken(h) /\ got' = [got EXCEPT ![t] = h]
        /\ pc' = [pc EXCEPT ![t] = "rafter"]
     \/ /\ pc[t] = "rintr"
        /\ idle' = idle - 1
        /\ pc' = [pc EXCEPT ![t] = "iafter"]
        /\ UNCHANGED <<actions, got, stale>>
  /\ UNCHANGED <<ownerVars, tokens, waiting, frames, releasing, jobVars,
                 fires>>

(* Defect: takeOne's decrement is not undone.                              *)
RunOneAfterUnbalanced(t) ==
  /\ pc[t] \in After
  /\ waiting' = waiting - 1
  /\ frames' = IF got[t] = Null THEN frames
               ELSE [frames EXCEPT ![t] = Append(@, got[t])]
  /\ got' = [got EXCEPT ![t] = Null]
  /\ pc' = [pc EXCEPT ![t] = "run"]
  /\ UNCHANGED <<ownerVars, actions, tokens, idle, releasing, jobVars, stale,
                 fires>>

(* The second locked block: undo takeOne's decrement, then run or return.  *)
RunOneAfter(t) ==
  /\ pc[t] \in After
  /\ waiting' = waiting - 1
  /\ idle' = idle + 1
  /\ frames' = IF got[t] = Null THEN frames
               ELSE [frames EXCEPT ![t] = Append(@, got[t])]
  /\ got' = [got EXCEPT ![t] = Null]
  /\ pc' = [pc EXCEPT ![t] = "run"]
  /\ UNCHANGED <<ownerVars, actions, tokens, releasing, jobVars, stale, fires>>

-----------------------------------------------------------------------------
(***************************************************************************)
(* Destruction, on the owner's thread once no other client is inside.      *)
(***************************************************************************)
Destroy ==
  /\ phase = "open"
  /\ \A c \in Clients : pc[c] = "run" /\ frames[c] = <<>> /\ c \notin releasing
  /\ DrainFirst => ~Busy
  /\ phase' = "stopEnqueue"
  /\ Flushed
  /\ UNCHANGED <<started, size, stopped, stops, tokens, idle, waiting, pc,
                 frames, got, releasing, fresh, done, fires>>

(* Defect: one stop handler too few.                                       *)
EnqueueStopShort ==
  /\ phase = "stopEnqueue"
  /\ \/ /\ stops < size - 1
        /\ actions' = Append(actions, Stop)
        /\ releasing' = releasing \cup {Owner}
        /\ stops' = stops + 1
        /\ phase' = "stopRelease"
     \/ /\ stops = size - 1
        /\ phase' = "gone"
        /\ UNCHANGED <<actions, releasing, stops>>
  /\ UNCHANGED <<started, size, stopped, tokens, idle, waiting, pc, frames,
                 got, jobVars, stale, fires>>

EnqueueStop ==
  /\ phase = "stopEnqueue"
  /\ \/ /\ stops < size
        /\ actions' = Append(actions, Stop)
        /\ releasing' = releasing \cup {Owner}
        /\ stops' = stops + 1
        /\ phase' = "stopRelease"
     \/ /\ stops = size
        /\ phase' = "gone"
        /\ UNCHANGED <<actions, releasing, stops>>
  /\ UNCHANGED <<started, size, stopped, tokens, idle, waiting, pc, frames,
                 got, jobVars, stale, fires>>

WaitStopped ==
  /\ phase = "stopWait" /\ stopped > 0
  /\ stopped' = stopped - 1
  /\ phase' = "stopEnqueue"
  /\ UNCHANGED <<started, size, stops, actions, tokens, idle, waiting, pc,
                 frames, got, releasing, jobVars, stale, fires>>

-----------------------------------------------------------------------------
ThreadStep(t) ==
  \/ Release(t) \/ Dequeue(t) \/ Pass(t) \/ TakeOne(t) \/ Finish(t)
  \/ RunStop(t) \/ RunOneTake(t) \/ RunOneAfter(t)

UserStep(t) ==
  \/ \E j \in Jobs : Run(t, j)
  \/ FlushActions(t) \/ RunOne(t) \/ Interrupt(t)

OwnerStep == StartThread \/ PushThread \/ EnqueueStop \/ WaitStopped

Next == \/ OwnerStep \/ Destroy
        \/ \E t \in Threads : ThreadStep(t) \/ UserStep(t)

Spec == Init /\ [][Next]_vars

(***************************************************************************)
(* Fairness: the system schedules every thread that can run, and a handler *)
(* returns.  Nobody is bound to call run(), runOne() or flushActions().    *)
(***************************************************************************)
FairSpec == /\ Spec
            /\ WF_vars(OwnerStep)
            /\ \A t \in Threads : WF_vars(ThreadStep(t))

=============================================================================
