-------------------------- MODULE ThreadPoolProps ---------------------------
(***************************************************************************)
(* What the thread pool must guarantee.                                    *)
(***************************************************************************)
EXTENDS ThreadPool

Handlers == Jobs \cup {Stop}

TypeOK ==
  /\ phase \in Phases
  /\ started \in 0 .. N /\ size \in 0 .. N
  /\ actions \in Seq(Handlers)
  /\ tokens \in Nat /\ idle \in Int /\ waiting \in Nat
  /\ stopped \in Nat /\ stops \in 0 .. N
  /\ pc \in [Threads -> PcStates]
  /\ frames \in [Threads -> Seq(Handlers)]
  /\ got \in [Threads -> Handlers \cup {Null}]
  /\ releasing \subseteq Threads
  /\ fresh \subseteq Jobs /\ done \subseteq Jobs /\ flushed \subseteq Jobs
  /\ stale \in Nat /\ fires \in {0, 1}

-----------------------------------------------------------------------------
(* The semaphore and the list are changed under no common lock, yet every  *)
(* queued handler has its token: in the semaphore, with a thread that has  *)
(* passed its wait and not yet taken the lock, or with a thread that is    *)
(* about to release it.  The surplus is what flushActions leaves behind.   *)
Passed == {t \in Threads : pc[t] \in {"passed", "rpassed"}}

TokenAccounting ==
  tokens + Cardinality(Passed) + Cardinality(releasing) = Len(actions) + stale

(* A handler given to run() is in exactly one place, whatever threads pass *)
(* it on: none is run twice, run after its deletion, or lost.              *)
Places(j) ==
  {<<"queue", i>> : i \in {k \in 1 .. Len(actions) : actions[k] = j}}
    \cup {<<"held", t>> : t \in {u \in Threads : got[u] = j}}
    \cup {<<"frame", t>> :
            t \in {u \in Threads : \E k \in 1 .. Len(frames[u]) :
                                     frames[u][k] = j}}
    \cup {p \in {<<"fresh", j>>} : j \in fresh}
    \cup {p \in {<<"done", j>>} : j \in done}
    \cup {p \in {<<"flushed", j>>} : j \in flushed}

ExactlyOnePlace ==
  \A j \in Jobs :
    IF phase \in {"ctor", "open"} THEN Cardinality(Places(j)) = 1
    ELSE Cardinality(Places(j)) <= 1

(* _idleThreads is what busy() and runOne compare with the pool's size:    *)
(* it counts the workers between loop and takeOne, less the threads that   *)
(* runOne has between its two locked blocks.  _waitingThreads counts those *)
(* inside of runOne.                                                       *)
IdleThreads    == {w \in Workers : pc[w] \in {"wait", "passed"}}
AfterThreads   == {t \in Threads : pc[t] \in After}
WaitingThreads == {t \in Threads : pc[t] \in {"rwait", "rpassed", "rintr"}}

IdleCount ==
  /\ idle = Cardinality(IdleThreads) - Cardinality(AfterThreads)
  /\ waiting = Cardinality(WaitingThreads) + Cardinality(AfterThreads)

(* The event idle is fired only when no worker is inside of a handler and  *)
(* none is queued.                                                         *)
IdleFireMeansQuiet ==
  [][fires' # fires => /\ actions = <<>>
                       /\ \A w \in Workers : frames[w] = <<>>]_vars

(* The destructor returns only when every worker has left the pool for     *)
(* good: none touches the lock, the list or the semaphore afterwards.      *)
DestroyedPoolUnused ==
  phase = "gone" => /\ \A w \in Workers : pc[w] = "exited"
                    /\ \A t \in Threads : pc[t] \notin InPool
                    /\ releasing = {}

-----------------------------------------------------------------------------
(* What the comment on runOne says of a result of false: "no action could  *)
(* be run (because none were ready and no threads were busy)".             *)
RunOneFalseMeansQuiet ==
  \A t \in Threads :
    Running(t) /\ Actor(t) \in Helpers /\ GivesUp =>
      \A w \in Workers \ {t} : frames[w] = <<>>

(* What the comment on runOne says of a result of true: "either an         *)
(* interruptWhen event happened or an action was run".                     *)
RunOneTrueMeansRan ==
  [][\A t \in Threads : pc[t] = "rafter" /\ pc'[t] = "run" => got[t] # Null]_vars

-----------------------------------------------------------------------------
(* The pool is a queue served in order: see Executor.                      *)
Executing ==
  {j \in Jobs : \E t \in Threads :
                  \/ got[t] = j
                  \/ \E k \in 1 .. Len(frames[t]) : frames[t][k] = j}

Exec == INSTANCE Executor WITH
          closed  <- phase \notin {"ctor", "open"},
          queue   <- actions,
          running <- Executing

ExecSpec == Exec!Spec

-----------------------------------------------------------------------------
Queued(j) == \E i \in 1 .. Len(actions) : actions[i] = j

(* A handler that was accepted is run to its end, or deleted unrun.        *)
AcceptedIsServed == \A j \in Jobs : Queued(j) ~> j \in done \cup flushed

(* The destructor comes to its end.                                        *)
DestroyEnds == phase = "stopEnqueue" ~> phase = "gone"

=============================================================================
