-------------------------- MODULE ThreadPoolProofs --------------------------
(***************************************************************************)
(* Proofs about the thread pool, for any number of workers and clients.    *)
(***************************************************************************)
EXTENDS ThreadPoolProps, FiniteSetTheorems, SequenceTheorems, TLAPS

(* What the typing and the counts leave open: in the constructor nothing   *)
(* has been queued, afterwards every worker is known to the pool; before   *)
(* the destructor no stop handler is queued; and a worker in its own loop  *)
(* is inside of no handler.                                                *)
Shape ==
  /\ phase # "ctor" => size = N
  /\ phase \in {"ctor", "open"} => actions \in Seq(Jobs)
  /\ phase = "ctor" => /\ actions = <<>> /\ stale = 0
                       /\ \A t \in Threads : frames[t] = <<>> /\ got[t] = Null
  /\ \A w \in Workers :
       /\ pc[w] \in {"unborn", "loop", "wait", "passed", "returned"}
            => frames[w] = <<>>
       /\ pc[w] = "unborn" <=> w > started
  /\ phase \in {"stopEnqueue", "stopWait", "gone"} => Owner \notin releasing

IInv == TypeOK /\ TokenAccounting /\ IdleCount /\ Shape

-----------------------------------------------------------------------------
LEMMA Finite ==
  /\ IsFiniteSet(Threads) /\ IsFiniteSet(Workers)
  /\ N \in Nat /\ N > 0 /\ Workers = 1 .. N /\ Owner \in Threads
<1>1. IsFiniteSet(Workers) /\ Workers # {} /\ IsFiniteSet(Clients)
  BY PoolAssumption
<1>2. N \in Nat /\ N # 0
  BY <1>1, FS_CardinalityType, FS_EmptySet DEF N
<1>3. IsFiniteSet(Threads)
  BY <1>1, FS_Union DEF Threads
<1> QED
  BY <1>1, <1>2, <1>3, PoolAssumption DEF N, Threads

LEMMA Card ==
  ASSUME NEW S \in SUBSET Threads
  PROVE  IsFiniteSet(S) /\ Cardinality(S) \in Nat
BY Finite, FS_Subset, FS_CardinalityType

LEMMA AddOne ==
  ASSUME NEW S \in SUBSET Threads, NEW t \in Threads, t \notin S
  PROVE  Cardinality(S \cup {t}) = Cardinality(S) + 1
BY Card, FS_AddElement

LEMMA DropOne ==
  ASSUME NEW S \in SUBSET Threads, NEW t \in S
  PROVE  Cardinality(S \ {t}) = Cardinality(S) - 1 /\ Cardinality(S) > 0
<1>1. IsFiniteSet(S) /\ Cardinality(S) \in Nat
  BY Card
<1>2. Cardinality(S \ {t}) = Cardinality(S) - 1
  BY <1>1, FS_RemoveElement
<1>3. Cardinality(S \ {t}) \in Nat
  BY Card
<1> QED
  BY <1>1, <1>2, <1>3

(* The sets the counts are about, and that they are sets of threads.       *)
LEMMA Sets ==
  ASSUME TypeOK
  PROVE  /\ Passed \in SUBSET Threads /\ IdleThreads \in SUBSET Threads
         /\ AfterThreads \in SUBSET Threads /\ releasing \in SUBSET Threads
         /\ WaitingThreads \in SUBSET Threads
         /\ Cardinality(Passed) \in Nat /\ Cardinality(IdleThreads) \in Nat
         /\ Cardinality(AfterThreads) \in Nat /\ Cardinality(releasing) \in Nat
         /\ Cardinality(WaitingThreads) \in Nat
         /\ Len(actions) \in Nat /\ tokens \in Nat /\ stale \in Nat
         /\ idle \in Int /\ waiting \in Nat
<1>1. /\ Passed \in SUBSET Threads /\ IdleThreads \in SUBSET Threads
      /\ AfterThreads \in SUBSET Threads /\ releasing \in SUBSET Threads
      /\ WaitingThreads \in SUBSET Threads
      /\ Len(actions) \in Nat /\ tokens \in Nat /\ stale \in Nat
      /\ idle \in Int /\ waiting \in Nat
  BY DEF TypeOK, Passed, IdleThreads, AfterThreads, WaitingThreads, Threads
<1> QED
  BY <1>1, Card

-----------------------------------------------------------------------------
LEMMA InitIInv == Init => IInv
<1> SUFFICES ASSUME Init PROVE IInv
  OBVIOUS
<1> USE Finite
<1>1. TypeOK
  <2>1. pc \in [Threads -> PcStates]
    BY DEF Init, PcStates, InPool, Threads
  <2>2. /\ frames \in [Threads -> Seq(Handlers)]
        /\ got \in [Threads -> Handlers \cup {Null}]
        /\ actions \in Seq(Handlers)
    BY DEF Init
  <2> QED
    BY <2>1, <2>2 DEF Init, TypeOK, Phases
<1>2. /\ Passed = {} /\ IdleThreads = {} /\ AfterThreads = {}
      /\ WaitingThreads = {} /\ releasing = {}
  BY PoolAssumption DEF Init, Passed, IdleThreads, AfterThreads,
       WaitingThreads, After, Threads
<1>3. TokenAccounting /\ IdleCount
  BY <1>2, FS_EmptySet DEF Init, TokenAccounting, IdleCount
<1>4. Shape
  BY PoolAssumption DEF Init, Shape, Threads
<1> QED
  BY <1>1, <1>3, <1>4 DEF IInv

(* A step that changes neither pc nor the list nor the counts.             *)
LEMMA SamePc ==
  ASSUME UNCHANGED pc
  PROVE  /\ Passed' = Passed /\ IdleThreads' = IdleThreads
         /\ AfterThreads' = AfterThreads /\ WaitingThreads' = WaitingThreads
BY DEF Passed, IdleThreads, AfterThreads, WaitingThreads


LEMMA StartThreadStep ==
  ASSUME IInv, StartThread
  PROVE  IInv'
<1> USE Finite DEF IInv
<1>. DEFINE w == started + 1
<1>1. TypeOK /\ started \in 0 .. N /\ size \in 0 .. N /\ w \in Workers
      /\ w \in Threads
  BY DEF StartThread, TypeOK, Threads
<1>2. TypeOK'
  BY <1>1 DEF StartThread, TypeOK, PcStates, InPool, jobVars
<1>3. pc[w] = "unborn" /\ pc' = [pc EXCEPT ![w] = "loop"]
  BY <1>1 DEF StartThread, Shape, TypeOK
<1>4. UNCHANGED <<Passed, IdleThreads, AfterThreads, WaitingThreads>>
  BY <1>1, <1>3 DEF TypeOK, Passed, IdleThreads, AfterThreads, WaitingThreads, After, Threads
<1>5. TokenAccounting' /\ IdleCount'
  BY <1>4 DEF StartThread, TokenAccounting, IdleCount
<1>6. Shape'
  BY <1>1, <1>3 DEF StartThread, Shape, TypeOK
<1> QED
  BY <1>2, <1>5, <1>6

LEMMA PushThreadStep ==
  ASSUME IInv, PushThread
  PROVE  IInv'
<1> USE DEF IInv
<1>1. TypeOK'
  BY DEF PushThread, TypeOK, Phases, jobVars
<1>2. TokenAccounting' /\ IdleCount'
  BY SamePc DEF PushThread, TokenAccounting, IdleCount
<1>3. Shape'
  BY DEF PushThread, Shape, TypeOK
<1> QED
  BY <1>1, <1>2, <1>3

LEMMA RunStep ==
  ASSUME IInv, NEW t \in Threads, NEW j \in Jobs, Run(t, j)
  PROVE  IInv'
<1> USE DEF IInv
<1>1. TypeOK'
  <2>1. fresh' \subseteq Jobs
    BY DEF Run, TypeOK
  <2>2. actions' \in Seq(Handlers) /\ releasing' \subseteq Threads
    <3>1. Append(actions, j) \in Seq(Handlers)
      BY DEF TypeOK, Handlers
    <3> QED
      BY <3>1 DEF Run, TypeOK
  <2> QED
    BY <2>1, <2>2 DEF Run, TypeOK, ownerVars
<1>2. t \notin releasing /\ releasing \in SUBSET Threads
  BY DEF Run, Running, TypeOK
<1>3. IdleCount'
  BY SamePc DEF Run, IdleCount
<1>4. TokenAccounting'
  <2>1. CASE UNCHANGED <<actions, releasing>>
    BY <2>1, SamePc DEF Run, TokenAccounting
  <2>2. CASE actions' = Append(actions, j) /\ releasing' = releasing \cup {t}
    <3>1. Len(actions') = Len(actions) + 1 /\ Len(actions) \in Nat
      BY <2>2 DEF TypeOK, Handlers
    <3>2. Cardinality(releasing') = Cardinality(releasing) + 1
      BY <2>2, <1>2, AddOne
    <3>3. Passed' = Passed /\ tokens' = tokens /\ stale' = stale
      BY SamePc DEF Run
    <3>4. /\ Cardinality(Passed) \in Nat /\ Cardinality(releasing) \in Nat
          /\ tokens \in Nat /\ stale \in Nat
      BY Sets
    <3> QED
      BY <3>1, <3>2, <3>3, <3>4 DEF TokenAccounting
  <2> QED
    BY <2>1, <2>2 DEF Run
<1>5. Shape'
  BY <1>1 DEF Run, Running, Shape, ownerVars
<1> QED
  BY <1>1, <1>3, <1>4, <1>5

LEMMA ReleaseStep ==
  ASSUME IInv, NEW t \in Threads, Release(t)
  PROVE  IInv'
<1> USE DEF IInv
<1>1. TypeOK'
  BY DEF Release, TypeOK, Phases, jobVars
<1>2. IdleCount'
  BY SamePc DEF Release, IdleCount
<1>3. Cardinality(releasing') = Cardinality(releasing) - 1
  BY DropOne, Sets DEF Release
<1>4. TokenAccounting'
  <2>1. /\ Passed' = Passed /\ actions' = actions /\ stale' = stale
        /\ tokens' = tokens + 1
    BY SamePc DEF Release
  <2> QED
    BY <1>3, <2>1, Sets DEF TokenAccounting
<1>5. Shape'
  BY DEF Release, Shape, TypeOK
<1> QED
  BY <1>1, <1>2, <1>4, <1>5

LEMMA DequeueStep ==
  ASSUME IInv, NEW t \in Threads, Dequeue(t)
  PROVE  IInv'
<1> USE DEF IInv
<1>1. TypeOK'
  BY DEF Dequeue, TypeOK, PcStates, InPool, ownerVars, jobVars
<1>2. /\ t \notin IdleThreads /\ IdleThreads' = IdleThreads \cup {t}
      /\ UNCHANGED <<Passed, AfterThreads, WaitingThreads>>
  BY DEF Dequeue, TypeOK, Passed, IdleThreads, AfterThreads, WaitingThreads, After, Threads
<1>3. IdleCount'
  <2>1. Cardinality(IdleThreads') = Cardinality(IdleThreads) + 1
    BY <1>2, AddOne, Sets
  <2> QED
    BY <1>2, <2>1, Sets DEF Dequeue, IdleCount, TypeOK
<1>4. TokenAccounting'
  BY <1>2 DEF Dequeue, TokenAccounting
<1>5. Shape'
  BY DEF Dequeue, Shape, TypeOK, ownerVars
<1> QED
  BY <1>1, <1>3, <1>4, <1>5

LEMMA PassStep ==
  ASSUME IInv, NEW t \in Threads, Pass(t)
  PROVE  IInv'
<1> USE DEF IInv
<1>1. TypeOK'
  BY DEF Pass, TypeOK, PcStates, InPool, ownerVars, jobVars
<1>2. /\ t \notin Passed /\ Passed' = Passed \cup {t}
      /\ UNCHANGED <<IdleThreads, AfterThreads, WaitingThreads>>
  BY DEF Pass, TypeOK, Passed, IdleThreads, AfterThreads, WaitingThreads, After, Threads
<1>3. IdleCount'
  BY <1>2 DEF Pass, IdleCount
<1>4. TokenAccounting'
  <2>1. Cardinality(Passed') = Cardinality(Passed) + 1
    BY <1>2, AddOne, Sets
  <2> QED
    BY <1>2, <2>1, Sets DEF Pass, TokenAccounting, TypeOK
<1>5. Shape'
  BY DEF Pass, Shape, TypeOK, ownerVars
<1> QED
  BY <1>1, <1>3, <1>4, <1>5

LEMMA FlushActionsStep ==
  ASSUME IInv, NEW t \in Threads, FlushActions(t)
  PROVE  IInv'
<1> USE DEF IInv
<1>1. actions \in Seq(Jobs) /\ phase = "open"
  BY DEF FlushActions, Shape
<1>2. TypeOK'
  <2>1. {actions[i] : i \in 1 .. Len(actions)} \subseteq Jobs
    BY <1>1
  <2>2. flushed' \subseteq Jobs /\ stale' \in Nat /\ actions' = <<>>
    BY <1>1, <2>1 DEF FlushActions, Flushed, TypeOK
  <2> QED
    BY <2>2 DEF FlushActions, TypeOK, Phases, ownerVars
<1>3. IdleCount'
  BY SamePc DEF FlushActions, IdleCount
<1>4. TokenAccounting'
  <2>1. Len(actions') = 0 /\ stale' = stale + Len(actions)
    BY DEF FlushActions, Flushed
  <2>2. Passed' = Passed /\ tokens' = tokens /\ releasing' = releasing
    BY SamePc DEF FlushActions
  <2> QED
    BY <2>1, <2>2, Sets DEF TokenAccounting
<1>5. Shape'
  BY <1>1 DEF FlushActions, Flushed, Shape, TypeOK, ownerVars
<1> QED
  BY <1>2, <1>3, <1>4, <1>5

LEMMA DestroyStep ==
  ASSUME IInv, Destroy
  PROVE  IInv'
<1> USE DEF IInv
<1>1. actions \in Seq(Jobs) /\ phase = "open"
  BY DEF Destroy, Shape
<1>2. TypeOK'
  <2>1. {actions[i] : i \in 1 .. Len(actions)} \subseteq Jobs
    BY <1>1
  <2>2. flushed' \subseteq Jobs /\ stale' \in Nat /\ actions' = <<>>
    BY <1>1, <2>1 DEF Destroy, Flushed, TypeOK
  <2> QED
    BY <2>2 DEF Destroy, TypeOK, Phases, ownerVars
<1>3. IdleCount'
  BY SamePc DEF Destroy, IdleCount
<1>4. TokenAccounting'
  <2>1. Len(actions') = 0 /\ stale' = stale + Len(actions)
    BY DEF Destroy, Flushed
  <2>2. Passed' = Passed /\ tokens' = tokens /\ releasing' = releasing
    BY SamePc DEF Destroy
  <2> QED
    BY <2>1, <2>2, Sets DEF TokenAccounting
<1>5. Shape'
  BY <1>1, PoolAssumption DEF Destroy, Flushed, Shape, TypeOK, ownerVars
<1> QED
  BY <1>2, <1>3, <1>4, <1>5

LEMMA EnqueueStopStep ==
  ASSUME IInv, EnqueueStop
  PROVE  IInv'
<1> USE Finite DEF IInv
<1>1. TypeOK'
  <2>1. Append(actions, Stop) \in Seq(Handlers)
    BY DEF TypeOK, Handlers
  <2>2. actions' \in Seq(Handlers) /\ releasing' \subseteq Threads
    BY <2>1 DEF EnqueueStop, TypeOK
  <2>3. stops' \in 0 .. N /\ phase' \in Phases
    BY DEF EnqueueStop, TypeOK, Phases
  <2> QED
    BY <2>2, <2>3 DEF EnqueueStop, TypeOK, jobVars
<1>2. IdleCount'
  BY SamePc DEF EnqueueStop, IdleCount
<1>3. TokenAccounting'
  <2>1. Passed' = Passed /\ tokens' = tokens /\ stale' = stale
    BY SamePc DEF EnqueueStop
  <2>2. CASE UNCHANGED <<actions, releasing>>
    BY <2>1, <2>2 DEF TokenAccounting
  <2>3. CASE /\ actions' = Append(actions, Stop)
             /\ releasing' = releasing \cup {Owner}
    <3>1. Len(actions') = Len(actions) + 1
      BY <2>3 DEF TypeOK, Handlers
    <3>2. Owner \notin releasing
      BY DEF EnqueueStop, Shape
    <3>3. Cardinality(releasing') = Cardinality(releasing) + 1
      BY <2>3, <3>2, AddOne, Sets
    <3>4. /\ Cardinality(Passed) \in Nat /\ Cardinality(releasing) \in Nat
          /\ tokens \in Nat /\ stale \in Nat /\ Len(actions) \in Nat
      BY Sets
    <3> QED
      BY <2>1, <3>1, <3>3, <3>4 DEF TokenAccounting
  <2> QED
    BY <2>2, <2>3 DEF EnqueueStop
<1>4. Shape'
  BY DEF EnqueueStop, Shape, TypeOK
<1> QED
  BY <1>1, <1>2, <1>3, <1>4

LEMMA WaitStoppedStep ==
  ASSUME IInv, WaitStopped
  PROVE  IInv'
<1> USE DEF IInv
<1>1. TypeOK'
  BY DEF WaitStopped, TypeOK, Phases, jobVars
<1>2. TokenAccounting' /\ IdleCount'
  BY SamePc DEF WaitStopped, TokenAccounting, IdleCount
<1>3. Shape'
  BY DEF WaitStopped, Shape, TypeOK
<1> QED
  BY <1>1, <1>2, <1>3

LEMMA RunStopStep ==
  ASSUME IInv, NEW t \in Threads, RunStop(t)
  PROVE  IInv'
<1> USE DEF IInv
<1>1. TypeOK'
  BY DEF RunStop, TypeOK, PcStates, jobVars
<1>2. /\ Passed' = Passed /\ IdleThreads' = IdleThreads
      /\ AfterThreads' = AfterThreads /\ WaitingThreads' = WaitingThreads
  BY DEF RunStop, TypeOK, Passed, IdleThreads, AfterThreads, WaitingThreads, After, Threads
<1>3. TokenAccounting' /\ IdleCount'
  BY <1>2 DEF RunStop, TokenAccounting, IdleCount
<1>4. Shape'
  BY DEF RunStop, Shape, TypeOK
<1> QED
  BY <1>1, <1>3, <1>4

LEMMA FinishStep ==
  ASSUME IInv, NEW t \in Threads, Finish(t)
  PROVE  IInv'
<1> USE DEF IInv
<1>. DEFINE n == Len(frames[t])
          rest == SubSeq(frames[t], 1, n - 1)
<1>1. /\ frames[t] \in Seq(Handlers) /\ n \in Nat \ {0}
      /\ rest \in Seq(Handlers) /\ Len(rest) = n - 1
  <2>1. frames[t] \in Seq(Handlers) /\ frames[t] # <<>>
    BY DEF Finish, TypeOK
  <2>2. n \in Nat /\ n # 0
    BY <2>1
  <2> QED
    BY <2>1, <2>2
<1>2. Actor(t) \in Jobs
  BY <1>1 DEF Finish, Actor, Handlers
<1>3. TypeOK'
  BY <1>1, <1>2 DEF Finish, TypeOK, PcStates, InPool, ownerVars
<1>4. /\ Passed' = Passed /\ IdleThreads' = IdleThreads
      /\ AfterThreads' = AfterThreads /\ WaitingThreads' = WaitingThreads
  BY DEF Finish, TypeOK, Passed, IdleThreads, AfterThreads, WaitingThreads, After, Threads
<1>5. TokenAccounting' /\ IdleCount'
  BY <1>4 DEF Finish, TokenAccounting, IdleCount
<1>6. Shape'
  <2>1. n = 1 => rest = <<>>
    BY <1>1
  <2>2. phase # "ctor"
    BY DEF Finish, Shape
  <2> QED
    BY <1>1, <2>1, <2>2 DEF Finish, Shape, TypeOK, ownerVars
<1> QED
  BY <1>3, <1>5, <1>6

LEMMA RunOneStep ==
  ASSUME IInv, NEW t \in Threads, RunOne(t)
  PROVE  IInv'
<1> USE DEF IInv
<1>1. CASE UNCHANGED <<waiting, pc>>
  <2>1. TypeOK'
    BY <1>1 DEF RunOne, TypeOK, ownerVars, jobVars
  <2>2. TokenAccounting' /\ IdleCount'
    BY <1>1, SamePc DEF RunOne, TokenAccounting, IdleCount
  <2>3. Shape'
    BY <1>1 DEF RunOne, Shape, ownerVars
  <2> QED
    BY <2>1, <2>2, <2>3
<1>2. CASE waiting' = waiting + 1 /\ pc' = [pc EXCEPT ![t] = "rwait"]
  <2>1. TypeOK'
    BY <1>2 DEF RunOne, TypeOK, PcStates, InPool, ownerVars, jobVars
  <2>2. /\ Passed' = Passed /\ IdleThreads' = IdleThreads
        /\ AfterThreads' = AfterThreads
        /\ t \notin WaitingThreads /\ WaitingThreads' = WaitingThreads \cup {t}
    BY <1>2 DEF RunOne, Running, TypeOK, Passed, IdleThreads, AfterThreads, WaitingThreads, After, Threads
  <2>3. TokenAccounting'
    BY <2>2 DEF RunOne, TokenAccounting
  <2>4. Cardinality(WaitingThreads') = Cardinality(WaitingThreads) + 1
    BY <2>2, AddOne, Sets
  <2>5. idle' = idle
    BY DEF RunOne
  <2>6. IdleCount'
    BY <1>2, <2>2, <2>4, <2>5, Sets DEF IdleCount
  <2>7. Shape'
    BY <1>2 DEF RunOne, Running, Shape, TypeOK, ownerVars
  <2> QED
    BY <2>1, <2>3, <2>6, <2>7
<1> QED
  BY <1>1, <1>2 DEF RunOne

LEMMA InterruptStep ==
  ASSUME IInv, NEW t \in Threads, Interrupt(t)
  PROVE  IInv'
<1> USE DEF IInv
<1>1. TypeOK'
  BY DEF Interrupt, TypeOK, PcStates, InPool, ownerVars, jobVars
<1>2. /\ Passed' = Passed /\ IdleThreads' = IdleThreads
      /\ AfterThreads' = AfterThreads /\ WaitingThreads' = WaitingThreads
  BY DEF Interrupt, TypeOK, Passed, IdleThreads, AfterThreads, WaitingThreads, After, Threads
<1>3. TokenAccounting' /\ IdleCount'
  BY <1>2 DEF Interrupt, TokenAccounting, IdleCount
<1>4. Shape'
  BY DEF Interrupt, Shape, TypeOK, ownerVars
<1> QED
  BY <1>1, <1>3, <1>4

(* What a thread takes: the list keeps its type, and it loses a handler or  *)
(* a stale token goes.                                                     *)
LEMMA TakenEffect ==
  ASSUME TypeOK, NEW h \in Handlers \cup {Null}, Taken(h)
  PROVE  /\ actions' \in Seq(Handlers) /\ stale' \in Int /\ idle' = idle - 1
         /\ Len(actions') + stale' = Len(actions) + stale - 1
         /\ stale' = stale - 1 => Len(actions) = 0
         /\ stale' = stale \/ stale' = stale - 1
         /\ actions \in Seq(Jobs) => actions' \in Seq(Jobs)
         /\ Len(actions') \in Nat
<1>1. actions \in Seq(Handlers) /\ stale \in Nat
  BY DEF TypeOK
<1>2. CASE actions # <<>> /\ actions' = Tail(actions) /\ stale' = stale
  <2>1. Len(actions) \in Nat /\ Len(actions) # 0
    BY <1>1, <1>2
  <2>2. Len(Tail(actions)) = Len(actions) - 1
    BY <1>1, <1>2, HeadTailProperties
  <2>3. /\ Tail(actions) \in Seq(Handlers)
        /\ actions \in Seq(Jobs) => Tail(actions) \in Seq(Jobs)
    BY <1>1, <1>2, HeadTailProperties
  <2>4. idle' = idle - 1
    BY DEF Taken
  <2> QED
    BY <1>1, <1>2, <2>1, <2>2, <2>3, <2>4
<1>3. CASE actions = <<>> /\ actions' = actions /\ stale' = stale - 1
  BY <1>1, <1>3 DEF Taken
<1> QED
  BY <1>2, <1>3 DEF Taken

LEMMA TakeOneStep ==
  ASSUME IInv, NEW t \in Threads, TakeOne(t)
  PROVE  IInv'
<1> USE DEF IInv
<1>1. PICK h \in Handlers \cup {Null} :
             /\ Taken(h)
             /\ pc' = [pc EXCEPT ![t] = IF h = Null THEN "returned" ELSE "run"]
             /\ frames' = IF h = Null THEN frames
                          ELSE [frames EXCEPT ![t] = Append(@, h)]
  BY DEF TakeOne, Handlers
<1>2. /\ t \in Passed /\ Passed' = Passed \ {t}
      /\ t \in IdleThreads /\ IdleThreads' = IdleThreads \ {t}
      /\ AfterThreads' = AfterThreads /\ WaitingThreads' = WaitingThreads
  BY <1>1 DEF TakeOne, TypeOK, Passed, IdleThreads, AfterThreads, WaitingThreads, After, Threads
<1>3. /\ Cardinality(Passed') = Cardinality(Passed) - 1
      /\ Cardinality(IdleThreads') = Cardinality(IdleThreads) - 1
      /\ Cardinality(Passed) > 0
  BY <1>2, DropOne, Sets
<1>4. tokens' = tokens /\ releasing' = releasing /\ waiting' = waiting
  BY DEF TakeOne
<1>5. /\ Cardinality(Passed) \in Nat /\ Cardinality(IdleThreads) \in Nat
      /\ Cardinality(AfterThreads) \in Nat /\ Cardinality(releasing) \in Nat
      /\ Cardinality(WaitingThreads) \in Nat /\ Len(actions) \in Nat
      /\ tokens \in Nat /\ stale \in Nat /\ idle \in Int /\ waiting \in Nat
  BY Sets
<1>6. /\ stale' \in Int /\ idle' = idle - 1
      /\ Len(actions') + stale' = Len(actions) + stale - 1
      /\ stale' = stale - 1 => Len(actions) = 0
      /\ stale' = stale \/ stale' = stale - 1
      /\ Len(actions') \in Nat
  BY <1>1, TakenEffect
<1>12. /\ actions' \in Seq(Handlers) /\ idle' = idle - 1
       /\ actions \in Seq(Jobs) => actions' \in Seq(Jobs)
  BY <1>1, TakenEffect
<1>7. TokenAccounting'
  <2>1. /\ Cardinality(Passed') = Cardinality(Passed) - 1
        /\ Cardinality(releasing') = Cardinality(releasing) /\ tokens' = tokens
        /\ Len(actions') + stale' = Len(actions) + stale - 1
        /\ Len(actions') \in Int /\ stale' \in Int
    BY <1>3, <1>4, <1>6
  <2>2. tokens + Cardinality(Passed) + Cardinality(releasing) = Len(actions) + stale
    BY DEF TokenAccounting
  <2>3. tokens' + Cardinality(Passed') + Cardinality(releasing') = Len(actions') + stale'
    BY <2>1, <2>2, <1>5
  <2> QED
    BY <2>3 DEF TokenAccounting
<1>8. IdleCount'
  <2>1. /\ Cardinality(IdleThreads') = Cardinality(IdleThreads) - 1
        /\ Cardinality(AfterThreads') = Cardinality(AfterThreads)
        /\ Cardinality(WaitingThreads') = Cardinality(WaitingThreads)
        /\ idle' = idle - 1 /\ waiting' = waiting
    BY <1>2, <1>3, <1>4, <1>6
  <2>2. /\ idle = Cardinality(IdleThreads) - Cardinality(AfterThreads)
        /\ waiting = Cardinality(WaitingThreads) + Cardinality(AfterThreads)
    BY DEF IdleCount
  <2>3. /\ idle' = Cardinality(IdleThreads') - Cardinality(AfterThreads')
        /\ waiting' = Cardinality(WaitingThreads') + Cardinality(AfterThreads')
    BY <2>1, <2>2, <1>5
  <2> QED
    BY <2>3 DEF IdleCount
<1>9. TypeOK'
  <2>1. stale' \in Nat
    BY <1>3, <1>5, <1>6 DEF TokenAccounting
  <2>2. frames' \in [Threads -> Seq(Handlers)]
    <3>1. h # Null => Append(frames[t], h) \in Seq(Handlers)
      BY DEF TypeOK
    <3> QED
      BY <1>1, <3>1 DEF TypeOK
  <2>3. pc' \in [Threads -> PcStates]
    BY <1>1 DEF TypeOK, PcStates
  <2> QED
    BY <1>12, <2>1, <2>2, <2>3 DEF TakeOne, TypeOK, ownerVars, jobVars
<1>10. phase # "ctor"
  BY <1>3, Sets DEF Shape, TokenAccounting
<1>11. Shape'
  BY <1>1, <1>10, <1>12 DEF TakeOne, Shape, TypeOK, ownerVars
<1> QED
  BY <1>7, <1>8, <1>9, <1>11

LEMMA RunOneTakeStep ==
  ASSUME IInv, NEW t \in Threads, RunOneTake(t)
  PROVE  IInv'
<1> USE DEF IInv
<1>1. /\ tokens' = tokens /\ releasing' = releasing /\ waiting' = waiting
      /\ phase' = phase /\ frames' = frames
  BY DEF RunOneTake, ownerVars
<1>2. /\ Cardinality(Passed) \in Nat /\ Cardinality(IdleThreads) \in Nat
      /\ Cardinality(AfterThreads) \in Nat /\ Cardinality(releasing) \in Nat
      /\ Cardinality(WaitingThreads) \in Nat /\ Len(actions) \in Nat
      /\ tokens \in Nat /\ stale \in Nat /\ idle \in Int /\ waiting \in Nat
  BY Sets
<1>3. CASE pc[t] = "rpassed"
  <2>1. PICK h \in Handlers \cup {Null} : /\ Taken(h)
                                          /\ got' = [got EXCEPT ![t] = h]
    BY <1>3 DEF RunOneTake, Handlers
  <2>2. pc' = [pc EXCEPT ![t] = "rafter"]
    BY <1>3 DEF RunOneTake
  <2>3. /\ t \in Passed /\ Passed' = Passed \ {t}
        /\ t \in WaitingThreads /\ WaitingThreads' = WaitingThreads \ {t}
        /\ t \notin AfterThreads /\ AfterThreads' = AfterThreads \cup {t}
        /\ IdleThreads' = IdleThreads
    BY <1>3, <2>2 DEF TypeOK, Passed, IdleThreads, AfterThreads, WaitingThreads, After, Threads
  <2>4. /\ Cardinality(Passed') = Cardinality(Passed) - 1
        /\ Cardinality(WaitingThreads') = Cardinality(WaitingThreads) - 1
        /\ Cardinality(Passed) > 0
    BY <2>3, DropOne, Sets
  <2>5. Cardinality(AfterThreads') = Cardinality(AfterThreads) + 1
    BY <2>3, AddOne, Sets
  <2>6. /\ stale' \in Int /\ idle' = idle - 1
        /\ Len(actions') + stale' = Len(actions) + stale - 1
        /\ stale' = stale - 1 => Len(actions) = 0
        /\ stale' = stale \/ stale' = stale - 1
        /\ Len(actions') \in Nat
    BY <2>1, TakenEffect
  <2>12. /\ actions' \in Seq(Handlers) /\ idle' = idle - 1
         /\ actions \in Seq(Jobs) => actions' \in Seq(Jobs)
    BY <2>1, TakenEffect
  <2>7. TokenAccounting'
    <3>1. /\ Cardinality(releasing') = Cardinality(releasing)
          /\ Cardinality(Passed') = Cardinality(Passed) - 1
          /\ tokens' = tokens
      BY <1>1, <2>4
    <3>2. tokens + Cardinality(Passed) + Cardinality(releasing) = Len(actions) + stale
      BY DEF TokenAccounting
    <3> DEFINE a == tokens
               b == Cardinality(Passed)
               c == Cardinality(releasing)
               d == Len(actions)
               e == Len(actions')
               f == stale'
    <3>3. /\ a \in Nat /\ b \in Nat /\ c \in Nat /\ d \in Nat /\ e \in Nat
          /\ f \in Int /\ stale \in Nat /\ a + b + c = d + stale /\ e + f = d + stale - 1
      BY <1>2, <2>6, <3>2
    <3>4. a + (b - 1) + c = e + f
      <4> HIDE DEF a, b, c, d, e, f
      <4> QED
        BY <3>3
    <3>5. tokens' + Cardinality(Passed') + Cardinality(releasing') = Len(actions') + stale'
      BY <3>1, <3>4
    <3> QED
      BY <3>5 DEF TokenAccounting
  <2>8. IdleCount'
    <3>1. /\ Cardinality(IdleThreads') = Cardinality(IdleThreads)
          /\ Cardinality(WaitingThreads') = Cardinality(WaitingThreads) - 1
          /\ idle' = idle - 1 /\ waiting' = waiting
      BY <1>1, <2>3, <2>4, <2>6
    <3>2. idle' = Cardinality(IdleThreads') - Cardinality(AfterThreads')
      BY <1>2, <2>5, <3>1 DEF IdleCount
    <3>3. waiting' = Cardinality(WaitingThreads') + Cardinality(AfterThreads')
      BY <1>2, <2>5, <3>1 DEF IdleCount
    <3> QED
      BY <3>2, <3>3 DEF IdleCount
  <2>9. TypeOK'
    <3>1. stale' \in Nat
      BY <1>2, <2>4, <2>6 DEF TokenAccounting
    <3>2. pc' \in [Threads -> PcStates] /\ got' \in [Threads -> Handlers \cup {Null}]
      BY <2>1, <2>2 DEF TypeOK, PcStates, InPool, After
    <3> QED
      BY <2>12, <3>1, <3>2 DEF RunOneTake, TypeOK, ownerVars, jobVars
  <2>10. phase # "ctor"
    BY <2>4, Sets DEF Shape, TokenAccounting
  <2>11. Shape'
    BY <1>1, <1>3, <2>1, <2>2, <2>10, <2>12
       DEF RunOneTake, Shape, TypeOK, ownerVars
  <2> QED
    BY <2>7, <2>8, <2>9, <2>11
<1>4. CASE pc[t] = "rintr"
  <2>1. /\ idle' = idle - 1 /\ actions' = actions /\ got' = got
        /\ stale' = stale /\ pc' = [pc EXCEPT ![t] = "iafter"]
    BY <1>4 DEF RunOneTake
  <2>2. /\ Passed' = Passed /\ IdleThreads' = IdleThreads
        /\ t \in WaitingThreads /\ WaitingThreads' = WaitingThreads \ {t}
        /\ t \notin AfterThreads /\ AfterThreads' = AfterThreads \cup {t}
    BY <1>4, <2>1 DEF TypeOK, Passed, IdleThreads, AfterThreads, WaitingThreads, After, Threads
  <2>3. /\ Cardinality(WaitingThreads') = Cardinality(WaitingThreads) - 1
        /\ Cardinality(AfterThreads') = Cardinality(AfterThreads) + 1
    BY <2>2, AddOne, DropOne, Sets
  <2>4. TokenAccounting'
    BY <1>1, <2>1, <2>2 DEF TokenAccounting
  <2>5. IdleCount'
    <3>1. /\ Cardinality(IdleThreads') = Cardinality(IdleThreads)
          /\ Cardinality(WaitingThreads') = Cardinality(WaitingThreads) - 1
          /\ Cardinality(AfterThreads') = Cardinality(AfterThreads) + 1
          /\ idle' = idle - 1 /\ waiting' = waiting
      BY <1>1, <2>1, <2>2, <2>3
    <3>2. idle' = Cardinality(IdleThreads') - Cardinality(AfterThreads')
      BY <1>2, <3>1 DEF IdleCount
    <3>3. waiting' = Cardinality(WaitingThreads') + Cardinality(AfterThreads')
      BY <1>2, <3>1 DEF IdleCount
    <3> QED
      BY <3>2, <3>3 DEF IdleCount
  <2>6. TypeOK'
    BY <2>1 DEF RunOneTake, TypeOK, PcStates, InPool, After, ownerVars, jobVars
  <2>7. Shape'
    BY <1>1, <1>4, <2>1 DEF RunOneTake, Shape, TypeOK, ownerVars
  <2> QED
    BY <2>4, <2>5, <2>6, <2>7
<1> QED
  BY <1>3, <1>4 DEF RunOneTake

LEMMA RunOneAfterStep ==
  ASSUME IInv, NEW t \in Threads, RunOneAfter(t)
  PROVE  IInv'
<1> USE DEF IInv
<1>1. pc[t] \in After /\ pc' = [pc EXCEPT ![t] = "run"]
  BY DEF RunOneAfter
<1>2. /\ Passed' = Passed /\ IdleThreads' = IdleThreads
      /\ WaitingThreads' = WaitingThreads
      /\ t \in AfterThreads /\ AfterThreads' = AfterThreads \ {t}
  BY <1>1 DEF TypeOK, Passed, IdleThreads, AfterThreads, WaitingThreads, After, Threads
<1>3. /\ Cardinality(AfterThreads') = Cardinality(AfterThreads) - 1
      /\ Cardinality(AfterThreads) > 0
  BY <1>2, DropOne, Sets
<1>4. TokenAccounting'
  BY <1>2 DEF RunOneAfter, TokenAccounting
<1>5. waiting' = waiting - 1 /\ idle' = idle + 1
  BY DEF RunOneAfter
<1>6. IdleCount'
  <2>1. /\ Cardinality(IdleThreads) \in Nat /\ Cardinality(AfterThreads) \in Nat
        /\ Cardinality(WaitingThreads) \in Nat
    BY Sets
  <2> QED
    BY <1>2, <1>3, <1>5, <2>1 DEF IdleCount
<1>7. TypeOK'
  <2>1. waiting' \in Nat
    <3>1. Cardinality(AfterThreads) \in Nat /\ Cardinality(WaitingThreads) \in Nat
      BY Sets
    <3> QED
      BY <1>3, <1>5, <3>1 DEF IdleCount
  <2>2. got[t] # Null => Append(frames[t], got[t]) \in Seq(Handlers)
    BY DEF TypeOK
  <2>3. /\ frames' \in [Threads -> Seq(Handlers)]
        /\ got' \in [Threads -> Handlers \cup {Null}]
        /\ pc' \in [Threads -> PcStates]
    BY <1>1, <2>2 DEF RunOneAfter, TypeOK, PcStates
  <2> QED
    BY <2>1, <2>3 DEF RunOneAfter, TypeOK, ownerVars, jobVars
<1>8. Shape'
  BY <1>1 DEF RunOneAfter, Shape, TypeOK, ownerVars, After
<1> QED
  BY <1>4, <1>6, <1>7, <1>8

-----------------------------------------------------------------------------
LEMMA Inductive == IInv /\ [Next]_vars => IInv'
<1> SUFFICES ASSUME IInv, [Next]_vars PROVE IInv'
  OBVIOUS
<1>1. ASSUME NEW t \in Threads, ThreadStep(t) PROVE IInv'
  BY <1>1, ReleaseStep, DequeueStep, PassStep, TakeOneStep, FinishStep,
     RunStopStep, RunOneTakeStep, RunOneAfterStep DEF ThreadStep
<1>2. ASSUME NEW t \in Threads, UserStep(t) PROVE IInv'
  BY <1>2, RunStep, FlushActionsStep, RunOneStep, InterruptStep DEF UserStep
<1>3. CASE OwnerStep
  BY <1>3, StartThreadStep, PushThreadStep, EnqueueStopStep, WaitStoppedStep
     DEF OwnerStep
<1>4. CASE UNCHANGED vars
  <2>1. TypeOK' /\ Shape'
    BY <1>4 DEF IInv, vars, TypeOK, Shape
  <2>2. TokenAccounting' /\ IdleCount'
    BY <1>4, SamePc DEF IInv, vars, TokenAccounting, IdleCount
  <2> QED
    BY <2>1, <2>2 DEF IInv
<1> QED
  BY <1>1, <1>2, <1>3, <1>4, DestroyStep DEF Next

(* The inductive invariant holds throughout.                               *)
LEMMA Invariance == Spec => []IInv
BY InitIInv, Inductive, PTL DEF Spec

(* The variables of the pool keep their types: in particular no counter of *)
(* the code goes below zero that must not.                                 *)
THEOREM TypeCorrect == Spec => []TypeOK
BY Invariance, PTL DEF IInv

(* Every queued handler has its token, whatever the order of the steps of  *)
(* enqueue, takeOne and flushActions.                                      *)
THEOREM TokensAccounted == Spec => []TokenAccounting
BY Invariance, PTL DEF IInv

(* The two counters that busy() and runOne decide by are what the threads  *)
(* are doing, at every point between two locked blocks.                    *)
THEOREM IdleCounted == Spec => []IdleCount
BY Invariance, PTL DEF IInv

-----------------------------------------------------------------------------
LEMMA OnlyDequeueFires ==
  ASSUME Next, fires' # fires
  PROVE  \E t \in Threads : Dequeue(t) /\ idle' = size /\ actions = <<>>
BY DEF Next, OwnerStep, StartThread, PushThread, EnqueueStop, WaitStopped,
       Destroy, ThreadStep, Release, Dequeue, Pass, TakeOne, Finish, RunStop,
       RunOneTake, RunOneAfter, UserStep, Run, FlushActions, RunOne, Interrupt

LEMMA FireStep ==
  ASSUME IInv, Next, fires' # fires
  PROVE  actions = <<>> /\ \A w \in Workers : frames[w] = <<>>
<1>1. PICK t \in Threads : Dequeue(t) /\ idle' = size /\ actions = <<>>
  BY OnlyDequeueFires
<1>2. CASE phase = "ctor"
  BY <1>1, <1>2 DEF IInv, Shape, Threads
<1>3. CASE phase # "ctor"
  <2>. DEFINE S == IdleThreads \cup {t}
  <2>1. /\ t \in Workers /\ t \notin IdleThreads /\ pc[t] = "loop"
        /\ IdleThreads \subseteq Workers /\ idle' = idle + 1 /\ size = N
    BY <1>1, <1>3 DEF Dequeue, IdleThreads, IInv, Shape
  <2>2. Cardinality(S) = Cardinality(IdleThreads) + 1
    BY <2>1, AddOne, Sets DEF IInv
  <2>3. /\ Cardinality(IdleThreads) \in Nat /\ Cardinality(AfterThreads) \in Nat
        /\ idle = Cardinality(IdleThreads) - Cardinality(AfterThreads)
    BY Sets DEF IInv, IdleCount
  <2>4. Cardinality(S) >= N
    <3>1. idle + 1 = N /\ N \in Nat
      BY <1>1, <2>1, Finite
    <3> QED
      BY <2>2, <2>3, <3>1
  <2>5. S \subseteq Workers /\ Cardinality(S) <= N
    BY <2>1, Finite, FS_Subset DEF N
  <2>6. Cardinality(S) = Cardinality(Workers)
    BY <2>2, <2>3, <2>4, <2>5, Finite DEF N
  <2>7. S = Workers
    BY <2>5, <2>6, Finite, FS_Subset
  <2> QED
    BY <1>1, <2>1, <2>7 DEF IdleThreads, IInv, Shape
<1> QED
  BY <1>2, <1>3

(* The event idle is fired only when nothing is queued and no worker is    *)
(* inside of a handler, whatever runOne does to the counters meanwhile.    *)
THEOREM IdleFireIsQuiet == Spec => IdleFireMeansQuiet
<1>1. IInv /\ [Next]_vars =>
        [fires' # fires => /\ actions = <<>>
                           /\ \A w \in Workers : frames[w] = <<>>]_vars
  BY FireStep DEF vars
<1> QED
  BY <1>1, Invariance, PTL DEF Spec, IdleFireMeansQuiet

-----------------------------------------------------------------------------
(* Where the handlers of the thread pool are, and what follows: the pool   *)
(* is an Executor, and its destructor leaves no thread behind in it.       *)


Elems(q) == {q[i] : i \in 1 .. Len(q)}

(* No job is in q twice.                                                   *)
Single(q) == \A i, k \in 1 .. Len(q) : q[i] = q[k] /\ q[i] \in Jobs => i = k

QueuedJobs == Elems(actions) \cap Jobs
HeldJobs   == {j \in Jobs : \E t \in Threads : got[t] = j}
FramedJobs == {j \in Jobs : \E t \in Threads : j \in Elems(frames[t])}

(* A job is nowhere twice: neither in one place, nor in two, and a thread  *)
(* holds one only between the two locked blocks of runOne.                 *)
Once ==
  /\ Single(actions)
  /\ \A t, u \in Threads : got[t] = got[u] /\ got[t] \in Jobs => t = u
  /\ \A t \in Threads : Single(frames[t]) /\ (pc[t] \notin After => got[t] = Null)
  /\ \A t, u \in Threads :
       t # u => Elems(frames[t]) \cap Elems(frames[u]) \cap Jobs = {}

Apart ==
  /\ QueuedJobs \cap HeldJobs = {} /\ QueuedJobs \cap FramedJobs = {}
  /\ HeldJobs \cap FramedJobs = {}
  /\ (QueuedJobs \cup HeldJobs \cup FramedJobs) \cap (fresh \cup done \cup flushed) = {}
  /\ fresh \cap done = {} /\ fresh \cap flushed = {} /\ done \cap flushed = {}

(* None is lost while the pool is open.                                    *)
NoneLost ==
  phase \in {"ctor", "open"} =>
    Jobs \subseteq QueuedJobs \cup HeldJobs \cup FramedJobs \cup fresh \cup done \cup flushed

JInv == Once /\ Apart /\ NoneLost

(* The destructor has the pool to itself, its clients being out of it, and *)
(* a thread that left for good did so for a stop handler of which the      *)
(* destructor has heard, or is going to.                                   *)
Exited == {t \in Threads : pc[t] = "exited"}

Closed == phase \notin {"ctor", "open"}

Alone ==
  /\ Closed => \A c \in Clients : /\ pc[c] = "run" /\ frames[c] = <<>>
                                  /\ c \in releasing => c = Owner /\ phase = "stopRelease"
  /\ \A t \in releasing : pc[t] = "run" /\ Actor(t) # Stop
  /\ phase = "gone" => stops = N

StopsCounted ==
  Cardinality(Exited) + (IF phase \in {"stopRelease", "stopWait"} THEN 1 ELSE 0)
    = stopped + stops

DInv == Alone /\ StopsCounted

-----------------------------------------------------------------------------
(* The operations on a list of handlers.                                   *)
LEMMA ElemsAppend ==
  ASSUME NEW q \in Seq(Handlers), NEW h \in Handlers
  PROVE  /\ Elems(Append(q, h)) = Elems(q) \cup {h}
         /\ Single(q) /\ h \notin Elems(q) \cap Jobs => Single(Append(q, h))
<1> DEFINE r == Append(q, h)
<1>1. /\ r \in Seq(Handlers) /\ Len(r) = Len(q) + 1 /\ Len(q) \in Nat
      /\ \A i \in 1 .. Len(q) : r[i] = q[i]
      /\ r[Len(q) + 1] = h
  BY AppendProperties, LenProperties
<1> HIDE DEF r
<1>2. Elems(r) = Elems(q) \cup {h}
  <2>1. ASSUME NEW x \in Elems(r) PROVE x \in Elems(q) \cup {h}
    <3>1. PICK i \in 1 .. Len(q) + 1 : x = r[i]
      BY <1>1, <2>1 DEF Elems
    <3> QED
      BY <3>1, <1>1 DEF Elems
  <2>2. ASSUME NEW x \in Elems(q) \cup {h} PROVE x \in Elems(r)
    BY <1>1, <2>2 DEF Elems
  <2> QED
    BY <2>1, <2>2
<1>3. ASSUME Single(q), h \notin Elems(q) \cap Jobs PROVE Single(r)
  <2> SUFFICES ASSUME NEW i \in 1 .. Len(q) + 1, NEW k \in 1 .. Len(q) + 1,
                      r[i] = r[k], r[i] \in Jobs
               PROVE  i = k
    BY <1>1 DEF Single
  <2>1. CASE i \in 1 .. Len(q) /\ k \in 1 .. Len(q)
    BY <2>1, <1>1, <1>3 DEF Single
  <2>2. CASE i = Len(q) + 1 /\ k = Len(q) + 1
    BY <2>2
  <2>3. CASE i = Len(q) + 1 /\ k \in 1 .. Len(q)
    BY <2>3, <1>1, <1>3 DEF Elems
  <2>4. CASE i \in 1 .. Len(q) /\ k = Len(q) + 1
    BY <2>4, <1>1, <1>3 DEF Elems
  <2> QED
    BY <2>1, <2>2, <2>3, <2>4, <1>1
<1> QED
  BY <1>2, <1>3 DEF r

LEMMA ElemsTail ==
  ASSUME NEW q \in Seq(Handlers), q # <<>>, Single(q)
  PROVE  /\ Head(q) \in Elems(q) /\ Single(Tail(q))
         /\ Elems(Tail(q)) \cap Jobs = (Elems(q) \cap Jobs) \ {Head(q)}
<1> DEFINE r == Tail(q)
<1>1. /\ r \in Seq(Handlers) /\ Len(r) = Len(q) - 1 /\ Len(q) \in Nat /\ Len(q) > 0
      /\ \A i \in 1 .. Len(r) : r[i] = q[i + 1]
      /\ Head(q) = q[1]
  BY HeadTailProperties, LenProperties, EmptySeq
<1> HIDE DEF r
<1>2. Head(q) \in Elems(q)
  BY <1>1 DEF Elems
<1>3. Single(r)
  BY <1>1 DEF Single
<1>4. ASSUME NEW x \in Jobs, x \in Elems(r) PROVE x \in Elems(q) /\ x # Head(q)
  <2>1. PICK i \in 1 .. Len(q) - 1 : x = q[i + 1]
    BY <1>1, <1>4 DEF Elems
  <2>2. i + 1 \in 1 .. Len(q) /\ 1 \in 1 .. Len(q) /\ i + 1 # 1
    BY <1>1
  <2> QED
    BY <2>1, <2>2, <1>1 DEF Elems, Single
<1>5. ASSUME NEW x \in Elems(q), x # Head(q) PROVE x \in Elems(r)
  <2>1. PICK i \in 1 .. Len(q) : x = q[i]
    BY <1>5 DEF Elems
  <2>2. i - 1 \in 1 .. Len(r) /\ r[i - 1] = q[i]
    BY <2>1, <1>1, <1>5
  <2> QED
    BY <2>1, <2>2 DEF Elems
<1> QED
  BY <1>2, <1>3, <1>4, <1>5 DEF r

LEMMA ElemsFront ==
  ASSUME NEW q \in Seq(Handlers), q # <<>>, Single(q), q[Len(q)] \in Jobs
  PROVE  \E r : /\ r = SubSeq(q, 1, Len(q) - 1)
                /\ q[Len(q)] \in Elems(q) /\ Single(r) /\ Elems(r) \subseteq Elems(q)
                /\ Elems(r) \cap Jobs = (Elems(q) \cap Jobs) \ {q[Len(q)]}
<1> DEFINE n == Len(q)
<1>0. PICK r : r = SubSeq(q, 1, n - 1)
  OBVIOUS
<1>1. n \in Nat /\ n > 0 /\ \A i \in 1 .. n - 1 : q[i] \in Handlers
  BY LenProperties, EmptySeq, ElementOfSeq
<1>2. r \in Seq(Handlers) /\ Len(r) = n - 1 /\ \A i \in 1 .. n - 1 : r[i] = q[i]
  <2>1. n \in Int /\ n > 0
    BY <1>1
  <2>2. /\ r \in Seq(Handlers) /\ Len(r) = IF 1 <= n - 1 THEN n - 1 - 1 + 1 ELSE 0
        /\ \A i \in 1 .. n - 1 - 1 + 1 : r[i] = q[1 + i - 1]
    BY <1>0, <1>1, <2>1, SubSeqProperties
  <2>3. CASE 1 <= n - 1
    BY <2>1, <2>2, <2>3
  <2>4. CASE n = 1
    BY <2>1, <2>2, <2>4
  <2>5. 1 <= n - 1 \/ n = 1
    <3>1. \A k \in Int : k > 0 => 1 <= k - 1 \/ k = 1
      OBVIOUS
    <3> QED
      BY <2>1, <3>1
  <2> QED
    BY <2>3, <2>4, <2>5
<1>3. q[n] \in Elems(q)
  BY <1>1 DEF Elems
<1>4. Single(r) /\ Elems(r) \subseteq Elems(q)
  BY <1>1, <1>2 DEF Single, Elems
<1>5. ASSUME NEW x \in Elems(r) PROVE x # q[n]
  <2>1. PICK i \in 1 .. n - 1 : x = q[i]
    BY <1>1, <1>2, <1>5 DEF Elems
  <2>2. i \in 1 .. n /\ n \in 1 .. n /\ i # n
    BY <1>1
  <2> QED
    BY <2>1, <2>2 DEF Single
<1>6. ASSUME NEW x \in Elems(q), x # q[n] PROVE x \in Elems(r)
  <2>1. PICK i \in 1 .. n : x = q[i]
    BY <1>6 DEF Elems
  <2>2. i \in 1 .. n - 1
    BY <2>1, <1>1, <1>6
  <2> QED
    BY <2>1, <2>2, <1>2 DEF Elems
<1>7. Elems(r) \cap Jobs = (Elems(q) \cap Jobs) \ {q[n]}
  BY <1>4, <1>5, <1>6
<1> QED
  BY <1>0, <1>3, <1>4, <1>7

(* A thread comes into a handler that no thread is inside of.              *)
LEMMA PushFrame ==
  ASSUME TypeOK, Once, NEW t \in Threads, NEW h \in Handlers, h \notin FramedJobs,
         frames' = [frames EXCEPT ![t] = Append(frames[t], h)]
  PROVE  /\ FramedJobs' = FramedJobs \cup ({h} \cap Jobs)
         /\ \A u \in Threads : Single(frames'[u])
         /\ \A u, v \in Threads :
              u # v => Elems(frames'[u]) \cap Elems(frames'[v]) \cap Jobs = {}
<1>1. /\ frames[t] \in Seq(Handlers) /\ frames'[t] = Append(frames[t], h)
      /\ \A u \in Threads \ {t} : frames'[u] = frames[u]
  BY DEF TypeOK
<1>2. h \in Jobs => \A u \in Threads : h \notin Elems(frames[u])
  BY DEF FramedJobs
<1>3. /\ Elems(frames'[t]) = Elems(frames[t]) \cup {h}
      /\ Single(frames'[t])
  BY <1>1, <1>2, ElemsAppend DEF Once
<1>4. \A u \in Threads : Elems(frames'[u]) = Elems(frames[u]) \cup (IF u = t THEN {h} ELSE {})
  BY <1>1, <1>3
<1>5. FramedJobs' = FramedJobs \cup ({h} \cap Jobs)
  BY <1>4 DEF FramedJobs
<1>6. \A u \in Threads : Single(frames'[u])
  BY <1>1, <1>3 DEF Once
<1>7. ASSUME NEW u \in Threads, NEW v \in Threads, u # v
      PROVE  Elems(frames'[u]) \cap Elems(frames'[v]) \cap Jobs = {}
  BY <1>2, <1>4, <1>7 DEF Once
<1> QED
  BY <1>5, <1>6, <1>7

(* And it comes out of the last.                                           *)
LEMMA PopFrame ==
  ASSUME TypeOK, Once, NEW t \in Threads, frames[t] # <<>>, Actor(t) \in Jobs,
         frames' = [frames EXCEPT ![t] = SubSeq(frames[t], 1, Len(frames[t]) - 1)]
  PROVE  /\ Actor(t) \in FramedJobs /\ FramedJobs' = FramedJobs \ {Actor(t)}
         /\ \A u \in Threads : Single(frames'[u])
         /\ \A u, v \in Threads :
              u # v => Elems(frames'[u]) \cap Elems(frames'[v]) \cap Jobs = {}
<1> DEFINE h == frames[t][Len(frames[t])]
<1>1. /\ frames[t] \in Seq(Handlers)
      /\ frames'[t] = SubSeq(frames[t], 1, Len(frames[t]) - 1)
      /\ \A u \in Threads \ {t} : frames'[u] = frames[u]
      /\ Actor(t) = h
  BY DEF TypeOK, Actor
<1>2. /\ h \in Elems(frames[t]) /\ Single(frames'[t])
      /\ Elems(frames'[t]) \subseteq Elems(frames[t])
      /\ Elems(frames'[t]) \cap Jobs = (Elems(frames[t]) \cap Jobs) \ {h}
  <2> DEFINE q == frames[t]
  <2>1. q \in Seq(Handlers) /\ q # <<>> /\ Single(q) /\ q[Len(q)] \in Jobs
    BY <1>1 DEF Once
  <2> HIDE DEF q
  <2>2. PICK r : /\ r = SubSeq(q, 1, Len(q) - 1)
                 /\ q[Len(q)] \in Elems(q) /\ Single(r) /\ Elems(r) \subseteq Elems(q)
                 /\ Elems(r) \cap Jobs = (Elems(q) \cap Jobs) \ {q[Len(q)]}
    BY <2>1, ElemsFront
  <2>3. r = frames'[t]
    BY <1>1, <2>2 DEF q
  <2> QED
    BY <2>2, <2>3 DEF q
<1> HIDE DEF h
<1>3. \A u \in Threads : u # t => h \notin Elems(frames[u])
  BY <1>1, <1>2 DEF Once
<1>4. \A u \in Threads : Elems(frames'[u]) \cap Jobs = (Elems(frames[u]) \cap Jobs) \ {h}
  BY <1>1, <1>2, <1>3
<1>5. h \in FramedJobs /\ FramedJobs' = FramedJobs \ {h}
  <2>1. h \in FramedJobs
    BY <1>1, <1>2 DEF FramedJobs
  <2>2. ASSUME NEW x \in Jobs PROVE x \in FramedJobs' <=> x \in FramedJobs \ {h}
    BY <1>4 DEF FramedJobs
  <2> QED
    BY <2>1, <2>2 DEF FramedJobs
<1>6. \A u \in Threads : Single(frames'[u])
  BY <1>1, <1>2 DEF Once
<1>7. ASSUME NEW u \in Threads, NEW v \in Threads, u # v
      PROVE  Elems(frames'[u]) \cap Elems(frames'[v]) \cap Jobs = {}
  BY <1>4, <1>7 DEF Once
<1> QED
  BY <1>1, <1>5, <1>6, <1>7

(* The first handler is started, or nothing is.                            *)
HeadStarted ==
  \/ actions' = actions /\ Executing' = Executing
  \/ /\ actions # <<>> /\ actions' = Tail(actions)
     /\ Executing' = Executing \cup ({Head(actions)} \ {Stop})

LEMMA Executed ==
  /\ Executing = HeldJobs \cup FramedJobs
  /\ Executing' = HeldJobs' \cup FramedJobs'
BY DEF Executing, HeldJobs, FramedJobs, Elems

LEMMA TakenQueue ==
  ASSUME TypeOK, Once, NEW h \in Handlers, Taken(h)
  PROVE  /\ actions # <<>> /\ h = Head(actions) /\ actions' = Tail(actions)
         /\ h \in Jobs => h \in QueuedJobs
         /\ QueuedJobs' = QueuedJobs \ {h} /\ Single(actions')
         /\ {h} \cap Jobs = {Head(actions)} \ {Stop}
<1>1. actions # <<>> /\ h = Head(actions) /\ actions' = Tail(actions)
  BY PoolAssumption DEF Taken, Handlers
<1>2. actions \in Seq(Handlers) /\ Single(actions)
  BY DEF TypeOK, Once
<1>3. {h} \cap Jobs = {h} \ {Stop}
  BY PoolAssumption DEF Handlers
<1> QED
  BY <1>1, <1>2, <1>3, ElemsTail DEF QueuedJobs

-----------------------------------------------------------------------------
LEMMA InitJInv == Init => JInv
<1> SUFFICES ASSUME Init PROVE JInv
  OBVIOUS
<1>1. /\ Elems(<<>>) = {} /\ Single(<<>>)
  BY EmptySeq DEF Elems, Single
<1>2. QueuedJobs = {} /\ HeldJobs = {} /\ FramedJobs = {}
  BY <1>1, PoolAssumption DEF Init, QueuedJobs, HeldJobs, FramedJobs
<1>3. Once
  BY <1>1, PoolAssumption DEF Init, Once
<1> QED
  BY <1>2, <1>3 DEF Init, JInv, Apart, NoneLost

(* No handler moves.                                                       *)
LEMMA StillStep ==
  ASSUME JInv, UNCHANGED <<actions, frames, got, fresh, done, flushed>>,
         phase' \in {"ctor", "open"} => phase \in {"ctor", "open"},
         \A t \in Threads : pc'[t] \in After \/ got[t] = Null
  PROVE  JInv'
<1>1. Once'
  BY DEF JInv, Once
<1>2. Apart' /\ NoneLost'
  BY DEF JInv, Apart, NoneLost, QueuedJobs, HeldJobs, FramedJobs
<1> QED
  BY <1>1, <1>2 DEF JInv

LEMMA RunJobs ==
  ASSUME IInv, JInv, NEW t \in Threads, NEW j \in Jobs, Run(t, j)
  PROVE  JInv'
<1>1. j \in fresh /\ fresh' = fresh \ {j} /\ UNCHANGED <<phase, pc, frames, got, done, flushed>>
  BY DEF Run, ownerVars
<1>2. HeldJobs' = HeldJobs /\ FramedJobs' = FramedJobs
  BY <1>1 DEF HeldJobs, FramedJobs
<1>3. CASE actions' = Append(actions, j)
  <2>1. Single(actions) /\ actions \in Seq(Handlers) /\ j \in Handlers
    BY DEF IInv, TypeOK, JInv, Once, Handlers
  <2>2. j \notin QueuedJobs /\ j \notin HeldJobs /\ j \notin FramedJobs
        /\ j \notin done /\ j \notin flushed
    BY <1>1 DEF JInv, Apart
  <2>3. QueuedJobs' = QueuedJobs \cup {j} /\ Single(actions')
    BY <1>3, <2>1, <2>2, ElemsAppend DEF QueuedJobs
  <2>4. Once'
    BY <1>1, <2>3 DEF JInv, Once
  <2>5. Apart'
    BY <1>1, <1>2, <2>2, <2>3 DEF JInv, Apart
  <2>6. NoneLost'
    BY <1>1, <1>2, <2>3 DEF JInv, NoneLost
  <2> QED
    BY <2>4, <2>5, <2>6 DEF JInv
<1>4. CASE actions' = actions /\ phase # "open"
  <2>1. QueuedJobs' = QueuedJobs
    BY <1>4 DEF QueuedJobs
  <2>2. phase # "ctor"
    BY DEF Run, Running, IInv, Shape, Handlers
  <2>3. Once'
    BY <1>1, <1>4 DEF JInv, Once
  <2> QED
    BY <1>1, <1>2, <1>4, <2>1, <2>2, <2>3 DEF JInv, Apart, NoneLost
<1> QED
  BY <1>3, <1>4 DEF Run

LEMMA FlushJobs ==
  ASSUME IInv, JInv, phase = "open", Flushed,
         UNCHANGED <<pc, frames, got, fresh, done>>
  PROVE  JInv' /\ flushed' = flushed \cup Elems(actions) /\ QueuedJobs = Elems(actions)
<1>1. actions \in Seq(Jobs)
  BY DEF IInv, Shape
<1>2. Elems(actions) \subseteq Jobs
  BY <1>1, ElementOfSeq DEF Elems
<1>3. flushed' = flushed \cup Elems(actions) /\ QueuedJobs = Elems(actions) /\ actions' = <<>>
  BY <1>2 DEF Flushed, QueuedJobs, Elems
<1>4. QueuedJobs' = {} /\ Single(actions')
  BY <1>3, EmptySeq DEF QueuedJobs, Elems, Single
<1>5. HeldJobs' = HeldJobs /\ FramedJobs' = FramedJobs
  BY DEF HeldJobs, FramedJobs
<1>6. Once'
  BY <1>4 DEF JInv, Once
<1>7. Apart'
  BY <1>3, <1>4, <1>5 DEF JInv, Apart
<1>8. NoneLost'
  BY <1>3, <1>4, <1>5 DEF JInv, NoneLost
<1> QED
  BY <1>3, <1>6, <1>7, <1>8 DEF JInv

LEMMA TakeOneJobs ==
  ASSUME IInv, JInv, NEW t \in Threads, TakeOne(t)
  PROVE  JInv' /\ HeadStarted
<1>1. /\ pc[t] = "passed" /\ UNCHANGED <<phase, got, fresh, done, flushed>>
      /\ TypeOK /\ Once /\ got[t] = Null
  BY DEF TakeOne, ownerVars, jobVars, IInv, JInv, Once, After
<1>2. PICK h \in Handlers \cup {Null} :
             /\ Taken(h)
             /\ pc' = [pc EXCEPT ![t] = IF h = Null THEN "returned" ELSE "run"]
             /\ frames' = IF h = Null THEN frames
                          ELSE [frames EXCEPT ![t] = Append(frames[t], h)]
  BY DEF TakeOne, Handlers
<1>3. \A u \in Threads : pc'[u] \in After \/ got[u] = Null
  BY <1>1, <1>2 DEF IInv, TypeOK, Once
<1>4. CASE h = Null
  <2>1. actions' = actions
    BY <1>2, <1>4, <1>1, ElemsTail, PoolAssumption DEF Taken, TypeOK, Elems, Handlers
  <2>2. Executing' = Executing
    BY <1>1, <1>2, <1>4 DEF Executing
  <2> QED
    BY <1>1, <1>2, <1>3, <1>4, <2>1, <2>2, StillStep DEF HeadStarted
<1>5. CASE h # Null
  <2>1. h \in Handlers /\ frames' = [frames EXCEPT ![t] = Append(frames[t], h)]
    BY <1>2, <1>5
  <2>2. /\ h \in Jobs => h \in QueuedJobs
        /\ QueuedJobs' = QueuedJobs \ {h} /\ Single(actions')
        /\ actions # <<>> /\ actions' = Tail(actions)
        /\ {h} \cap Jobs = {Head(actions)} \ {Stop}
    BY <1>1, <1>2, <2>1, TakenQueue
  <2>3. h \notin FramedJobs
    BY <2>2 DEF JInv, Apart, FramedJobs
  <2>4. /\ FramedJobs' = FramedJobs \cup ({h} \cap Jobs)
        /\ \A u \in Threads : Single(frames'[u])
        /\ \A u, v \in Threads :
             u # v => Elems(frames'[u]) \cap Elems(frames'[v]) \cap Jobs = {}
    BY <1>1, <2>1, <2>3, PushFrame
  <2>5. HeldJobs' = HeldJobs
    BY <1>1 DEF HeldJobs
  <2>6. Once'
    BY <1>1, <1>3, <2>2, <2>4 DEF Once
  <2>7. Apart'
    BY <1>1, <2>2, <2>4, <2>5 DEF JInv, Apart
  <2>8. NoneLost'
    BY <1>1, <2>2, <2>4, <2>5 DEF JInv, NoneLost
  <2>9. HeadStarted
    BY <2>2, <2>4, <2>5, Executed DEF HeadStarted
  <2> QED
    BY <2>6, <2>7, <2>8, <2>9 DEF JInv
<1> QED
  BY <1>4, <1>5

LEMMA FinishJobs ==
  ASSUME IInv, JInv, NEW t \in Threads, Finish(t)
  PROVE  /\ JInv' /\ Actor(t) \in Executing /\ Executing' = Executing \ {Actor(t)}
         /\ done' = done \cup {Actor(t)}
         /\ UNCHANGED <<phase, actions, fresh, flushed>>
<1>1. /\ pc[t] = "run" /\ frames[t] # <<>> /\ done' = done \cup {Actor(t)}
      /\ frames' = [frames EXCEPT ![t] = SubSeq(frames[t], 1, Len(frames[t]) - 1)]
      /\ UNCHANGED <<phase, actions, got, fresh, flushed>>
      /\ TypeOK /\ Once
  BY DEF Finish, ownerVars, IInv, JInv
<1>2. Actor(t) \in Jobs
  <2>1. frames[t] \in Seq(Handlers) /\ Len(frames[t]) \in 1 .. Len(frames[t])
    BY <1>1, LenProperties, EmptySeq DEF TypeOK
  <2> QED
    BY <2>1, <1>1, ElementOfSeq DEF Finish, Actor, Handlers
<1>3. /\ Actor(t) \in FramedJobs /\ FramedJobs' = FramedJobs \ {Actor(t)}
      /\ \A u \in Threads : Single(frames'[u])
      /\ \A u, v \in Threads :
           u # v => Elems(frames'[u]) \cap Elems(frames'[v]) \cap Jobs = {}
  BY <1>1, <1>2, PopFrame
<1>4. HeldJobs' = HeldJobs /\ QueuedJobs' = QueuedJobs
  BY <1>1 DEF HeldJobs, QueuedJobs
<1>5. Once'
  <2>1. \A u \in Threads : pc'[u] \in After \/ got[u] = Null
    BY <1>1 DEF Finish, TypeOK, Once, After
  <2> QED
    BY <1>1, <1>3, <2>1 DEF Once
<1>6. Apart'
  BY <1>1, <1>3, <1>4 DEF JInv, Apart
<1>7. NoneLost'
  BY <1>1, <1>3, <1>4 DEF JInv, NoneLost
<1>8. Executing = HeldJobs \cup FramedJobs /\ Executing' = HeldJobs' \cup FramedJobs'
  BY Executed
<1>9. Actor(t) \notin HeldJobs
  BY <1>3 DEF JInv, Apart
<1> QED
  BY <1>1, <1>3, <1>4, <1>5, <1>6, <1>7, <1>8, <1>9 DEF JInv

LEMMA RunOneTakeJobs ==
  ASSUME IInv, JInv, NEW t \in Threads, RunOneTake(t)
  PROVE  JInv' /\ HeadStarted
<1>1. /\ UNCHANGED <<phase, frames, fresh, done, flushed>>
      /\ TypeOK /\ Once
  BY DEF RunOneTake, ownerVars, jobVars, IInv, JInv
<1>2. CASE pc[t] = "rintr"
  <2>1. UNCHANGED <<actions, got>> /\ pc' = [pc EXCEPT ![t] = "iafter"]
    BY <1>2 DEF RunOneTake
  <2>2. \A u \in Threads : pc'[u] \in After \/ got[u] = Null
    BY <2>1, <1>1 DEF TypeOK, Once, After
  <2>3. Executing' = Executing
    BY <1>1, <2>1 DEF Executing
  <2> QED
    BY <1>1, <2>1, <2>2, <2>3, StillStep DEF HeadStarted
<1>3. CASE pc[t] = "rpassed"
  <2>1. PICK h \in Handlers \cup {Null} : Taken(h) /\ got' = [got EXCEPT ![t] = h]
    BY <1>3 DEF RunOneTake, Handlers
  <2>2. pc' = [pc EXCEPT ![t] = "rafter"] /\ got[t] = Null
    BY <1>3, <1>1 DEF RunOneTake, Once, After
  <2>3. /\ got'[t] = h /\ pc'[t] \in After
        /\ \A u \in Threads \ {t} : got'[u] = got[u] /\ pc'[u] = pc[u]
    BY <2>1, <2>2, <1>1 DEF TypeOK, After
  <2>4. CASE h = Null
    <3>1. got' = got /\ actions' = actions
      BY <2>1, <2>2, <2>4, <1>1, ElemsTail, PoolAssumption DEF Taken, TypeOK, Elems, Handlers
    <3>2. \A u \in Threads : pc'[u] \in After \/ got[u] = Null
      BY <2>3, <1>1 DEF Once
    <3>3. Executing' = Executing
      BY <1>1, <3>1 DEF Executing
    <3> QED
      BY <3>1, <3>2, <3>3, <1>1, StillStep DEF HeadStarted
  <2>5. CASE h # Null
    <3>1. h \in Handlers
      BY <2>1, <2>5
    <3>2. /\ h \in Jobs => h \in QueuedJobs
          /\ QueuedJobs' = QueuedJobs \ {h} /\ Single(actions')
          /\ actions # <<>> /\ actions' = Tail(actions)
          /\ {h} \cap Jobs = {Head(actions)} \ {Stop}
      BY <1>1, <2>1, <3>1, TakenQueue
    <3>3. FramedJobs' = FramedJobs
      BY <1>1 DEF FramedJobs
    <3>4. HeldJobs' = HeldJobs \cup ({h} \cap Jobs) /\ h \notin HeldJobs
      <4>1. h \notin HeldJobs
        BY <3>2 DEF JInv, Apart, HeldJobs
      <4>2. ASSUME NEW x \in Jobs PROVE x \in HeldJobs' <=> x \in HeldJobs \/ x = h
        BY <2>2, <2>3, PoolAssumption DEF HeldJobs
      <4> QED
        BY <4>1, <4>2 DEF HeldJobs
    <3>5. Once'
      <4>1. \A u, v \in Threads : got'[u] = got'[v] /\ got'[u] \in Jobs => u = v
        BY <2>3, <3>4, <1>1 DEF Once, HeldJobs
      <4>2. \A u \in Threads : pc'[u] \notin After => got'[u] = Null
        BY <2>3, <1>1 DEF Once
      <4> QED
        BY <4>1, <4>2, <3>2, <1>1 DEF Once
    <3>6. Apart'
      BY <1>1, <3>2, <3>3, <3>4 DEF JInv, Apart
    <3>7. NoneLost'
      BY <1>1, <3>2, <3>3, <3>4 DEF JInv, NoneLost
    <3>8. HeadStarted
      <4>1. Executing' = Executing \cup ({h} \cap Jobs)
        BY <3>3, <3>4, Executed
      <4> QED
        BY <3>2, <4>1 DEF HeadStarted
    <3> QED
      BY <3>5, <3>6, <3>7, <3>8 DEF JInv
  <2> QED
    BY <2>4, <2>5
<1> QED
  BY <1>2, <1>3 DEF RunOneTake

LEMMA RunOneAfterJobs ==
  ASSUME IInv, JInv, NEW t \in Threads, RunOneAfter(t)
  PROVE  JInv' /\ Executing' = Executing
<1>1. /\ UNCHANGED <<phase, actions, fresh, done, flushed>>
      /\ got' = [got EXCEPT ![t] = Null]
      /\ pc' = [pc EXCEPT ![t] = "run"]
      /\ TypeOK /\ Once
  BY DEF RunOneAfter, ownerVars, jobVars, IInv, JInv
<1>2. QueuedJobs' = QueuedJobs
  BY <1>1 DEF QueuedJobs
<1>3. /\ got'[t] = Null /\ \A u \in Threads \ {t} : got'[u] = got[u] /\ pc'[u] = pc[u]
      /\ Null \notin Jobs
  BY <1>1, PoolAssumption DEF TypeOK
<1>4. HeldJobs' = HeldJobs \ {got[t]}
  <2>1. ASSUME NEW x \in Jobs PROVE x \in HeldJobs' <=> x \in HeldJobs /\ x # got[t]
    BY <1>1, <1>3 DEF HeldJobs, Once
  <2> QED
    BY <2>1 DEF HeldJobs
<1>5. /\ FramedJobs' = FramedJobs \cup ({got[t]} \cap Jobs)
      /\ \A u \in Threads : Single(frames'[u])
      /\ \A u, v \in Threads :
           u # v => Elems(frames'[u]) \cap Elems(frames'[v]) \cap Jobs = {}
  <2>1. CASE got[t] = Null
    <3>1. frames' = frames
      BY <2>1 DEF RunOneAfter
    <3> QED
      BY <2>1, <3>1, <1>1, <1>3 DEF Once, FramedJobs
  <2>2. CASE got[t] # Null
    <3>1. frames' = [frames EXCEPT ![t] = Append(frames[t], got[t])]
      BY <2>2 DEF RunOneAfter
    <3>2. got[t] \in Handlers
      BY <2>2, <1>1 DEF TypeOK
    <3>3. got[t] \in Jobs => got[t] \in HeldJobs
      BY DEF HeldJobs
    <3>4. got[t] \notin FramedJobs
      BY <3>3 DEF JInv, Apart, FramedJobs
    <3> QED
      BY <1>1, <3>1, <3>2, <3>4, PushFrame
  <2> QED
    BY <2>1, <2>2
<1>6. {got[t]} \cap Jobs \subseteq HeldJobs
  BY DEF HeldJobs
<1>7. Once'
  BY <1>1, <1>3, <1>5 DEF Once
<1>8. Apart'
  BY <1>1, <1>2, <1>4, <1>5, <1>6 DEF JInv, Apart
<1>9. NoneLost'
  BY <1>1, <1>2, <1>4, <1>5, <1>6 DEF JInv, NoneLost, HeldJobs
<1>10. Executing = HeldJobs \cup FramedJobs /\ Executing' = HeldJobs' \cup FramedJobs'
  BY Executed
<1>11. HeldJobs \subseteq Jobs
  BY DEF HeldJobs
<1> QED
  BY <1>4, <1>5, <1>6, <1>7, <1>8, <1>9, <1>10, <1>11 DEF JInv

LEMMA EnqueueStopJobs ==
  ASSUME IInv, JInv, EnqueueStop
  PROVE  JInv'
<1>1. /\ UNCHANGED <<pc, frames, got, fresh, done, flushed>>
      /\ actions \in Seq(Handlers) /\ Single(actions)
      /\ phase \notin {"ctor", "open"} /\ phase' \notin {"ctor", "open"}
  BY DEF EnqueueStop, jobVars, IInv, TypeOK, JInv, Once
<1>2. Stop \in Handlers /\ Stop \notin Jobs
  BY PoolAssumption DEF Handlers
<1>3. QueuedJobs' = QueuedJobs /\ Single(actions')
  <2>1. CASE actions' = actions
    BY <1>1, <2>1 DEF QueuedJobs
  <2>2. CASE actions' = Append(actions, Stop)
    BY <1>1, <1>2, <2>2, ElemsAppend DEF QueuedJobs
  <2> QED
    BY <2>1, <2>2 DEF EnqueueStop
<1>4. HeldJobs' = HeldJobs /\ FramedJobs' = FramedJobs
  BY <1>1 DEF HeldJobs, FramedJobs
<1>5. Once'
  BY <1>1, <1>3 DEF JInv, Once
<1>6. Apart' /\ NoneLost'
  BY <1>1, <1>3, <1>4 DEF JInv, Apart, NoneLost
<1> QED
  BY <1>5, <1>6 DEF JInv

LEMMA OwnerJobs ==
  ASSUME IInv, JInv, StartThread \/ PushThread \/ WaitStopped
  PROVE  JInv'
<1>1. /\ UNCHANGED <<actions, frames, got, fresh, done, flushed>>
      /\ phase' \in {"ctor", "open"} => phase \in {"ctor", "open"}
  BY DEF StartThread, PushThread, WaitStopped, jobVars
<1>2. \A u \in Threads : pc'[u] \in After \/ got[u] = Null
  <2>1. CASE StartThread
    <3>1. \A u \in Threads : got[u] = Null
      BY <2>1 DEF StartThread, IInv, Shape
    <3> QED
      BY <3>1
  <2>2. CASE pc' = pc
    BY <2>2 DEF JInv, Once
  <2> QED
    BY <2>1, <2>2 DEF PushThread, WaitStopped
<1> QED
  BY <1>1, <1>2, StillStep

LEMMA StillSteps ==
  ASSUME IInv, JInv, NEW t \in Threads,
         \/ Release(t) \/ Dequeue(t) \/ Pass(t) \/ RunStop(t) \/ RunOne(t)
         \/ Interrupt(t)
  PROVE  JInv'
<1>1. /\ UNCHANGED <<actions, frames, got, fresh, done, flushed>>
      /\ phase' \in {"ctor", "open"} => phase \in {"ctor", "open"}
  BY DEF Release, Dequeue, Pass, RunStop, RunOne, Interrupt, ownerVars, jobVars
<1>2. pc[t] \notin After \/ pc' = pc
  BY DEF Release, Dequeue, Pass, RunStop, RunOne, Running, Interrupt, After
<1>3. \A u \in Threads \ {t} : pc'[u] = pc[u]
  BY DEF Release, Dequeue, Pass, RunStop, RunOne, Interrupt, IInv, TypeOK
<1>4. \A u \in Threads : pc'[u] \in After \/ got[u] = Null
  BY <1>2, <1>3 DEF JInv, Once
<1> QED
  BY <1>1, <1>4, StillStep

LEMMA FlushSteps ==
  ASSUME IInv, JInv, Destroy \/ \E t \in Threads : FlushActions(t)
  PROVE  /\ JInv' /\ phase = "open"
         /\ flushed' = flushed \cup Elems(actions) /\ QueuedJobs = Elems(actions)
         /\ actions' = <<>> /\ UNCHANGED <<frames, got, fresh, done>>
<1>1. /\ phase = "open" /\ Flushed
      /\ UNCHANGED <<pc, frames, got, fresh, done>>
  BY DEF Destroy, FlushActions
<1>2. actions' = <<>>
  BY <1>1 DEF Flushed
<1> QED
  BY <1>1, <1>2, FlushJobs

LEMMA JobsInductive == IInv /\ JInv /\ [Next]_vars => JInv'
<1> SUFFICES ASSUME IInv, JInv, [Next]_vars PROVE JInv'
  OBVIOUS
<1>1. ASSUME NEW t \in Threads, ThreadStep(t) PROVE JInv'
  BY <1>1, StillSteps, TakeOneJobs, FinishJobs, RunOneTakeJobs, RunOneAfterJobs
     DEF ThreadStep
<1>2. ASSUME NEW t \in Threads, UserStep(t) PROVE JInv'
  BY <1>2, StillSteps, RunJobs, FlushSteps DEF UserStep
<1>3. CASE OwnerStep
  BY <1>3, OwnerJobs, EnqueueStopJobs DEF OwnerStep
<1>4. CASE UNCHANGED vars
  <2>1. \A u \in Threads : pc'[u] \in After \/ got[u] = Null
    BY <1>4 DEF JInv, Once, vars
  <2> QED
    BY <1>4, <2>1, StillStep DEF vars
<1> QED
  BY <1>1, <1>2, <1>3, <1>4, FlushSteps DEF Next

LEMMA JobsInvariance == Spec => [](IInv /\ JInv)
<1>1. Init => IInv /\ JInv
  BY InitIInv, InitJInv
<1>2. IInv /\ JInv /\ [Next]_vars => (IInv /\ JInv)'
  BY Inductive, JobsInductive
<1> QED
  BY <1>1, <1>2, PTL DEF Spec

-----------------------------------------------------------------------------
LEMMA PlaceKinds ==
  ASSUME IInv, JInv, NEW j \in Jobs
  PROVE  \A p \in Places(j) :
           \/ j \in QueuedJobs /\ \E i \in 1 .. Len(actions) : actions[i] = j /\ p = <<"queue", i>>
           \/ j \in HeldJobs /\ \E t \in Threads : got[t] = j /\ p = <<"held", t>>
           \/ j \in FramedJobs /\ \E t \in Threads : j \in Elems(frames[t]) /\ p = <<"frame", t>>
           \/ j \in fresh /\ p = <<"fresh", j>>
           \/ j \in done /\ p = <<"done", j>>
           \/ j \in flushed /\ p = <<"flushed", j>>
BY DEF Places, QueuedJobs, HeldJobs, FramedJobs, Elems

LEMMA OnePlace ==
  ASSUME IInv, JInv, NEW j \in Jobs, NEW p \in Places(j), NEW q \in Places(j)
  PROVE  p = q
<1> DEFINE Queue(x) == j \in QueuedJobs /\ \E i \in 1 .. Len(actions) : actions[i] = j /\ x = <<"queue", i>>
           Held(x)  == j \in HeldJobs /\ \E t \in Threads : got[t] = j /\ x = <<"held", t>>
           Frame(x) == j \in FramedJobs /\ \E t \in Threads : j \in Elems(frames[t]) /\ x = <<"frame", t>>
           Rest(x)  == \/ j \in fresh /\ x = <<"fresh", j>>
                       \/ j \in done /\ x = <<"done", j>>
                       \/ j \in flushed /\ x = <<"flushed", j>>
<1>1. ASSUME NEW x \in Places(j) PROVE Queue(x) \/ Held(x) \/ Frame(x) \/ Rest(x)
  BY <1>1, PlaceKinds
<1>2. ASSUME NEW x, NEW y, Queue(x), Queue(y) PROVE x = y
  <2>1. Single(actions)
    BY DEF JInv, Once
  <2> QED
    BY <1>2, <2>1 DEF Single
<1>3. ASSUME NEW x, NEW y, Held(x), Held(y) PROVE x = y
  BY <1>3 DEF JInv, Once
<1>4. ASSUME NEW x, NEW y, Frame(x), Frame(y) PROVE x = y
  <2>1. PICK t \in Threads : j \in Elems(frames[t]) /\ x = <<"frame", t>>
    BY <1>4
  <2>2. PICK u \in Threads : j \in Elems(frames[u]) /\ y = <<"frame", u>>
    BY <1>4
  <2>3. t = u
    BY <2>1, <2>2 DEF JInv, Once
  <2> QED
    BY <2>1, <2>2, <2>3
<1>5. ASSUME NEW x, NEW y, Rest(x), Rest(y) PROVE x = y
  BY <1>5 DEF JInv, Apart
<1>6. /\ Queue(p) => ~Held(q) /\ ~Frame(q) /\ ~Rest(q)
      /\ Held(p) => ~Queue(q) /\ ~Frame(q) /\ ~Rest(q)
      /\ Frame(p) => ~Queue(q) /\ ~Held(q) /\ ~Rest(q)
      /\ Rest(p) => ~Queue(q) /\ ~Held(q) /\ ~Frame(q)
  BY DEF JInv, Apart
<1>7. /\ Queue(p) \/ Held(p) \/ Frame(p) \/ Rest(p)
      /\ Queue(q) \/ Held(q) \/ Frame(q) \/ Rest(q)
  BY <1>1
<1> HIDE DEF Queue, Held, Frame, Rest
<1> QED
  BY <1>2, <1>3, <1>4, <1>5, <1>6, <1>7

LEMMA SomePlace ==
  ASSUME IInv, JInv, NEW j \in Jobs, phase \in {"ctor", "open"}
  PROVE  Places(j) # {}
<1>1. j \in QueuedJobs \/ j \in HeldJobs \/ j \in FramedJobs \/ j \in fresh \cup done \cup flushed
  BY DEF JInv, NoneLost
<1>2. CASE j \in QueuedJobs
  <2>1. PICK i \in 1 .. Len(actions) : actions[i] = j
    BY <1>2 DEF QueuedJobs, Elems
  <2>2. <<"queue", i>> \in Places(j)
    BY <2>1 DEF Places
  <2> QED
    BY <2>2
<1>3. CASE j \in HeldJobs
  <2>1. PICK t \in Threads : got[t] = j
    BY <1>3 DEF HeldJobs
  <2>2. <<"held", t>> \in Places(j)
    BY <2>1 DEF Places
  <2> QED
    BY <2>2
<1>4. CASE j \in FramedJobs
  <2>1. PICK t \in Threads : \E k \in 1 .. Len(frames[t]) : frames[t][k] = j
    BY <1>4 DEF FramedJobs, Elems
  <2>2. <<"frame", t>> \in Places(j)
    BY <2>1 DEF Places
  <2> QED
    BY <2>2
<1>5. CASE j \in fresh \cup done \cup flushed
  <2>1. \/ <<"fresh", j>> \in Places(j) \/ <<"done", j>> \in Places(j)
        \/ <<"flushed", j>> \in Places(j)
    BY <1>5 DEF Places
  <2> QED
    BY <2>1
<1> QED
  BY <1>1, <1>2, <1>3, <1>4, <1>5

(* A handler given to run() is in exactly one place, for any number of     *)
(* handlers and of threads, however deep runOne nests them: none is run    *)
(* twice or after its deletion, and none is lost while the pool is open.   *)
THEOREM HandlersInPlace == Spec => []ExactlyOnePlace
<1>1. ASSUME IInv, JInv PROVE ExactlyOnePlace
  <2>1. ASSUME NEW j \in Jobs
        PROVE  IF phase \in {"ctor", "open"} THEN Cardinality(Places(j)) = 1
               ELSE Cardinality(Places(j)) <= 1
    <3>1. CASE Places(j) = {}
      <4>1. Cardinality(Places(j)) = 0
        BY <3>1, FS_EmptySet
      <4>2. phase \notin {"ctor", "open"}
        BY <1>1, <3>1, SomePlace
      <4> QED
        BY <4>1, <4>2
    <3>2. CASE Places(j) # {}
      <4>1. PICK p : p \in Places(j)
        BY <3>2
      <4>2. Places(j) = {p}
        BY <1>1, <4>1, OnePlace
      <4>3. Cardinality(Places(j)) = 1
        BY <4>2, FS_Singleton
      <4> QED
        BY <4>3
    <3> QED
      BY <3>1, <3>2
  <2> QED
    BY <2>1 DEF ExactlyOnePlace
<1> QED
  BY <1>1, JobsInvariance, PTL

-----------------------------------------------------------------------------
LEMMA InitDInv == Init => DInv
<1> SUFFICES ASSUME Init PROVE DInv
  OBVIOUS
<1>1. Exited = {}
  BY DEF Init, Exited, Threads
<1>2. Cardinality(Exited) = 0
  BY <1>1, FS_EmptySet
<1> QED
  BY <1>2 DEF Init, DInv, Alone, StopsCounted, Closed

LEMMA ExitedCount ==
  ASSUME TypeOK
  PROVE  Cardinality(Exited) \in Nat /\ Exited \in SUBSET Threads
         /\ stopped \in Nat /\ stops \in Nat
<1>1. Exited \in SUBSET Threads
  BY DEF Exited
<1> QED
  BY <1>1, Card, Finite DEF TypeOK

(* Once the pool is closed its clients are out of it.                      *)
LEMMA ClientsOut ==
  ASSUME Alone, Closed, NEW t \in Clients
  PROVE  /\ ~Dequeue(t) /\ ~Pass(t) /\ ~TakeOne(t) /\ ~Finish(t) /\ ~RunStop(t)
         /\ ~RunOneTake(t) /\ ~RunOneAfter(t) /\ ~Interrupt(t)
         /\ ~RunOne(t) /\ ~FlushActions(t) /\ \A j \in Jobs : ~Run(t, j)
<1>1. pc[t] = "run" /\ frames[t] = <<>> /\ Actor(t) = t /\ phase # "open"
      /\ t # Stop /\ t \notin Workers
  BY PoolAssumption DEF Alone, Closed, Actor
<1> QED
  BY <1>1 DEF Dequeue, Pass, TakeOne, Finish, RunStop, RunOneTake, RunOneAfter,
     Interrupt, RunOne, FlushActions, Run, Running, After

(* The steps of one thread that keep it on its way.                        *)
LEMMA OnTheWay ==
  ASSUME IInv, DInv, NEW t \in Threads, t \notin releasing, pc[t] # "exited",
         pc'[t] # "exited",
         \A u \in Threads \ {t} : pc'[u] = pc[u] /\ frames'[u] = frames[u],
         UNCHANGED <<phase, stopped, stops>>,
         Closed => t \notin Clients,
         \/ releasing' = releasing
         \/ /\ releasing' = releasing \cup {t} /\ phase = "open"
            /\ UNCHANGED <<pc, frames>> /\ pc[t] = "run" /\ Actor(t) # Stop
  PROVE  DInv'
<1>1. Exited' = Exited
  BY DEF Exited
<1>2. StopsCounted'
  BY <1>1 DEF DInv, StopsCounted
<1>3. ASSUME NEW u \in releasing' PROVE pc'[u] = "run" /\ Actor(u)' # Stop
  <2>1. CASE u # t
    <3>1. u \in releasing /\ u \in Threads
      BY <1>3, <2>1 DEF IInv, TypeOK
    <3> QED
      BY <2>1, <3>1 DEF DInv, Alone, Actor
  <2>2. CASE u = t
    BY <1>3, <2>2 DEF Actor
  <2> QED
    BY <2>1, <2>2
<1>4. ASSUME NEW c \in Clients, Closed
      PROVE  /\ pc'[c] = "run" /\ frames'[c] = <<>>
             /\ c \in releasing' => c = Owner /\ phase' = "stopRelease"
  <2>1. c \in Threads \ {t}
    BY <1>4 DEF Threads
  <2> QED
    BY <1>4, <2>1 DEF DInv, Alone, Closed
<1>5. Closed' <=> Closed
  BY DEF Closed
<1>6. Alone'
  BY <1>3, <1>4, <1>5 DEF DInv, Alone
<1> QED
  BY <1>2, <1>6 DEF DInv

LEMMA WaySteps ==
  ASSUME IInv, DInv, NEW t \in Threads,
         \/ Dequeue(t) \/ Pass(t) \/ TakeOne(t) \/ Finish(t) \/ RunOneTake(t)
         \/ RunOneAfter(t) \/ Interrupt(t) \/ RunOne(t) \/ FlushActions(t)
         \/ \E j \in Jobs : Run(t, j)
  PROVE  DInv'
<1>1. Closed => t \notin Clients
  BY ClientsOut DEF DInv
<1>2. UNCHANGED <<phase, stopped, stops>>
  BY DEF Dequeue, Pass, TakeOne, Finish, RunOneTake, RunOneAfter, Interrupt,
     RunOne, FlushActions, Run, ownerVars
<1>3. /\ pc \in [Threads -> PcStates] /\ frames \in [Threads -> Seq(Handlers)]
  BY DEF IInv, TypeOK
<1>4. CASE Dequeue(t) \/ Pass(t) \/ TakeOne(t) \/ RunOneTake(t) \/ RunOneAfter(t)
           \/ Interrupt(t)
  <2>1. /\ pc[t] # "run" /\ pc[t] # "exited" /\ releasing' = releasing
    BY <1>4 DEF Dequeue, Pass, TakeOne, RunOneTake, RunOneAfter, Interrupt, After
  <2>2. t \notin releasing
    BY <2>1 DEF DInv, Alone
  <2>3. /\ pc'[t] # "exited"
        /\ \A u \in Threads \ {t} : pc'[u] = pc[u] /\ frames'[u] = frames[u]
    BY <1>3, <1>4 DEF Dequeue, Pass, TakeOne, RunOneTake, RunOneAfter, Interrupt
  <2> QED
    BY <1>1, <1>2, <2>1, <2>2, <2>3, OnTheWay
<1>5. CASE Finish(t) \/ RunOne(t) \/ FlushActions(t)
  <2>1. /\ pc[t] = "run" /\ t \notin releasing /\ releasing' = releasing
        /\ pc'[t] # "exited"
        /\ \A u \in Threads \ {t} : pc'[u] = pc[u] /\ frames'[u] = frames[u]
    BY <1>3, <1>5 DEF Finish, RunOne, FlushActions, Running
  <2> QED
    BY <1>1, <1>2, <2>1, OnTheWay
<1>6. CASE \E j \in Jobs : Run(t, j)
  <2>1. /\ pc[t] = "run" /\ t \notin releasing /\ Actor(t) # Stop
        /\ UNCHANGED <<pc, frames>>
        /\ \/ releasing' = releasing
           \/ releasing' = releasing \cup {t} /\ phase = "open"
    BY <1>6 DEF Run, Running
  <2> QED
    BY <1>1, <1>2, <2>1, OnTheWay
<1> QED
  BY <1>4, <1>5, <1>6

LEMMA ReleaseAlone ==
  ASSUME IInv, DInv, NEW t \in Threads, Release(t)
  PROVE  DInv'
<1>1. /\ UNCHANGED <<pc, frames, stopped, stops>>
      /\ releasing' = releasing \ {t} /\ t \in releasing
      /\ phase' = IF t = Owner /\ phase = "stopRelease" THEN "stopWait" ELSE phase
  BY DEF Release
<1>2. Exited' = Exited
  BY <1>1 DEF Exited
<1>3. StopsCounted'
  BY <1>1, <1>2 DEF DInv, StopsCounted
<1>4. Alone'
  BY <1>1 DEF DInv, Alone, Closed, Actor
<1> QED
  BY <1>3, <1>4 DEF DInv

LEMMA RunStopAlone ==
  ASSUME IInv, DInv, NEW t \in Threads, RunStop(t)
  PROVE  DInv'
<1>1. /\ UNCHANGED <<phase, frames, stops, releasing>> /\ stopped' = stopped + 1
      /\ pc[t] = "run" /\ Actor(t) = Stop /\ pc' = [pc EXCEPT ![t] = "exited"]
      /\ TypeOK
  BY DEF RunStop, IInv
<1>2. t \notin Exited /\ Exited' = Exited \cup {t}
  BY <1>1 DEF TypeOK, Exited
<1>3. Cardinality(Exited') = Cardinality(Exited) + 1
  BY <1>1, <1>2, AddOne, ExitedCount
<1>4. StopsCounted'
  <2>1. /\ Cardinality(Exited) \in Nat /\ stopped \in Nat /\ stops \in Nat
    BY <1>1, ExitedCount
  <2> QED
    BY <1>1, <1>3, <2>1 DEF DInv, StopsCounted
<1>5. t \notin releasing /\ (Closed => t \notin Clients)
  BY <1>1, ClientsOut DEF DInv, Alone
<1>6. \A u \in Threads \ {t} : pc'[u] = pc[u]
  BY <1>1 DEF TypeOK
<1>7. Alone'
  <2>1. \A u \in releasing' : pc'[u] = "run" /\ Actor(u)' # Stop
    BY <1>1, <1>5, <1>6 DEF DInv, Alone, Actor, TypeOK
  <2>2. Closed' => \A c \in Clients :
                     /\ pc'[c] = "run" /\ frames'[c] = <<>>
                     /\ c \in releasing' => c = Owner /\ phase' = "stopRelease"
    BY <1>1, <1>5, <1>6 DEF DInv, Alone, Closed, Threads
  <2>3. phase' = "gone" => stops' = N
    BY <1>1 DEF DInv, Alone
  <2> QED
    BY <2>1, <2>2, <2>3 DEF Alone
<1> QED
  BY <1>4, <1>7 DEF DInv

LEMMA OwnerAlone ==
  ASSUME IInv, DInv, OwnerStep
  PROVE  DInv'
<1>1. /\ Cardinality(Exited) \in Nat /\ stopped \in Nat /\ stops \in Nat /\ TypeOK
  BY ExitedCount DEF IInv
<1>2. CASE StartThread
  <2>1. /\ UNCHANGED <<phase, frames, stops, stopped, releasing>> /\ phase = "ctor"
        /\ started + 1 \in Workers /\ pc' = [pc EXCEPT ![started + 1] = "loop"]
    BY <1>1, <1>2, Finite DEF StartThread, TypeOK
  <2>2. pc[started + 1] = "unborn"
    BY <1>1, <2>1, Finite DEF IInv, Shape, TypeOK
  <2>3. Exited' = Exited /\ \A u \in Threads : pc[u] = "run" => pc'[u] = "run"
    BY <1>1, <2>1, <2>2 DEF Exited, TypeOK
  <2>4. StopsCounted'
    BY <2>1, <2>3 DEF DInv, StopsCounted
  <2>5. Alone'
    BY <1>1, <2>1, <2>3 DEF DInv, Alone, Closed, Actor, TypeOK
  <2> QED
    BY <2>4, <2>5 DEF DInv
<1>3. CASE PushThread
  <2>1. UNCHANGED <<pc, frames, stops, stopped, releasing>> /\ phase = "ctor"
        /\ phase' \in {"ctor", "open"}
    BY <1>3 DEF PushThread
  <2> QED
    BY <2>1 DEF DInv, Alone, StopsCounted, Closed, Actor, Exited
<1>4. CASE EnqueueStop
  <2>1. /\ UNCHANGED <<pc, frames, stopped>> /\ phase = "stopEnqueue" /\ size = N
        /\ Exited' = Exited /\ Owner \in Clients
    BY <1>4, PoolAssumption DEF EnqueueStop, IInv, Shape, Exited
  <2>2. CASE /\ releasing' = releasing \cup {Owner} /\ stops' = stops + 1
             /\ phase' = "stopRelease"
    <3>1. StopsCounted'
      BY <1>1, <2>1, <2>2 DEF DInv, StopsCounted
    <3>2. pc[Owner] = "run" /\ Actor(Owner)' # Stop
      BY <2>1, PoolAssumption DEF DInv, Alone, Closed, Actor
    <3>3. Alone'
      BY <2>1, <2>2, <3>2 DEF DInv, Alone, Closed, Actor
    <3> QED
      BY <3>1, <3>3 DEF DInv
  <2>3. CASE /\ UNCHANGED <<releasing, stops>> /\ stops = size /\ phase' = "gone"
    <3>1. StopsCounted'
      BY <1>1, <2>1, <2>3 DEF DInv, StopsCounted
    <3>2. Alone'
      BY <2>1, <2>3 DEF DInv, Alone, Closed, Actor
    <3> QED
      BY <3>1, <3>2 DEF DInv
  <2> QED
    BY <1>4, <2>2, <2>3 DEF EnqueueStop
<1>5. CASE WaitStopped
  <2>1. /\ UNCHANGED <<pc, frames, stops, releasing>> /\ stopped' = stopped - 1
        /\ phase = "stopWait" /\ phase' = "stopEnqueue" /\ Exited' = Exited
    BY <1>5 DEF WaitStopped, Exited
  <2>2. StopsCounted'
    BY <1>1, <2>1 DEF DInv, StopsCounted
  <2>3. Alone'
    BY <2>1 DEF DInv, Alone, Closed, Actor
  <2> QED
    BY <2>2, <2>3 DEF DInv
<1> QED
  BY <1>2, <1>3, <1>4, <1>5 DEF OwnerStep

LEMMA DestroyAlone ==
  ASSUME IInv, DInv, Destroy
  PROVE  DInv'
<1>1. /\ UNCHANGED <<pc, frames, stops, stopped, releasing>>
      /\ phase = "open" /\ phase' = "stopEnqueue" /\ Exited' = Exited
      /\ \A c \in Clients : pc[c] = "run" /\ frames[c] = <<>> /\ c \notin releasing
  BY DEF Destroy, Exited
<1> QED
  BY <1>1 DEF DInv, Alone, StopsCounted, Closed, Actor

LEMMA DestroyInductive == IInv /\ DInv /\ [Next]_vars => DInv'
<1> SUFFICES ASSUME IInv, DInv, [Next]_vars PROVE DInv'
  OBVIOUS
<1>1. ASSUME NEW t \in Threads, ThreadStep(t) PROVE DInv'
  BY <1>1, ReleaseAlone, RunStopAlone, WaySteps DEF ThreadStep
<1>2. ASSUME NEW t \in Threads, UserStep(t) PROVE DInv'
  BY <1>2, WaySteps DEF UserStep
<1>3. CASE UNCHANGED vars
  BY <1>3 DEF vars, DInv, Alone, StopsCounted, Closed, Actor, Exited
<1> QED
  BY <1>1, <1>2, <1>3, OwnerAlone, DestroyAlone DEF Next

(* The destructor returns only when every worker has left the pool for     *)
(* good, for any number of workers: as many stop handlers have been run as *)
(* there are workers, and each was the end of the thread that ran it.      *)
THEOREM DestroyedUnused == Spec => []DestroyedPoolUnused
<1>1. ASSUME IInv, DInv PROVE DestroyedPoolUnused
  <2> SUFFICES ASSUME phase = "gone"
               PROVE  /\ \A w \in Workers : pc[w] = "exited"
                      /\ \A t \in Threads : pc[t] \notin InPool
                      /\ releasing = {}
    BY DEF DestroyedPoolUnused
  <2>1. /\ Closed /\ \A c \in Clients : pc[c] = "run" /\ c \notin releasing
        /\ stops = N /\ Cardinality(Exited) + 0 = stopped + stops
    BY <1>1 DEF DInv, Alone, StopsCounted, Closed
  <2>2. Exited \subseteq Workers
    BY <2>1 DEF Exited, Threads
  <2>3. /\ Cardinality(Exited) \in Nat /\ stopped \in Nat /\ N \in Nat
        /\ IsFiniteSet(Workers) /\ Cardinality(Workers) = N
    BY <1>1, ExitedCount, Finite DEF IInv, N
  <2>4. Cardinality(Exited) <= N
    BY <2>2, <2>3, FS_Subset
  <2>5. Cardinality(Exited) = N
    BY <2>1, <2>3, <2>4
  <2>6. Exited = Workers
    BY <2>2, <2>3, <2>5, FS_Subset
  <2>7. \A w \in Workers : pc[w] = "exited"
    BY <2>6 DEF Exited
  <2>8. \A t \in releasing : t \in Clients
    BY <1>1, <2>7 DEF IInv, TypeOK, DInv, Alone, Threads
  <2> QED
    BY <2>1, <2>7, <2>8 DEF InPool, After, Threads
<1>2. Init => IInv /\ DInv
  BY InitIInv, InitDInv
<1>3. IInv /\ DInv /\ [Next]_vars => (IInv /\ DInv)'
  BY Inductive, DestroyInductive
<1> QED
  BY <1>1, <1>2, <1>3, PTL DEF Spec

-----------------------------------------------------------------------------
AbstractStep ==
  [Exec!Next]_<<phase \notin {"ctor", "open"}, actions, fresh, Executing, done, flushed>>

(* A step that leaves the queue, the handlers and the phase alone.         *)
LEMMA QuietStep ==
  ASSUME UNCHANGED <<actions, fresh, Executing, done, flushed>>,
         (phase \in {"ctor", "open"}) <=> (phase' \in {"ctor", "open"})
  PROVE  AbstractStep
BY DEF AbstractStep

LEMMA StartStep ==
  ASSUME HeadStarted, UNCHANGED <<phase, fresh, done, flushed>>
  PROVE  AbstractStep
BY DEF HeadStarted, AbstractStep, Exec!Next, Exec!Start

LEMMA ThreadMaps ==
  ASSUME IInv, JInv, NEW t \in Threads, ThreadStep(t) \/ UserStep(t)
  PROVE  AbstractStep
<1>1. CASE TakeOne(t) \/ RunOneTake(t)
  <2>1. HeadStarted
    BY <1>1, TakeOneJobs, RunOneTakeJobs
  <2>2. UNCHANGED <<phase, fresh, done, flushed>>
    BY <1>1 DEF TakeOne, RunOneTake, ownerVars, jobVars
  <2> QED
    BY <2>1, <2>2, StartStep
<1>2. CASE Finish(t)
  <2>1. /\ Actor(t) \in Executing /\ Executing' = Executing \ {Actor(t)}
        /\ done' = done \cup {Actor(t)}
        /\ UNCHANGED <<phase, actions, fresh, flushed>>
    BY <1>2, FinishJobs
  <2>2. Actor(t) \in Jobs
    BY <2>1 DEF Executing
  <2>3. Exec!End(Actor(t))
    BY <2>1 DEF Exec!End
  <2> QED
    BY <2>2, <2>3 DEF AbstractStep, Exec!Next
<1>3. CASE RunOneAfter(t)
  <2>1. Executing' = Executing /\ UNCHANGED <<phase, actions, fresh, done, flushed>>
    BY <1>3, RunOneAfterJobs DEF RunOneAfter, ownerVars, jobVars
  <2> QED
    BY <2>1, QuietStep
<1>4. CASE Release(t) \/ Dequeue(t) \/ Pass(t) \/ RunStop(t) \/ RunOne(t) \/ Interrupt(t)
  <2>1. /\ UNCHANGED <<actions, frames, got, fresh, done, flushed>>
        /\ (phase \in {"ctor", "open"}) <=> (phase' \in {"ctor", "open"})
    BY <1>4 DEF Release, Dequeue, Pass, RunStop, RunOne, Interrupt, ownerVars, jobVars
  <2>2. Executing' = Executing
    BY <2>1 DEF Executing
  <2> QED
    BY <2>1, <2>2, QuietStep
<1>5. ASSUME NEW j \in Jobs, Run(t, j) PROVE AbstractStep
  <2>1. /\ j \in fresh /\ fresh' = fresh \ {j} /\ UNCHANGED <<phase, done, flushed>>
        /\ UNCHANGED <<frames, got>>
    BY <1>5 DEF Run, ownerVars
  <2>2. Executing' = Executing
    BY <2>1 DEF Executing
  <2>3. phase # "ctor"
    BY <1>5 DEF Run, Running, IInv, Shape
  <2>4. Exec!Accept(j) \/ Exec!Refuse(j)
    BY <1>5, <2>1, <2>2, <2>3 DEF Run, Exec!Accept, Exec!Refuse
  <2> QED
    BY <2>4 DEF AbstractStep, Exec!Next
<1>6. CASE FlushActions(t)
  <2>1. /\ phase = "open" /\ actions' = <<>> /\ flushed' = flushed \cup Elems(actions)
        /\ UNCHANGED <<phase, frames, got, fresh, done>>
    BY <1>6, FlushSteps DEF FlushActions, ownerVars
  <2>2. Executing' = Executing
    BY <2>1 DEF Executing
  <2>3. Exec!Flush
    BY <2>1, <2>2 DEF Exec!Flush, Elems
  <2> QED
    BY <2>3 DEF AbstractStep, Exec!Next
<1> QED
  BY <1>1, <1>2, <1>3, <1>4, <1>5, <1>6 DEF ThreadStep, UserStep

LEMMA OwnerMaps ==
  ASSUME IInv, JInv, OwnerStep \/ Destroy
  PROVE  AbstractStep
<1>1. CASE StartThread \/ PushThread \/ WaitStopped
  <2>1. /\ UNCHANGED <<actions, frames, got, fresh, done, flushed>>
        /\ (phase \in {"ctor", "open"}) <=> (phase' \in {"ctor", "open"})
    BY <1>1 DEF StartThread, PushThread, WaitStopped, jobVars
  <2>2. Executing' = Executing
    BY <2>1 DEF Executing
  <2> QED
    BY <2>1, <2>2, QuietStep
<1>2. CASE EnqueueStop
  <2>1. /\ UNCHANGED <<frames, got, fresh, done, flushed>>
        /\ phase = "stopEnqueue" /\ phase' \in {"stopRelease", "gone"}
    BY <1>2 DEF EnqueueStop, jobVars
  <2>2. Executing' = Executing
    BY <2>1 DEF Executing
  <2>3. CASE actions' = actions
    BY <2>1, <2>2, <2>3, QuietStep
  <2>4. CASE actions' = Append(actions, Stop)
    <3>1. Exec!AddStop
      BY <2>1, <2>2, <2>4 DEF Exec!AddStop
    <3> QED
      BY <3>1 DEF AbstractStep, Exec!Next
  <2> QED
    BY <1>2, <2>3, <2>4 DEF EnqueueStop
<1>3. CASE Destroy
  <2>1. /\ phase = "open" /\ phase' = "stopEnqueue" /\ actions' = <<>>
        /\ flushed' = flushed \cup Elems(actions)
        /\ UNCHANGED <<frames, got, fresh, done>>
    BY <1>3, FlushSteps DEF Destroy
  <2>2. Executing' = Executing
    BY <2>1 DEF Executing
  <2>3. Exec!Flush
    BY <2>1, <2>2 DEF Exec!Flush, Elems
  <2> QED
    BY <2>3 DEF AbstractStep, Exec!Next
<1> QED
  BY <1>1, <1>2, <1>3 DEF OwnerStep

(* The pool is a queue served in order: for any number of threads, a       *)
(* handler is started only as the first of those accepted, whichever       *)
(* thread takes it; one that is refused or flushed is never started; and   *)
(* once the destructor has begun nothing is accepted but stop handlers.    *)
THEOREM ExecutorImplemented == Spec => ExecSpec
<1>1. Init => Exec!Init
  <2> SUFFICES ASSUME Init PROVE Exec!Init
    OBVIOUS
  <2>1. Executing = {}
    <3>1. \A t \in Threads : got[t] = Null /\ frames[t] = <<>>
      BY DEF Init
    <3> QED
      BY <3>1, PoolAssumption DEF Executing
  <2> QED
    BY <2>1 DEF Init, Exec!Init
<1>2. IInv /\ JInv /\ [Next]_vars => AbstractStep
  <2> SUFFICES ASSUME IInv, JInv, [Next]_vars PROVE AbstractStep
    OBVIOUS
  <2>1. CASE UNCHANGED vars
    BY <2>1, QuietStep DEF vars, Executing
  <2> QED
    BY <2>1, ThreadMaps, OwnerMaps DEF Next
<1> QED
  BY <1>1, <1>2, JobsInvariance, PTL DEF Spec, ExecSpec, Exec!Spec, Exec!evars, AbstractStep
=============================================================================
