------------------------ MODULE KernelSemaphoreProofs ------------------------
(* Proofs about the kernel semaphore, for any processes and any units, and for    *)
(* any number of calls of killChild().                                            *)
EXTENDS KernelSemaphoreProps, FiniteSetTheorems, SequenceTheorems, TLAPS

TypeOK ==
  /\ count \in [Semaphores -> Int]
  /\ waiting \in [Semaphores -> Seq(Procs)]
  /\ status \in [Procs -> {"PRUN", "PWAIT", "gone"}]
  /\ alertable \in [Procs -> BOOLEAN]
  /\ resource \in [Procs -> Semaphores]
  /\ suspended \in [Procs -> BOOLEAN]
  /\ aborted \in [Procs -> BOOLEAN]
  /\ switching \in [Procs -> BOOLEAN]
  /\ calls \in [Procs -> SUBSET BOOLEAN]
  /\ holds \in [Procs -> BOOLEAN]
  /\ granted \in [Procs -> BOOLEAN]
  /\ lost \in Nat
  /\ killer \in [Procs -> {"none", "tested", "marked", "done"}]
  /\ phantom \in [Semaphores -> Nat]

Waiters(s) == {p \in Procs : status[p] = "PWAIT" /\ resource[p] = s}

(* A queue holds each process that waits once and no other process.              *)
Queues ==
  \A s \in Semaphores : IsInjective(waiting[s]) /\ ToSet(waiting[s]) = Waiters(s)

Granted == {p \in Procs : granted[p]}

(* What a semaphore could hand out had nobody come to wait.                      *)
Free(s) == count[s] + Len(waiting[s])

UnitsCounted ==
  Free("resource") = Units - Cardinality(Granted) - lost + phantom["resource"]

(* Such a remainder and a queue exist together only because of an abort outside   *)
(* of the lock.                                                                  *)
NoIdleWait ==
  \A s \in Semaphores :
    /\ Free(s) >= 0
    /\ waiting[s] # <<>> /\ phantom[s] = 0 => Free(s) = 0

(* A process that waits for its unit has none and bears the flag it called       *)
(* down() with or is about to exit; one that is through with the wait has got its  *)
(* unit, is about to exit, or finds the flag changed; and outside of down() a      *)
(* process that was told of a unit has one.                                      *)
Calls ==
  \A p \in Procs :
    /\ calls[p] = {} => granted[p] = holds[p]
    /\ calls[p] # {} => switching[p] /\ \E a \in BOOLEAN : calls[p] = {a}
    /\ status[p] = "PWAIT" => switching[p]
    /\ status[p] = "PWAIT" /\ resource[p] = "resource" =>
         ~granted[p] /\ calls[p] # {} /\ (calls[p] = {alertable[p]} \/ aborted[p])
    /\ calls[p] # {} /\ status[p] # "gone" /\ ~aborted[p]
         /\ ~(status[p] = "PWAIT" /\ resource[p] = "resource") =>
         /\ ~granted[p] => calls[p] = {TRUE} /\ ~alertable[p]
         /\ granted[p] /\ resource[p] = "resource" => calls[p] = {alertable[p]}
    /\ killer[p] \in {"tested", "marked"} => aborted[p] \/ status[p] = "gone"

IInv == TypeOK /\ Queues /\ UnitsCounted /\ NoIdleWait /\ Calls

-----------------------------------------------------------------------------
(* What the operations on a queue make of its processes.                        *)

LEMMA SeqFacts ==
  ASSUME NEW S, NEW q \in Seq(S)
  PROVE  /\ Len(q) \in Nat /\ DOMAIN q = 1 .. Len(q)
         /\ \A i \in 1 .. Len(q) : q[i] \in S
         /\ q # <<>> <=> Len(q) > 0
BY LenProperties, EmptySeq, ElementOfSeq

LEMMA AppendQueue ==
  ASSUME NEW S, NEW q \in Seq(S), IsInjective(q), NEW p \in S, p \notin ToSet(q)
  PROVE  /\ Append(q, p) \in Seq(S) /\ Len(Append(q, p)) = Len(q) + 1
         /\ Append(q, p) # <<>>
         /\ IsInjective(Append(q, p)) /\ ToSet(Append(q, p)) = ToSet(q) \cup {p}
<1> DEFINE r == Append(q, p)
<1>1. /\ r \in Seq(S) /\ Len(r) = Len(q) + 1 /\ r # <<>>
      /\ \A i \in 1 .. Len(q) : r[i] = q[i]
      /\ r[Len(q) + 1] = p
  BY AppendProperties
<1>2. DOMAIN q = 1 .. Len(q) /\ DOMAIN r = 1 .. Len(q) + 1 /\ Len(q) \in Nat
  BY <1>1, SeqFacts
<1>3. \A i \in 1 .. Len(q) : q[i] # p
  BY <1>2 DEF ToSet
<1>4. IsInjective(r)
  <2> SUFFICES ASSUME NEW i \in 1 .. Len(q) + 1, NEW j \in 1 .. Len(q) + 1, r[i] = r[j]
               PROVE  i = j
    BY <1>2 DEF IsInjective
  <2>1. CASE i \in 1 .. Len(q) /\ j \in 1 .. Len(q)
    BY <2>1, <1>1, <1>2 DEF IsInjective
  <2>2. CASE i = Len(q) + 1 \/ j = Len(q) + 1
    BY <2>2, <1>1, <1>2, <1>3
  <2> QED
    BY <2>1, <2>2, <1>2
<1>5. ToSet(r) = ToSet(q) \cup {p}
  BY <1>1, <1>2 DEF ToSet
<1> QED
  BY <1>1, <1>4, <1>5

LEMMA TailQueue ==
  ASSUME NEW S, NEW q \in Seq(S), IsInjective(q), q # <<>>
  PROVE  /\ Head(q) \in S /\ Head(q) \in ToSet(q)
         /\ Tail(q) \in Seq(S) /\ Len(Tail(q)) = Len(q) - 1
         /\ IsInjective(Tail(q)) /\ ToSet(Tail(q)) = ToSet(q) \ {Head(q)}
<1> DEFINE r == Tail(q)
<1>1. /\ Head(q) \in S /\ r \in Seq(S) /\ Len(r) = Len(q) - 1
      /\ \A i \in 1 .. Len(r) : r[i] = q[i + 1]
      /\ Head(q) = q[1]
  BY HeadTailProperties
<1>2. /\ DOMAIN q = 1 .. Len(q) /\ DOMAIN r = 1 .. Len(q) - 1
      /\ Len(q) \in Nat /\ Len(q) > 0
  BY <1>1, SeqFacts
<1>3. IsInjective(r)
  BY <1>1, <1>2 DEF IsInjective
<1>4. ToSet(r) = ToSet(q) \ {Head(q)}
  <2>1. ASSUME NEW x \in ToSet(r) PROVE x \in ToSet(q) \ {Head(q)}
    <3>1. PICK i \in 1 .. Len(q) - 1 : x = q[i + 1]
      BY <2>1, <1>1, <1>2 DEF ToSet
    <3> QED
      BY <3>1, <1>1, <1>2 DEF ToSet, IsInjective
  <2>2. ASSUME NEW x \in ToSet(q) \ {Head(q)} PROVE x \in ToSet(r)
    <3>1. PICK i \in 1 .. Len(q) : x = q[i] /\ i # 1
      BY <2>2, <1>1, <1>2 DEF ToSet
    <3>2. i - 1 \in 1 .. Len(r) /\ r[i - 1] = x
      BY <3>1, <1>1, <1>2
    <3> QED
      BY <3>2, <1>1, <1>2 DEF ToSet
  <2> QED
    BY <2>1, <2>2
<1>5. Head(q) \in ToSet(q)
  BY <1>1, <1>2 DEF ToSet
<1> QED
  BY <1>1, <1>3, <1>4, <1>5

LEMMA ExtractQueue ==
  ASSUME NEW S, NEW q \in Seq(S), IsInjective(q), NEW p \in ToSet(q)
  PROVE  /\ Extract(q, p) \in Seq(S) /\ Len(Extract(q, p)) = Len(q) - 1
         /\ IsInjective(Extract(q, p)) /\ ToSet(Extract(q, p)) = ToSet(q) \ {p}
<1> DEFINE k == CHOOSE i \in DOMAIN q : q[i] = p
           n == Len(q)
           u == SubSeq(q, 1, k - 1)
           v == SubSeq(q, k + 1, n)
           r == u \o v
<1>1. /\ n \in Nat /\ DOMAIN q = 1 .. n /\ \A i \in 1 .. n : q[i] \in S
  BY SeqFacts
<1>2. k \in 1 .. n /\ q[k] = p
  BY <1>1 DEF ToSet
<1>3. Extract(q, p) = r
  BY DEF Extract, RemoveAt
<1> HIDE DEF k
<1>4. u \in Seq(S) /\ Len(u) = k - 1 /\ \A i \in 1 .. k - 1 : u[i] = q[i]
  <2>1. \A i \in 1 .. k - 1 : q[i] \in S
    BY <1>1, <1>2
  <2> QED
    BY <2>1, <1>1, <1>2, SubSeqProperties
<1>5. v \in Seq(S) /\ Len(v) = n - k /\ \A i \in 1 .. n - k : v[i] = q[i + k]
  <2>1. \A i \in k + 1 .. n : q[i] \in S
    BY <1>1, <1>2
  <2>2. /\ v \in Seq(S) /\ Len(v) = IF k + 1 <= n THEN n - (k + 1) + 1 ELSE 0
        /\ \A i \in 1 .. n - (k + 1) + 1 : v[i] = q[k + 1 + i - 1]
    BY <2>1, <1>1, <1>2, SubSeqProperties
  <2> HIDE DEF v
  <2>3. Len(v) = n - k
    <3>0. n \in Int /\ k \in Int /\ k <= n
      BY <1>1, <1>2
    <3>1. CASE k + 1 <= n
      BY <3>1, <3>0, <2>2
    <3>2. CASE ~(k + 1 <= n)
      <4>1. Len(v) = 0
        BY <3>2, <2>2
      <4> QED
        BY <4>1, <3>2, <3>0
    <3> QED
      BY <3>1, <3>2
  <2>4. ASSUME NEW i \in 1 .. n - k PROVE v[i] = q[i + k]
    <3>1. i \in 1 .. n - (k + 1) + 1 /\ k + 1 + i - 1 = i + k
      BY <1>1, <1>2
    <3> QED
      BY <3>1, <2>2
  <2> QED
    BY <2>2, <2>3, <2>4
<1> HIDE DEF u, v
<1>6. /\ r \in Seq(S) /\ Len(r) = n - 1
      /\ \A i \in 1 .. n - 1 : r[i] = IF i < k THEN q[i] ELSE q[i + 1]
  <2>1. /\ r \in Seq(S) /\ Len(r) = Len(u) + Len(v)
        /\ \A i \in 1 .. Len(u) + Len(v) : r[i] = IF i <= Len(u) THEN u[i] ELSE v[i - Len(u)]
    BY <1>4, <1>5, ConcatProperties
  <2>2. Len(u) + Len(v) = n - 1
    BY <1>1, <1>2, <1>4, <1>5
  <2>3. ASSUME NEW i \in 1 .. n - 1 PROVE r[i] = IF i < k THEN q[i] ELSE q[i + 1]
    <3>1. CASE i < k
      BY <3>1, <2>1, <2>2, <1>1, <1>2, <1>4
    <3>2. CASE ~(i < k)
      <4>1. r[i] = v[i - (k - 1)] /\ i - (k - 1) \in 1 .. n - k
        BY <3>2, <2>1, <2>2, <1>1, <1>2, <1>4
      <4> QED
        BY <4>1, <3>2, <1>1, <1>2, <1>5
    <3> QED
      BY <3>1, <3>2
  <2> QED
    BY <2>1, <2>2, <2>3
<1> HIDE DEF r
<1>7. DOMAIN r = 1 .. n - 1
  BY <1>6, SeqFacts
<1>8. IsInjective(r)
  BY <1>1, <1>2, <1>6, <1>7 DEF IsInjective
<1>9. ToSet(r) = ToSet(q) \ {p}
  <2>1. ASSUME NEW x \in ToSet(r) PROVE x \in ToSet(q) \ {p}
    <3>1. PICK i \in 1 .. n : x = q[i] /\ i # k
      BY <2>1, <1>1, <1>2, <1>6, <1>7 DEF ToSet
    <3> QED
      BY <3>1, <1>1, <1>2 DEF ToSet, IsInjective
  <2>2. ASSUME NEW x \in ToSet(q) \ {p} PROVE x \in ToSet(r)
    <3>1. PICK i \in 1 .. n : x = q[i] /\ i # k
      BY <2>2, <1>1, <1>2 DEF ToSet
    <3>2. CASE i < k
      BY <3>1, <3>2, <1>1, <1>2, <1>6, <1>7 DEF ToSet
    <3>3. CASE i > k
      <4>1. i - 1 \in 1 .. n - 1 /\ r[i - 1] = x
        BY <3>1, <3>3, <1>1, <1>2, <1>6
      <4> QED
        BY <4>1, <1>7 DEF ToSet
    <3> QED
      BY <3>1, <3>2, <3>3, <1>1, <1>2
  <2> QED
    BY <2>1, <2>2
<1> QED
  BY <1>3, <1>6, <1>8, <1>9

LEMMA QueueLength ==
  ASSUME NEW S, NEW q \in Seq(S), IsInjective(q)
  PROVE  IsFiniteSet(ToSet(q)) /\ Cardinality(ToSet(q)) = Len(q)
<1>1. Len(q) \in Nat /\ DOMAIN q = 1 .. Len(q)
  BY SeqFacts
<1>2. q \in [1 .. Len(q) -> ToSet(q)]
  <2>1. q \in [1 .. Len(q) -> S]
    BY LenProperties
  <2> QED
    BY <2>1, <1>1 DEF ToSet
<1>3. q \in Bijection(1 .. Len(q), ToSet(q))
  BY <1>1, <1>2 DEF Bijection, Injection, Surjection, IsInjective, ToSet
<1>4. ExistsBijection(1 .. Len(q), ToSet(q))
  BY <1>3 DEF ExistsBijection
<1> QED
  BY <1>1, <1>4, FS_CountingElements, FS_NatBijection

-----------------------------------------------------------------------------
LEMMA QueueFacts ==
  ASSUME TypeOK, NEW s \in Semaphores
  PROVE  /\ waiting[s] \in Seq(Procs) /\ Len(waiting[s]) \in Nat
         /\ waiting[s] # <<>> <=> Len(waiting[s]) > 0
         /\ count[s] \in Int /\ phantom[s] \in Nat
BY SeqFacts DEF TypeOK

LEMMA GrantedFinite ==
  ASSUME TypeOK
  PROVE  IsFiniteSet(Granted) /\ Cardinality(Granted) \in Nat
BY KernelAssumption, FS_Subset, FS_CardinalityType DEF Granted

LEMMA InitIInv == Init => IInv
<1> SUFFICES ASSUME Init PROVE IInv
  OBVIOUS
<1>1. TypeOK
  BY KernelAssumption, EmptySeq DEF Init, TypeOK, Semaphores
<1>2. Granted = {} /\ \A s \in Semaphores : Len(waiting[s]) = 0 /\ waiting[s] = <<>>
  BY EmptySeq DEF Init, Granted
<1>3. Queues
  <2>1. \A s \in Semaphores : Waiters(s) = {}
    BY DEF Init, Waiters
  <2>2. \A s \in Semaphores : DOMAIN waiting[s] = {}
    BY <1>1, <1>2, SeqFacts DEF TypeOK
  <2> QED
    BY <2>1, <2>2 DEF Queues, IsInjective, ToSet
<1>4. UnitsCounted /\ NoIdleWait
  BY <1>2, FS_EmptySet, KernelAssumption DEF Init, UnitsCounted, NoIdleWait, Free, Semaphores
<1>5. Calls
  BY DEF Init, Calls
<1> QED
  BY <1>1, <1>3, <1>4, <1>5 DEF IInv

(* Neither the semaphores nor the waits change.                                 *)
LEMMA StaysStep ==
  ASSUME IInv, StaysPut,
         UNCHANGED <<resource, switching, calls, holds, granted, lost, phantom>>,
         suspended' \in [Procs -> BOOLEAN], aborted' \in [Procs -> BOOLEAN],
         killer' \in [Procs -> {"none", "tested", "marked", "done"}],
         \A p \in Procs : aborted[p] => aborted'[p],
         \A p \in Procs : killer'[p] \in {"tested", "marked"} => aborted'[p] \/ status[p] = "gone"
  PROVE  IInv'
<1>1. TypeOK'
  BY DEF IInv, TypeOK, StaysPut
<1>2. Queues' /\ NoIdleWait'
  BY DEF IInv, StaysPut, Queues, Waiters, NoIdleWait, Free
<1>3. UnitsCounted'
  BY DEF IInv, StaysPut, UnitsCounted, Free, Granted
<1>4. Calls'
  BY DEF IInv, StaysPut, Calls
<1> QED
  BY <1>1, <1>2, <1>3, <1>4 DEF IInv

(* A process is put to wait, one that was not waiting.                          *)
LEMMA WaitsLemma ==
  ASSUME IInv, NEW p \in Procs, NEW s \in Semaphores, NEW a \in BOOLEAN,
         status[p] = "PRUN", count[s] <= 0, Waits(p, s, a), UNCHANGED phantom
  PROVE  /\ count' \in [Semaphores -> Int] /\ waiting' \in [Semaphores -> Seq(Procs)]
         /\ Queues' /\ NoIdleWait'
         /\ \A x \in Semaphores : Free(x)' = Free(x)
<1> DEFINE q == waiting[s]
<1>1. /\ q \in Seq(Procs) /\ Len(q) \in Nat /\ count[s] \in Int /\ phantom[s] \in Nat
      /\ IsInjective(q) /\ ToSet(q) = Waiters(s) /\ (q # <<>> <=> Len(q) > 0)
  BY QueueFacts DEF IInv, Queues
<1>2. p \notin ToSet(q)
  BY <1>1 DEF Waiters
<1>3. /\ Append(q, p) \in Seq(Procs) /\ Len(Append(q, p)) = Len(q) + 1
      /\ Append(q, p) # <<>>
      /\ IsInjective(Append(q, p)) /\ ToSet(Append(q, p)) = ToSet(q) \cup {p}
  BY <1>1, <1>2, AppendQueue
<1>4. /\ waiting' = [waiting EXCEPT ![s] = Append(q, p)]
      /\ count' = [count EXCEPT ![s] = count[s] - 1]
      /\ waiting \in [Semaphores -> Seq(Procs)] /\ count \in [Semaphores -> Int]
  BY DEF Waits, IInv, TypeOK
<1>5. count' \in [Semaphores -> Int] /\ waiting' \in [Semaphores -> Seq(Procs)]
  BY <1>1, <1>3, <1>4
<1>6. Queues'
  <2> SUFFICES ASSUME NEW x \in Semaphores
               PROVE  IsInjective(waiting'[x]) /\ ToSet(waiting'[x]) = Waiters(x)'
    BY DEF Queues
  <2>1. CASE x = s
    <3>1. Waiters(s)' = Waiters(s) \cup {p}
      BY DEF Waits, Waiters, IInv, TypeOK
    <3> QED
      BY <2>1, <3>1, <1>1, <1>3, <1>4
  <2>2. CASE x # s
    <3>1. Waiters(x)' = Waiters(x) /\ waiting'[x] = waiting[x]
      BY <2>2, <1>4 DEF Waits, Waiters, IInv, TypeOK
    <3> QED
      BY <3>1 DEF IInv, Queues
  <2> QED
    BY <2>1, <2>2
<1>7. ASSUME NEW x \in Semaphores PROVE Free(x)' = Free(x)
  <2>1. CASE x = s
    BY <2>1, <1>1, <1>3, <1>4 DEF Free
  <2>2. CASE x # s
    BY <2>2, <1>4 DEF Free
  <2> QED
    BY <2>1, <2>2
<1>8. NoIdleWait'
  <2> SUFFICES ASSUME NEW x \in Semaphores
               PROVE  Free(x)' >= 0 /\ (waiting'[x] # <<>> /\ phantom'[x] = 0 => Free(x)' = 0)
    BY DEF NoIdleWait
  <2>1. Free(x) >= 0 /\ (waiting[x] # <<>> /\ phantom[x] = 0 => Free(x) = 0)
    BY DEF IInv, NoIdleWait
  <2>2. CASE x = s
    <3>1. q = <<>> => Free(s) <= 0
      BY <1>1 DEF Free
    <3>2. Free(s) \in Int
      BY <1>1 DEF Free
    <3> QED
      BY <2>1, <2>2, <3>1, <3>2, <1>7
  <2>3. CASE x # s
    BY <2>1, <2>3, <1>4, <1>7
  <2> QED
    BY <2>2, <2>3
<1> QED
  BY <1>5, <1>6, <1>7, <1>8

(* abort() of a process that waits, by whoever may call it.                      *)
LEMMA AbortStep ==
  ASSUME IInv, NEW p \in Procs, status[p] = "PWAIT", Abort(p),
         UNCHANGED <<resource, switching, calls, holds, granted, lost, phantom>>,
         suspended' \in [Procs -> BOOLEAN], aborted' \in [Procs -> BOOLEAN],
         killer' \in [Procs -> {"none", "tested", "marked", "done"}],
         \A r \in Procs : aborted[r] => aborted'[r],
         \A r \in Procs : killer'[r] \in {"tested", "marked"} => aborted'[r] \/ status[r] = "gone",
         alertable[p] \/ resource[p] = "SuspendEvent" \/ aborted'[p]
  PROVE  IInv'
<1>0. PICK s \in Semaphores : s = resource[p]
  BY DEF IInv, TypeOK
<1> DEFINE q == waiting[s]
<1>1. /\ q \in Seq(Procs) /\ Len(q) \in Nat /\ count[s] \in Int /\ phantom[s] \in Nat
      /\ IsInjective(q) /\ ToSet(q) = Waiters(s) /\ (q # <<>> <=> Len(q) > 0)
  BY QueueFacts DEF IInv, Queues
<1>2. p \in ToSet(q) /\ q # <<>>
  <2>1. p \in ToSet(q)
    BY <1>0, <1>1 DEF Waiters
  <2> QED
    BY <2>1, <1>1, SeqFacts DEF ToSet
<1>3. /\ Extract(q, p) \in Seq(Procs) /\ Len(Extract(q, p)) = Len(q) - 1
      /\ IsInjective(Extract(q, p)) /\ ToSet(Extract(q, p)) = ToSet(q) \ {p}
  BY <1>1, <1>2, ExtractQueue
<1>4. /\ waiting' = [waiting EXCEPT ![s] = Extract(q, p)]
      /\ count' = [count EXCEPT ![s] = count[s] + 1]
      /\ waiting \in [Semaphores -> Seq(Procs)] /\ count \in [Semaphores -> Int]
  BY <1>0 DEF Abort, IInv, TypeOK
<1>5. TypeOK'
  <2>1. count' \in [Semaphores -> Int] /\ waiting' \in [Semaphores -> Seq(Procs)]
    BY <1>1, <1>3, <1>4
  <2> QED
    BY <2>1 DEF Abort, IInv, TypeOK
<1>6. Queues'
  <2> SUFFICES ASSUME NEW x \in Semaphores
               PROVE  IsInjective(waiting'[x]) /\ ToSet(waiting'[x]) = Waiters(x)'
    BY DEF Queues
  <2>1. CASE x = s
    <3>1. Waiters(s)' = Waiters(s) \ {p}
      BY <1>0 DEF Abort, Waiters, IInv, TypeOK
    <3> QED
      BY <2>1, <3>1, <1>1, <1>3, <1>4
  <2>2. CASE x # s
    <3>1. Waiters(x)' = Waiters(x) /\ waiting'[x] = waiting[x]
      BY <2>2, <1>0, <1>4 DEF Abort, Waiters, IInv, TypeOK
    <3> QED
      BY <3>1 DEF IInv, Queues
  <2> QED
    BY <2>1, <2>2
<1>7. ASSUME NEW x \in Semaphores PROVE Free(x)' = Free(x)
  <2>1. CASE x = s
    <3>1. count'[s] = count[s] + 1 /\ Len(waiting'[s]) = Len(waiting[s]) - 1
      BY <1>3, <1>4
    <3>2. count[s] \in Int /\ Len(waiting[s]) \in Int
      BY <1>1
    <3>3. count'[s] + Len(waiting'[s]) = count[s] + Len(waiting[s])
      BY <3>1, <3>2
    <3> QED
      BY <2>1, <3>3 DEF Free
  <2>2. CASE x # s
    BY <2>2, <1>4 DEF Free
  <2> QED
    BY <2>1, <2>2
<1>8. NoIdleWait'
  BY <1>1, <1>2, <1>4, <1>7 DEF IInv, NoIdleWait
<1>9. UnitsCounted'
  BY <1>7 DEF IInv, UnitsCounted, Granted, Semaphores
<1>10. Calls'
  <2> SUFFICES ASSUME NEW r \in Procs PROVE Calls!(r)'
    BY DEF Calls
  <2>1. Calls!(r)
    BY DEF IInv, Calls
  <2>2. CASE r # p
    BY <2>1, <2>2 DEF Abort, IInv, TypeOK
  <2>3. CASE r = p
    <3>1. /\ status'[p] = "PRUN" /\ ~alertable'[p] /\ (aborted[p] => aborted'[p])
          /\ killer'[p] \in {"tested", "marked"} => aborted'[p] \/ status[p] = "gone"
      BY DEF Abort, IInv, TypeOK
    <3> QED
      BY <2>1, <2>3, <3>1 DEF IInv, TypeOK, Semaphores
  <2> QED
    BY <2>2, <2>3
<1> QED
  BY <1>5, <1>6, <1>8, <1>9, <1>10 DEF IInv

-----------------------------------------------------------------------------
LEMMA DownNowaitStep ==
  ASSUME IInv, NEW p \in Procs, DownNowait(p)
  PROVE  IInv'
<1>1. /\ status[p] = "PRUN" /\ ~switching[p] /\ ~holds[p] /\ count["resource"] > 0
      /\ count' = [count EXCEPT !["resource"] = count["resource"] - 1]
      /\ holds' = [holds EXCEPT ![p] = TRUE] /\ granted' = [granted EXCEPT ![p] = TRUE]
      /\ UNCHANGED <<waiting, status, alertable, resource, suspended, aborted, switching,
                     calls, lost, killer, phantom>>
  BY DEF DownNowait, Executes, NoKill
<1>2. TypeOK'
  BY <1>1 DEF IInv, TypeOK, Semaphores
<1>3. Queues'
  BY <1>1 DEF IInv, Queues, Waiters
<1>4. calls[p] = {} /\ ~granted[p]
  BY <1>1 DEF IInv, Calls
<1>5. ASSUME NEW s \in Semaphores
      PROVE  Free(s)' = IF s = "resource" THEN Free(s) - 1 ELSE Free(s)
  BY <1>1, QueueFacts DEF IInv, TypeOK, Free
<1>6. UnitsCounted'
  <2>1. Granted' = Granted \cup {p} /\ p \notin Granted
    BY <1>1, <1>4 DEF IInv, TypeOK, Granted
  <2>2. Cardinality(Granted') = Cardinality(Granted) + 1 /\ Cardinality(Granted) \in Nat
    BY <2>1, GrantedFinite, FS_AddElement DEF IInv
  <2>3. /\ Free("resource") \in Int /\ lost \in Nat /\ phantom["resource"] \in Nat
        /\ Free("resource")' = Free("resource") - 1
    BY <1>5, QueueFacts DEF IInv, TypeOK, Free, Semaphores
  <2> QED
    BY <1>1, <2>2, <2>3, KernelAssumption DEF IInv, UnitsCounted
<1>7. NoIdleWait'
  <2> SUFFICES ASSUME NEW s \in Semaphores
               PROVE  Free(s)' >= 0 /\ (waiting'[s] # <<>> /\ phantom'[s] = 0 => Free(s)' = 0)
    BY DEF NoIdleWait
  <2>1. Free(s) >= 0 /\ (waiting[s] # <<>> /\ phantom[s] = 0 => Free(s) = 0)
    BY DEF IInv, NoIdleWait
  <2>2. Free(s) = count[s] + Len(waiting[s]) /\ count[s] \in Int /\ Len(waiting[s]) \in Nat
    BY QueueFacts DEF Free, IInv
  <2>3. CASE s = "resource"
    BY <2>1, <2>2, <2>3, <1>1, <1>5
  <2>4. CASE s # "resource"
    BY <2>1, <2>4, <1>1, <1>5
  <2> QED
    BY <2>3, <2>4
<1>8. Calls'
  BY <1>1, <1>4 DEF IInv, TypeOK, Calls
<1> QED
  BY <1>2, <1>3, <1>6, <1>7, <1>8 DEF IInv

LEMMA DownStep ==
  ASSUME IInv, NEW p \in Procs, NEW a \in BOOLEAN, Down(p, a)
  PROVE  IInv'
<1>0. /\ Executes(p) /\ ~holds[p] /\ UNCHANGED <<suspended, aborted, lost, killer, phantom>>
      /\ "resource" \in Semaphores
  BY DEF Down, NoKill, Semaphores
<1>1. CASE /\ count["resource"] <= 0 /\ Waits(p, "resource", a)
           /\ calls' = [calls EXCEPT ![p] = {a}] /\ UNCHANGED <<holds, granted>>
  <2>1. /\ count' \in [Semaphores -> Int] /\ waiting' \in [Semaphores -> Seq(Procs)]
        /\ Queues' /\ NoIdleWait'
        /\ \A x \in Semaphores : Free(x)' = Free(x)
    BY <1>0, <1>1, WaitsLemma DEF Executes
  <2>2. TypeOK'
    BY <1>0, <1>1, <2>1 DEF Waits, IInv, TypeOK
  <2>3. UnitsCounted'
    BY <1>0, <1>1, <2>1 DEF IInv, UnitsCounted, Granted
  <2>4. Calls'
    <3> SUFFICES ASSUME NEW r \in Procs PROVE Calls!(r)'
      BY DEF Calls
    <3>1. Calls!(r) /\ Calls!(p)
      BY DEF IInv, Calls
    <3>2. CASE r # p
      BY <3>1, <3>2, <1>0, <1>1 DEF Waits, IInv, TypeOK
    <3>3. CASE r = p
      <4>1. /\ status'[p] = "PWAIT" /\ alertable'[p] = a /\ resource'[p] = "resource"
            /\ switching'[p] /\ calls'[p] = {a} /\ ~granted[p]
        BY <1>0, <1>1, <3>1 DEF Executes, Waits, IInv, TypeOK
      <4> QED
        BY <3>1, <3>3, <4>1, <1>0, <1>1 DEF Executes
    <3> QED
      BY <3>2, <3>3
  <2> QED
    BY <2>1, <2>2, <2>3, <2>4 DEF IInv
<1>2. CASE DownNowait(p)
  BY <1>2, DownNowaitStep
<1> QED
  BY <1>1, <1>2 DEF Down, DownNowait

LEMMA UpStep ==
  ASSUME IInv, NEW p \in Procs, Up(p)
  PROVE  IInv'
<1> DEFINE w == waiting["resource"]
           q == Head(w)
<1>0. "resource" \in Semaphores
  BY DEF Semaphores
<1>1. /\ status[p] = "PRUN" /\ ~switching[p] /\ holds[p]
      /\ holds' = [holds EXCEPT ![p] = FALSE]
      /\ count' = [count EXCEPT !["resource"] = count["resource"] + 1]
      /\ UNCHANGED <<alertable, resource, suspended, aborted, switching, calls, lost,
                     killer, phantom>>
  BY DEF Up, Executes, NoKill
<1>2. calls[p] = {} /\ granted[p]
  BY <1>1 DEF IInv, Calls
<1>3. /\ w \in Seq(Procs) /\ Len(w) \in Nat /\ (w # <<>> <=> Len(w) > 0)
      /\ IsInjective(w) /\ ToSet(w) = Waiters("resource")
      /\ count["resource"] \in Int /\ phantom["resource"] \in Nat /\ lost \in Nat
  BY <1>0, QueueFacts DEF IInv, Queues, TypeOK
<1>4. /\ IsFiniteSet(Granted) /\ Cardinality(Granted) \in Nat
      /\ IsFiniteSet(Granted \ {p}) /\ Cardinality(Granted \ {p}) = Cardinality(Granted) - 1
  BY <1>2, GrantedFinite, FS_RemoveElement DEF IInv, Granted
<1>5. Free("resource") >= 0 /\ (w # <<>> /\ phantom["resource"] = 0 => Free("resource") = 0)
  BY <1>0 DEF IInv, NoIdleWait
<1>6. CASE count["resource"] < 0
  <2>1. /\ waiting' = [waiting EXCEPT !["resource"] = Tail(w)]
        /\ status' = [status EXCEPT ![q] = "PRUN"]
        /\ granted' = [granted EXCEPT ![p] = FALSE, ![q] = TRUE]
    BY <1>6, <1>3 DEF Up
  <2>2. w # <<>>
    BY <1>3, <1>5, <1>6 DEF Free
  <2>3. /\ q \in Procs /\ q \in ToSet(w)
        /\ Tail(w) \in Seq(Procs) /\ Len(Tail(w)) = Len(w) - 1
        /\ IsInjective(Tail(w)) /\ ToSet(Tail(w)) = ToSet(w) \ {q}
    BY <2>2, <1>3, TailQueue
  <2> HIDE DEF q
  <2>4. /\ status[q] = "PWAIT" /\ resource[q] = "resource" /\ q # p /\ ~granted[q]
        /\ calls[q] # {} /\ (calls[q] = {alertable[q]} \/ aborted[q]) /\ switching[q]
    BY <2>3, <1>1, <1>3 DEF Waiters, IInv, Calls
  <2>5. TypeOK'
    <3>1. count' \in [Semaphores -> Int] /\ waiting' \in [Semaphores -> Seq(Procs)]
      BY <2>1, <2>3, <1>0, <1>1, <1>3 DEF IInv, TypeOK
    <3>2. status' \in [Procs -> {"PRUN", "PWAIT", "gone"}] /\ granted' \in [Procs -> BOOLEAN]
      BY <2>1 DEF IInv, TypeOK
    <3> QED
      BY <3>1, <3>2, <1>1 DEF IInv, TypeOK
  <2>6. Queues'
    <3> SUFFICES ASSUME NEW x \in Semaphores
                 PROVE  IsInjective(waiting'[x]) /\ ToSet(waiting'[x]) = Waiters(x)'
      BY DEF Queues
    <3>1. CASE x = "resource"
      <4>1. Waiters("resource")' = Waiters("resource") \ {q}
        BY <2>1, <2>4, <1>1 DEF Waiters, IInv, TypeOK
      <4>2. waiting'["resource"] = Tail(w)
        BY <2>1, <1>0 DEF IInv, TypeOK
      <4> QED
        BY <3>1, <4>1, <4>2, <2>3, <1>3
    <3>2. CASE x # "resource"
      <4>1. Waiters(x)' = Waiters(x) /\ waiting'[x] = waiting[x]
        BY <3>2, <2>1, <2>4, <1>1 DEF Waiters, IInv, TypeOK
      <4> QED
        BY <4>1 DEF IInv, Queues
    <3> QED
      BY <3>1, <3>2
  <2>7. ASSUME NEW x \in Semaphores PROVE Free(x)' = Free(x)
    <3>1. CASE x = "resource"
      <4>1. count'[x] = count[x] + 1 /\ Len(waiting'[x]) = Len(waiting[x]) - 1
        BY <3>1, <2>1, <2>3, <1>0, <1>1 DEF IInv, TypeOK
      <4> QED
        BY <3>1, <4>1, <1>3 DEF Free
    <3>2. CASE x # "resource"
      BY <3>2, <2>1, <1>1 DEF Free, IInv, TypeOK
    <3> QED
      BY <3>1, <3>2
  <2>8. UnitsCounted'
    <3>1. Granted' = (Granted \ {p}) \cup {q} /\ q \notin Granted \ {p}
      BY <2>1, <2>3, <2>4 DEF Granted, IInv, TypeOK
    <3>2. Cardinality(Granted') = Cardinality(Granted)
      <4> DEFINE G == Granted \ {p}
      <4>1. Cardinality(G \cup {q}) = Cardinality(G) + 1
        BY <3>1, <1>4, FS_AddElement
      <4> QED
        BY <4>1, <3>1, <1>4
    <3> QED
      BY <3>2, <2>7, <1>0, <1>1 DEF IInv, UnitsCounted
  <2>9. NoIdleWait'
    BY <2>1, <2>2, <2>7, <1>1 DEF IInv, NoIdleWait, TypeOK
  <2>10. Calls'
    <3> SUFFICES ASSUME NEW r \in Procs PROVE Calls!(r)'
      BY DEF Calls
    <3>1. Calls!(r)
      BY DEF IInv, Calls
    <3>2. CASE r # p /\ r # q
      BY <3>1, <3>2, <2>1, <1>1 DEF IInv, TypeOK
    <3>3. CASE r = p
      BY <3>1, <3>3, <2>1, <2>4, <1>1, <1>2 DEF IInv, TypeOK
    <3>4. CASE r = q
      BY <3>1, <3>4, <2>1, <2>3, <2>4, <1>1 DEF IInv, TypeOK
    <3> QED
      BY <3>2, <3>3, <3>4
  <2> QED
    BY <2>5, <2>6, <2>8, <2>9, <2>10 DEF IInv
<1>7. CASE count["resource"] >= 0
  <2>1. granted' = [granted EXCEPT ![p] = FALSE] /\ UNCHANGED <<waiting, status>>
    BY <1>7, <1>3 DEF Up
  <2>2. TypeOK' /\ Queues'
    <3>1. TypeOK'
      BY <2>1, <1>0, <1>1 DEF IInv, TypeOK
    <3> QED
      BY <3>1, <2>1, <1>1 DEF IInv, Queues, Waiters
  <2>3. /\ Free("resource")' = Free("resource") + 1 /\ Free("resource") \in Int
        /\ Free("SuspendEvent")' = Free("SuspendEvent")
    <3>1. /\ count'["resource"] = count["resource"] + 1
          /\ count'["SuspendEvent"] = count["SuspendEvent"]
      BY <1>1 DEF IInv, TypeOK, Semaphores
    <3> HIDE DEF q
    <3> QED
      BY <3>1, <2>1, <1>3 DEF Free
  <2>4. UnitsCounted'
    <3>1. Granted' = Granted \ {p}
      BY <2>1 DEF Granted, IInv, TypeOK
    <3> QED
      BY <3>1, <2>3, <1>1, <1>3, <1>4, KernelAssumption DEF IInv, UnitsCounted
  <2>5. NoIdleWait'
    <3>1. waiting["resource"] # <<>> => phantom["resource"] # 0
      BY <1>3, <1>5, <1>7 DEF Free
    <3> QED
      BY <3>1, <2>1, <2>3, <1>1, <1>5 DEF IInv, NoIdleWait, Semaphores
  <2>6. Calls'
    BY <2>1, <1>1, <1>2 DEF IInv, TypeOK, Calls
  <2> QED
    BY <2>2, <2>4, <2>5, <2>6 DEF IInv
<1> QED
  BY <1>3, <1>6, <1>7

LEMMA KillMarksStep ==
  ASSUME IInv, NEW p \in Procs, KillMarks(p)
  PROVE  IInv'
<1>1. /\ killer' = [killer EXCEPT ![p] = "marked"]
      /\ alertable' = [alertable EXCEPT ![p] = TRUE]
      /\ UNCHANGED <<count, waiting, status, resource, suspended, aborted, switching, calls,
                     holds, granted, lost, phantom>>
      /\ aborted[p] \/ status[p] = "gone"
  BY DEF KillMarks, IInv, Calls
<1>2. TypeOK'
  BY <1>1 DEF IInv, TypeOK
<1>3. Queues' /\ NoIdleWait'
  BY <1>1 DEF IInv, Queues, Waiters, NoIdleWait, Free
<1>4. UnitsCounted'
  BY <1>1 DEF IInv, UnitsCounted, Free, Granted
<1>5. Calls'
  BY <1>1 DEF IInv, TypeOK, Calls
<1> QED
  BY <1>2, <1>3, <1>4, <1>5 DEF IInv

LEMMA KillAbortsStep ==
  ASSUME IInv, NEW p \in Procs, KillAborts(p)
  PROVE  IInv'
<1>1. /\ killer' = [killer EXCEPT ![p] = "done"]
      /\ UNCHANGED <<resource, suspended, aborted, switching, calls, holds, granted, lost>>
      /\ aborted[p] \/ status[p] = "gone"
      /\ \A r \in Procs : killer'[r] \in {"tested", "marked"} => aborted'[r] \/ status[r] = "gone"
  BY DEF KillAborts, IInv, TypeOK, Calls
<1>0. CASE ~alertable[p]
  BY <1>0, <1>1, StaysStep DEF KillAborts, IInv, TypeOK
<1>2. CASE alertable[p] /\ status[p] = "PWAIT"
  <2>1. Abort(p) /\ UNCHANGED phantom
    BY <1>2 DEF KillAborts
  <2> QED
    BY <2>1, <1>1, <1>2, AbortStep DEF IInv, TypeOK
<1>3. CASE alertable[p] /\ status[p] # "PWAIT"
  <2>0. PICK s \in Semaphores : s = resource[p]
    BY DEF IInv, TypeOK
  <2>1. /\ count' = [count EXCEPT ![s] = count[s] + 1]
        /\ phantom' = [phantom EXCEPT ![s] = phantom[s] + 1]
        /\ alertable' = [alertable EXCEPT ![p] = FALSE]
        /\ UNCHANGED <<waiting, status>>
    BY <2>0, <1>3 DEF KillAborts
  <2>2. TypeOK'
    BY <2>1, <1>1 DEF IInv, TypeOK
  <2>3. Queues'
    BY <2>1, <1>1 DEF IInv, Queues, Waiters
  <2>4. ASSUME NEW x \in Semaphores
        PROVE  /\ Free(x) \in Int /\ phantom[x] \in Nat
               /\ Free(x)' = IF x = s THEN Free(x) + 1 ELSE Free(x)
               /\ phantom'[x] = IF x = s THEN phantom[x] + 1 ELSE phantom[x]
    <3>1. count[x] \in Int /\ Len(waiting[x]) \in Nat /\ phantom[x] \in Nat
      BY QueueFacts DEF IInv
    <3>2. /\ count'[x] = IF x = s THEN count[x] + 1 ELSE count[x]
          /\ phantom'[x] = IF x = s THEN phantom[x] + 1 ELSE phantom[x]
      BY <2>1 DEF IInv, TypeOK
    <3> QED
      BY <3>1, <3>2, <2>1 DEF Free
  <2>5. UnitsCounted'
    <3>1. Granted' = Granted /\ lost' = lost /\ Cardinality(Granted) \in Nat /\ lost \in Nat
      BY <1>1, GrantedFinite DEF Granted, IInv, TypeOK
    <3>2. "resource" \in Semaphores
      BY DEF Semaphores
    <3> QED
      BY <3>1, <3>2, <2>4, KernelAssumption DEF IInv, UnitsCounted
  <2>6. NoIdleWait'
    BY <2>1, <2>4 DEF IInv, NoIdleWait
  <2>7. Calls'
    BY <2>1, <1>1, <1>3 DEF IInv, TypeOK, Calls
  <2> QED
    BY <2>2, <2>3, <2>5, <2>6, <2>7 DEF IInv
<1> QED
  BY <1>0, <1>2, <1>3

LEMMA DisturbStep ==
  ASSUME IInv,
         \/ Startle
         \/ \E p \in Procs : Alert(p) \/ Suspend(p) \/ Resume(p) \/ PurgeProcess(p) \/ KillTests(p)
  PROVE  IInv'
<1> USE DEF Elsewhere, NoKill
<1>0. \A r \in Procs : killer[r] \in {"tested", "marked"} => aborted[r] \/ status[r] = "gone"
  BY DEF IInv, Calls
<1>1. CASE Startle
  <2> DEFINE p == Head(waiting["resource"])
  <2>0. "resource" \in Semaphores
    BY DEF Semaphores
  <2>1. waiting["resource"] # <<>>
    BY <1>1, <2>0, QueueFacts DEF Startle, IInv, NoIdleWait, Free
  <2>2. p \in Procs /\ p \in ToSet(waiting["resource"])
    BY <2>0, <2>1, TailQueue DEF IInv, TypeOK, Queues
  <2>3. status[p] = "PWAIT"
    BY <2>0, <2>2 DEF IInv, Queues, Waiters
  <2> QED
    BY <1>0, <1>1, <2>2, <2>3, AbortStep DEF Startle, IInv, TypeOK
<1>2. ASSUME NEW p \in Procs, Alert(p) PROVE IInv'
  BY <1>0, <1>2, AbortStep DEF Alert, IInv, TypeOK
<1>3. ASSUME NEW p \in Procs, Suspend(p) PROVE IInv'
  BY <1>0, <1>3, StaysStep DEF Suspend, IInv, TypeOK
<1>4. ASSUME NEW p \in Procs, Resume(p) PROVE IInv'
  <2>1. CASE status[p] = "PWAIT" /\ resource[p] = "SuspendEvent"
    BY <1>0, <1>4, <2>1, AbortStep DEF Resume, IInv, TypeOK
  <2>2. CASE ~(status[p] = "PWAIT" /\ resource[p] = "SuspendEvent")
    BY <1>0, <1>4, <2>2, StaysStep DEF Resume, IInv, TypeOK
  <2> QED
    BY <2>1, <2>2
<1>5. ASSUME NEW p \in Procs, PurgeProcess(p) PROVE IInv'
  <2>1. aborted' = [aborted EXCEPT ![p] = TRUE]
    BY <1>5 DEF PurgeProcess
  <2>2. aborted'[p] /\ \A r \in Procs : aborted[r] => aborted'[r]
    BY <2>1 DEF IInv, TypeOK
  <2>3. CASE status[p] = "PWAIT"
    BY <1>0, <1>5, <2>2, <2>3, AbortStep DEF PurgeProcess, IInv, TypeOK
  <2>4. CASE status[p] # "PWAIT"
    BY <1>0, <1>5, <2>2, <2>4, StaysStep DEF PurgeProcess, IInv, TypeOK
  <2> QED
    BY <2>3, <2>4
<1>6. ASSUME NEW p \in Procs, KillTests(p) PROVE IInv'
  <2>1. /\ aborted' = [aborted EXCEPT ![p] = TRUE]
        /\ killer' = [killer EXCEPT ![p] = IF status[p] = "PWAIT" THEN "tested" ELSE "done"]
    BY <1>6 DEF KillTests
  <2>2. /\ \A r \in Procs : aborted[r] => aborted'[r]
        /\ \A r \in Procs : killer'[r] \in {"tested", "marked"} => aborted'[r] \/ status[r] = "gone"
    BY <1>0, <2>1 DEF IInv, TypeOK
  <2>3. killer' \in [Procs -> {"none", "tested", "marked", "done"}]
    BY <2>1 DEF IInv, TypeOK
  <2> QED
    BY <1>6, <2>2, <2>3, StaysStep DEF KillTests, IInv, TypeOK
<1> QED
  BY <1>1, <1>2, <1>3, <1>4, <1>5, <1>6

LEMMA PreemptStep ==
  ASSUME IInv, NEW p \in Procs, Preempt(p)
  PROVE  IInv'
<1> USE DEF Preempt, Executes, NoKill
<1>1. TypeOK'
  BY DEF IInv, TypeOK
<1>2. Queues' /\ NoIdleWait'
  BY DEF IInv, Queues, Waiters, NoIdleWait, Free
<1>3. UnitsCounted'
  BY DEF IInv, UnitsCounted, Free, Granted
<1>4. Calls'
  BY DEF IInv, TypeOK, Calls
<1> QED
  BY <1>1, <1>2, <1>3, <1>4 DEF IInv

LEMMA SwitchSuspendedStep ==
  ASSUME IInv, NEW p \in Procs, SwitchSuspended(p)
  PROVE  IInv'
<1>0. /\ status[p] = "PRUN" /\ switching[p] /\ count["SuspendEvent"] <= 0
      /\ Waits(p, "SuspendEvent", FALSE)
      /\ UNCHANGED <<suspended, aborted, calls, holds, granted, lost, killer, phantom>>
      /\ "SuspendEvent" \in Semaphores /\ "resource" \in Semaphores
  BY DEF SwitchSuspended, NoKill, Semaphores
<1>1. /\ count' \in [Semaphores -> Int] /\ waiting' \in [Semaphores -> Seq(Procs)]
      /\ Queues' /\ NoIdleWait'
      /\ \A x \in Semaphores : Free(x)' = Free(x)
  BY <1>0, WaitsLemma
<1>2. TypeOK'
  BY <1>0, <1>1 DEF Waits, IInv, TypeOK
<1>3. UnitsCounted'
  BY <1>0, <1>1 DEF IInv, UnitsCounted, Granted
<1>4. Calls'
  <2> SUFFICES ASSUME NEW r \in Procs PROVE Calls!(r)'
    BY DEF Calls
  <2>1. Calls!(r)
    BY DEF IInv, Calls
  <2>2. CASE r # p
    BY <2>1, <2>2, <1>0 DEF Waits, IInv, TypeOK
  <2>3. CASE r = p
    <3>1. /\ status'[p] = "PWAIT" /\ ~alertable'[p] /\ resource'[p] = "SuspendEvent"
          /\ switching'[p]
      BY <1>0 DEF Waits, IInv, TypeOK
    <3> QED
      BY <2>1, <2>3, <3>1, <1>0
  <2> QED
    BY <2>2, <2>3
<1> QED
  BY <1>1, <1>2, <1>3, <1>4 DEF IInv

(* What a process takes from SuspendEvent on its way leaves nobody waiting.       *)
LEMMA PassesLemma ==
  ASSUME IInv, NEW p \in Procs, Passes(p), UNCHANGED <<waiting, phantom>>
  PROVE  /\ count' \in [Semaphores -> Int] /\ NoIdleWait'
         /\ Free("resource")' = Free("resource")
<1>1. /\ suspended[p] => count["SuspendEvent"] > 0
      /\ count' = [count EXCEPT !["SuspendEvent"] =
                      IF suspended[p] THEN count["SuspendEvent"] - 1 ELSE count["SuspendEvent"]]
  BY DEF Passes
<1>2. \A s \in Semaphores : count[s] \in Int /\ Len(waiting[s]) \in Nat
  BY QueueFacts DEF IInv
<1>3. count' \in [Semaphores -> Int] /\ count'["resource"] = count["resource"]
  BY <1>1, <1>2 DEF IInv, TypeOK, Semaphores
<1>4. NoIdleWait'
  <2> SUFFICES ASSUME NEW s \in Semaphores
               PROVE  Free(s)' >= 0 /\ (waiting'[s] # <<>> /\ phantom'[s] = 0 => Free(s)' = 0)
    BY DEF NoIdleWait
  <2>1. Free(s) >= 0 /\ (waiting[s] # <<>> /\ phantom[s] = 0 => Free(s) = 0)
    BY DEF IInv, NoIdleWait
  <2>2. \/ count'[s] = count[s]
        \/ count[s] > 0 /\ count'[s] = count[s] - 1
    BY <1>1 DEF IInv, TypeOK
  <2> QED
    BY <2>1, <2>2, <1>2 DEF Free
<1> QED
  BY <1>3, <1>4 DEF Free

LEMMA SwitchAbortedStep ==
  ASSUME IInv, NEW p \in Procs, SwitchAborted(p)
  PROVE  IInv'
<1>0. /\ status[p] = "PRUN" /\ Passes(p)
      /\ aborted' = [aborted EXCEPT ![p] = FALSE] /\ status' = [status EXCEPT ![p] = "gone"]
      /\ UNCHANGED <<waiting, alertable, resource, suspended, switching, calls, holds,
                     granted, lost, killer, phantom>>
  BY DEF SwitchAborted, Passes, NoKill
<1>1. /\ count' \in [Semaphores -> Int] /\ NoIdleWait'
      /\ Free("resource")' = Free("resource")
  BY <1>0, PassesLemma
<1>2. TypeOK'
  BY <1>0, <1>1 DEF IInv, TypeOK
<1>3. Queues'
  <2>1. \A s \in Semaphores : Waiters(s)' = Waiters(s)
    BY <1>0 DEF IInv, TypeOK, Waiters
  <2> QED
    BY <2>1, <1>0 DEF IInv, Queues
<1>4. UnitsCounted'
  BY <1>0, <1>1 DEF IInv, UnitsCounted, Granted
<1>5. Calls'
  BY <1>0 DEF IInv, TypeOK, Calls
<1> QED
  BY <1>1, <1>2, <1>3, <1>4, <1>5 DEF IInv

(* The end of a down(): what the flag tells the process.                        *)
LEMMA ToldLemma ==
  ASSUME IInv, NEW p \in Procs, SwitchEnds(p), calls[p] # {}
  PROVE  /\ holds'[p] => granted[p]
         /\ granted[p] /\ ~holds'[p] => resource[p] = "SuspendEvent"
<1>1. /\ status[p] = "PRUN" /\ ~aborted[p]
      /\ holds' = [holds EXCEPT ![p] = (calls[p] = {alertable[p]})]
  BY DEF SwitchEnds, Passes
<1>2. holds'[p] = (calls[p] = {alertable[p]})
  BY <1>1 DEF IInv, TypeOK
<1>3. /\ ~granted[p] => calls[p] = {TRUE} /\ ~alertable[p]
      /\ granted[p] /\ resource[p] = "resource" => calls[p] = {alertable[p]}
  BY <1>1 DEF IInv, Calls
<1>4. resource[p] \in {"resource", "SuspendEvent"} /\ alertable[p] \in BOOLEAN
  BY DEF IInv, TypeOK, Semaphores
<1> QED
  BY <1>2, <1>3, <1>4

LEMMA SwitchEndsStep ==
  ASSUME IInv, NEW p \in Procs, SwitchEnds(p)
  PROVE  IInv'
<1> DEFINE told == calls[p] = {alertable[p]}
<1>0. /\ status[p] = "PRUN" /\ Passes(p) /\ ~aborted[p]
      /\ switching' = [switching EXCEPT ![p] = FALSE] /\ calls' = [calls EXCEPT ![p] = {}]
      /\ UNCHANGED <<waiting, status, alertable, resource, suspended, aborted, killer, phantom>>
  BY DEF SwitchEnds, Passes, NoKill
<1>1. /\ count' \in [Semaphores -> Int] /\ NoIdleWait'
      /\ Free("resource")' = Free("resource")
  BY <1>0, PassesLemma
<1>2. Queues'
  BY <1>0 DEF IInv, Queues, Waiters
<1>3. CASE calls[p] = {}
  <2>1. UNCHANGED <<holds, granted, lost>>
    BY <1>3 DEF SwitchEnds
  <2>2. TypeOK'
    BY <2>1, <1>0, <1>1 DEF IInv, TypeOK
  <2>3. UnitsCounted'
    BY <2>1, <1>0, <1>1 DEF IInv, UnitsCounted, Granted
  <2>4. Calls'
    BY <2>1, <1>0, <1>3 DEF IInv, TypeOK, Calls
  <2> QED
    BY <2>2, <2>3, <2>4, <1>1, <1>2 DEF IInv
<1>4. CASE calls[p] # {}
  <2>1. /\ holds' = [holds EXCEPT ![p] = told]
        /\ granted' = [granted EXCEPT ![p] = granted[p] /\ told]
        /\ lost' = IF granted[p] /\ ~told THEN lost + 1 ELSE lost
    BY <1>4 DEF SwitchEnds
  <2>2. told \in BOOLEAN /\ granted[p] \in BOOLEAN /\ holds'[p] = told /\ lost \in Nat
    BY <2>1 DEF IInv, TypeOK
  <2>3. told => granted[p]
    BY <2>2, <1>4, ToldLemma
  <2> HIDE DEF told
  <2>4. granted' = [granted EXCEPT ![p] = told]
    BY <2>1, <2>2, <2>3 DEF IInv, TypeOK
  <2>5. TypeOK'
    BY <2>1, <2>2, <2>4, <1>0, <1>1 DEF IInv, TypeOK
  <2>6. UnitsCounted'
    <3>1. CASE granted[p] /\ ~told
      <4>1. Granted' = Granted \ {p} /\ p \in Granted
        BY <3>1, <2>4 DEF Granted, IInv, TypeOK
      <4>2. Cardinality(Granted') = Cardinality(Granted) - 1 /\ Cardinality(Granted) \in Nat
        BY <4>1, GrantedFinite, FS_RemoveElement DEF IInv
      <4>3. lost' = lost + 1 /\ Free("resource")' = Free("resource") /\ phantom' = phantom
        BY <3>1, <2>1, <1>0, <1>1
      <4>4. phantom["resource"] \in Nat
        BY DEF IInv, TypeOK, Semaphores
      <4> QED
        BY <4>2, <4>3, <4>4, <2>2, KernelAssumption DEF IInv, UnitsCounted
    <3>2. CASE ~(granted[p] /\ ~told)
      <4>1. Granted' = Granted
        BY <3>2, <2>2, <2>3, <2>4 DEF Granted, IInv, TypeOK
      <4>2. lost' = lost
        BY <3>2, <2>1
      <4> QED
        BY <4>1, <4>2, <1>0, <1>1 DEF IInv, UnitsCounted
    <3> QED
      BY <3>1, <3>2
  <2>7. Calls'
    BY <2>1, <2>2, <2>4, <1>0 DEF IInv, TypeOK, Calls
  <2> QED
    BY <2>5, <2>6, <2>7, <1>1, <1>2 DEF IInv
<1> QED
  BY <1>3, <1>4

LEMMA NextIInv == IInv /\ [Next]_vars => IInv'
<1> SUFFICES ASSUME IInv, [Next]_vars PROVE IInv'
  OBVIOUS
<1>1. CASE UNCHANGED vars
  BY <1>1 DEF vars, IInv, TypeOK, Queues, Waiters, UnitsCounted, Free, Granted, NoIdleWait, Calls
<1>2. CASE Startle
  BY <1>2, DisturbStep
<1>3. ASSUME NEW p \in Procs,
             \/ Alert(p) \/ Suspend(p) \/ Resume(p) \/ PurgeProcess(p) \/ KillTests(p)
      PROVE  IInv'
  BY <1>3, DisturbStep
<1>4. ASSUME NEW p \in Procs, \E a \in BOOLEAN : Down(p, a) PROVE IInv'
  BY <1>4, DownStep
<1>5. ASSUME NEW p \in Procs,
             \/ DownNowait(p) \/ Up(p) \/ KillMarks(p) \/ KillAborts(p) \/ Preempt(p)
             \/ SwitchSuspended(p) \/ SwitchAborted(p) \/ SwitchEnds(p)
      PROVE  IInv'
  BY <1>5, DownNowaitStep, UpStep, KillMarksStep, KillAbortsStep, PreemptStep, SwitchSuspendedStep,
     SwitchAbortedStep, SwitchEndsStep
<1> QED
  BY <1>1, <1>2, <1>3, <1>4, <1>5 DEF Next

LEMMA Invariance == Spec => []IInv
BY InitIInv, NextIInv, PTL DEF Spec

-----------------------------------------------------------------------------
(* Nothing is lost or handed out twice: the units and the queues agree with the   *)
(* counts that down(), up() and abort() keep, however waits are suspended,         *)
(* alerted and aborted.                                                          *)
THEOREM UnitsSafety == Spec => []UnitsAccounted
<1>1. IInv => UnitsAccounted
  <2> SUFFICES ASSUME IInv PROVE UnitsAccounted
    OBVIOUS
  <2>1. ASSUME NEW s \in Semaphores
        PROVE  /\ ToSet(waiting[s]) = Waiters(s)
               /\ Len(waiting[s]) = Cardinality(Waiters(s))
               /\ phantom[s] = 0 /\ waiting[s] # <<>> => count[s] = -Len(waiting[s])
    <3>1. /\ waiting[s] \in Seq(Procs) /\ IsInjective(waiting[s])
          /\ ToSet(waiting[s]) = Waiters(s)
          /\ count[s] \in Int /\ Len(waiting[s]) \in Nat
      BY QueueFacts DEF IInv, Queues
    <3>2. phantom[s] = 0 /\ waiting[s] # <<>> => Free(s) = 0
      BY DEF IInv, NoIdleWait
    <3> QED
      BY <3>1, <3>2, QueueLength DEF Free
  <2>2. count["resource"] = Units - Cardinality(Granted) - lost
                              - Len(waiting["resource"]) + phantom["resource"]
    <3>1. /\ count["resource"] \in Int /\ Len(waiting["resource"]) \in Nat
          /\ phantom["resource"] \in Nat /\ lost \in Nat /\ Cardinality(Granted) \in Nat
      BY QueueFacts, GrantedFinite DEF IInv, TypeOK, Semaphores
    <3> QED
      BY <3>1, KernelAssumption DEF IInv, UnitsCounted, Free
  <2> QED
    BY <2>1, <2>2 DEF UnitsAccounted, Waiters, Granted
<1> QED
  BY <1>1, Invariance, PTL

(* down() never tells a process of a unit it has not got, although one flag that  *)
(* several others write is all it looks at; it denies one that was counted only   *)
(* to a process that was suspended inside of its wait.                            *)
THEOREM ToldSafety == Spec => ToldRight
<1>1. ASSUME IInv, [Next]_vars, NEW p \in Procs, calls[p] # {}, calls'[p] = {}
      PROVE  SwitchEnds(p)
  <2>1. switching[p] /\ calls \in [Procs -> SUBSET BOOLEAN]
    BY <1>1 DEF IInv, TypeOK, Calls
  <2>2. calls' # calls
    BY <1>1
  <2>3. PICK q \in Procs : (\E a \in BOOLEAN : Down(q, a)) \/ SwitchEnds(q)
    BY <1>1, <2>2 DEF Next, vars, Startle, DownNowait, Up, Alert, Suspend, Resume,
       PurgeProcess, KillTests, KillMarks, KillAborts, Preempt, SwitchSuspended, SwitchAborted,
       Elsewhere
  <2>4. CASE \E a \in BOOLEAN : Down(q, a)
    BY <1>1, <2>1, <2>2, <2>4 DEF Down, Executes
  <2>5. CASE SwitchEnds(q)
    <3>1. calls' = [calls EXCEPT ![q] = {}]
      BY <2>5 DEF SwitchEnds
    <3> QED
      BY <3>1, <1>1, <2>1, <2>5
  <2> QED
    BY <2>3, <2>4, <2>5
<1>2. IInv /\ [Next]_vars =>
        [\A p \in Procs : calls[p] # {} /\ calls'[p] = {} =>
           /\ holds'[p] => granted[p]
           /\ granted[p] /\ ~holds'[p] => resource[p] = "SuspendEvent"]_vars
  BY <1>1, ToldLemma
<1> QED
  BY <1>2, Invariance, PTL DEF Spec, ToldRight
=============================================================================
