--------------------- MODULE RegisterStateProofs ---------------------
(***************************************************************************)
(* Proof that the register allocator's accounts agree: RegistersAccounted, *)
(* for expressions of leaves, additions, shifts, subscripts and calls.     *)
(*                                                                         *)
(* A result is made in the register its first operand was left in without  *)
(* asking whether that is free.  That it is needs three things together.   *)
(* Sound: the sets agree with the temporaries, and each temporary is where *)
(* the queued spills leave its node, so that latestResult() finds it.      *)
(* Plan: on the agenda every node is claimed once, cleanups nest, and the  *)
(* first operand of a result to be left in place has, or will have, a      *)
(* temporary that the cleanup just before the result releases.  Ready: a   *)
(* result whose cleanup is over finds that register free, or its operand   *)
(* pushed, on which an assert fails.                                       *)
(***************************************************************************)
EXTENDS RegisterStateProps, FiniteSetTheorems, SequenceTheorems, WellFoundedInduction, TLAPS

(* A set of naturals has a least member.                                   *)
LEMMA Least ==
  ASSUME NEW S \in SUBSET Nat, S # {}
  PROVE  \E m \in S : \A k \in S : m <= k
<1> DEFINE R == {ss \in Nat \X Nat : ss[1] < ss[2]}
<1>1. R = OpToRel(<, Nat)
  BY DEF OpToRel
<1>2. IsWellFoundedOn(R, Nat)
  BY <1>1, NatLessThanWellFounded
<1> HIDE DEF R
<1>3. PICK m \in S : \A k \in S : <<k, m>> \notin R
  BY <1>2, WFMin
<1>4. \A k \in S : ~ (k < m)
  BY <1>3 DEF R
<1> QED
  BY <1>4

(* Where a spill leaves node m, if the nodes were where found says.        *)
After(s, found, m) ==
  CASE s.kind = "XCHG" /\ s.affected = m -> found[s.other]
    [] s.kind = "XCHG" /\ s.other = m    -> found[s.affected]
    [] s.kind # "XCHG" /\ s.affected = m -> s.newRegister
    [] OTHER                             -> found[m]

(* f has the registers of the nodes D after each of the first n spills.    *)
Follows(f, sp, reg, D, n) ==
  f = [i \in 0 .. n |->
         [m \in D |-> IF i = 0 THEN RegisterOf(reg, m) ELSE After(sp[i], f[i - 1], m)]]

Walk(sp, reg, D) == CHOOSE f : Follows(f, sp, reg, D, Len(sp))

Latest(sp, reg, m) == Walk(sp, reg, DOMAIN reg)[Len(sp)][m]

(* The operator latestResult() is the walk over the queued spills.         *)
LEMMA LatestIs ==
  ASSUME NEW st, NEW reg, NEW n \in DOMAIN reg
  PROVE  latestResult(st, reg, n) = Latest(st.spills, reg, n)
<1>1. latestResult(st, reg, n) = Walk(st.spills, reg, {n} \cup DOMAIN reg)[Len(st.spills)][n]
  BY DEF latestResult, Walk, Follows, After
<1>2. {n} \cup DOMAIN reg = DOMAIN reg
  OBVIOUS
<1> QED
  BY <1>1, <1>2 DEF Latest

(* The same, as equations.                                                 *)
LEMMA FollowsSteps ==
  ASSUME NEW f, NEW sp, NEW reg, NEW D, NEW n \in Nat, Follows(f, sp, reg, D, n)
  PROVE  /\ \A i \in 0 .. n : f[i] = [m \in D |-> f[i][m]]
         /\ \A m \in D : f[0][m] = RegisterOf(reg, m)
         /\ \A i \in 1 .. n, m \in D : f[i][m] = After(sp[i], f[i - 1], m)
<1>1. \A i \in 0 .. n :
        f[i] = [m \in D |-> IF i = 0 THEN RegisterOf(reg, m) ELSE After(sp[i], f[i - 1], m)]
  BY DEF Follows
<1>2. ASSUME NEW i \in 0 .. n PROVE f[i] = [m \in D |-> f[i][m]]
  BY <1>1
<1>3. ASSUME NEW m \in D PROVE f[0][m] = RegisterOf(reg, m)
  <2>1. f[0] = [k \in D |-> RegisterOf(reg, k)]
    BY <1>1
  <2> QED
    BY <2>1
<1>4. ASSUME NEW i \in 1 .. n, NEW m \in D PROVE f[i][m] = After(sp[i], f[i - 1], m)
  <2>1. f[i] = [k \in D |-> After(sp[i], f[i - 1], k)]
    BY <1>1
  <2> QED
    BY <2>1
<1> QED
  BY <1>2, <1>3, <1>4


(* The walk over the queued spills is defined for every queue.             *)
LEMMA WalkExists ==
  ASSUME NEW sp, NEW reg, NEW D, Len(sp) \in Nat
  PROVE  Follows(Walk(sp, reg, D), sp, reg, D, Len(sp))
<1> DEFINE Never == {n \in Nat : ~ \E f : Follows(f, sp, reg, D, n)}
<1>1. 0 \notin Never
  <2>1. Follows([i \in 0 .. 0 |-> [m \in D |-> RegisterOf(reg, m)]], sp, reg, D, 0)
    BY DEF Follows
  <2> QED
    BY <2>1
<1>2. ASSUME NEW n \in Nat, n \notin Never PROVE n + 1 \notin Never
  <2>1. PICK f : Follows(f, sp, reg, D, n)
    BY <1>2
  <2> DEFINE g == [i \in 0 .. n + 1 |->
                     IF i <= n THEN f[i] ELSE [m \in D |-> After(sp[n + 1], f[n], m)]]
  <2>2. /\ \A i \in 0 .. n : g[i] = f[i]
        /\ g[n + 1] = [m \in D |-> After(sp[n + 1], f[n], m)]
    OBVIOUS
  <2>3. \A i \in 0 .. n :
          f[i] = [m \in D |-> IF i = 0 THEN RegisterOf(reg, m) ELSE After(sp[i], f[i - 1], m)]
    BY <2>1 DEF Follows
  <2>4. \A i \in 0 .. n + 1 :
          g[i] = [m \in D |-> IF i = 0 THEN RegisterOf(reg, m) ELSE After(sp[i], g[i - 1], m)]
    <3> SUFFICES ASSUME NEW i \in 0 .. n + 1
                 PROVE  g[i] = [m \in D |-> IF i = 0 THEN RegisterOf(reg, m)
                                             ELSE After(sp[i], g[i - 1], m)]
      OBVIOUS
    <3>1. CASE i = 0
      BY <2>2, <2>3, <3>1
    <3>2. CASE i \in 1 .. n
      <4>1. g[i] = f[i] /\ g[i - 1] = f[i - 1]
        BY <2>2, <3>2
      <4> HIDE DEF g
      <4> QED
        BY <2>3, <3>2, <4>1
    <3>3. CASE i = n + 1
      <4>1. g[n] = f[n] /\ i - 1 = n /\ i # 0
        BY <2>2, <3>3
      <4> HIDE DEF g
      <4> QED
        BY <2>2, <3>3, <4>1
    <3> QED
      BY <3>1, <3>2, <3>3
  <2>5. g = [i \in 0 .. n + 1 |-> g[i]]
    OBVIOUS
  <2> HIDE DEF g
  <2>6. Follows(g, sp, reg, D, n + 1)
    BY <2>4, <2>5 DEF Follows
  <2> QED
    BY <2>6
<1>3. Never = {}
  <2>1. SUFFICES ASSUME Never # {} PROVE FALSE
    OBVIOUS
  <2>2. PICK n \in Never : \A k \in Never : n <= k
    <3> HIDE DEF Never
    <3>1. Never \in SUBSET Nat
      BY DEF Never
    <3> QED
      BY <2>1, <3>1, Least
  <2>3. n \in Nat /\ n # 0
    BY <1>1, <2>2
  <2>4. n - 1 \in Nat /\ n - 1 \notin Never
    BY <2>2, <2>3
  <2> HIDE DEF Never
  <2>5. n - 1 + 1 \notin Never
    BY <1>2, <2>4
  <2> QED
    BY <2>2, <2>3, <2>5
<1>4. \E f : Follows(f, sp, reg, D, Len(sp))
  BY <1>3
<1> QED
  BY <1>4 DEF Walk

(* What spills come later makes no difference to where a node was.         *)
LEMMA WalkPrefix ==
  ASSUME NEW sp, NEW more, NEW reg, NEW D, Len(sp) \in Nat, Len(more) \in Nat,
         Len(sp) <= Len(more), \A i \in 1 .. Len(sp) : more[i] = sp[i]
  PROVE  \A i \in 0 .. Len(sp) : Walk(more, reg, D)[i] = Walk(sp, reg, D)[i]
<1> DEFINE f == Walk(sp, reg, D)
           g == Walk(more, reg, D)
           Wrong == {i \in 0 .. Len(sp) : g[i] # f[i]}
<1>1. Follows(f, sp, reg, D, Len(sp)) /\ Follows(g, more, reg, D, Len(more))
  BY WalkExists
<1> HIDE DEF f, g
<1>2. /\ \A i \in 0 .. Len(sp) : f[i] = [m \in D |-> f[i][m]] /\ g[i] = [m \in D |-> g[i][m]]
      /\ \A m \in D : f[0][m] = g[0][m]
      /\ \A i \in 1 .. Len(sp), m \in D : /\ f[i][m] = After(sp[i], f[i - 1], m)
                                          /\ g[i][m] = After(sp[i], g[i - 1], m)
  BY <1>1, FollowsSteps
<1>3. SUFFICES Wrong = {}
  BY DEF f, g
<1>4. SUFFICES ASSUME Wrong # {} PROVE FALSE
  OBVIOUS
<1>5. PICK i \in Wrong : \A k \in Wrong : i <= k
  <2>1. Wrong \in SUBSET Nat
    OBVIOUS
  <2> HIDE DEF Wrong
  <2> QED
    BY <1>4, <2>1, Least
<1>6. f[0] = g[0] /\ i \in 0 .. Len(sp) /\ f[i] # g[i]
  <2>1. f[0] = [m \in D |-> f[0][m]] /\ g[0] = [m \in D |-> g[0][m]]
    BY <1>2
  <2> QED
    BY <1>2, <1>5, <2>1
<1>7. i \in 1 .. Len(sp) /\ i - 1 \in 0 .. Len(sp) /\ i - 1 \notin Wrong
  BY <1>5, <1>6
<1>8. f[i - 1] = g[i - 1]
  BY <1>7
<1>9. \A m \in D : f[i][m] = g[i][m]
  BY <1>2, <1>7, <1>8
<1> QED
  BY <1>2, <1>6, <1>9

(* A spill more.                                                           *)
LEMMA LatestMore ==
  ASSUME NEW sp, NEW more, NEW reg, Len(sp) \in Nat,
         Len(more) = Len(sp) + 1, \A i \in 1 .. Len(sp) : more[i] = sp[i], NEW m \in DOMAIN reg
  PROVE  Latest(more, reg, m) = After(more[Len(more)], [k \in DOMAIN reg |-> Latest(sp, reg, k)], m)
<1> DEFINE D == DOMAIN reg
           f == Walk(sp, reg, D)
           g == Walk(more, reg, D)
<1>1. Follows(f, sp, reg, D, Len(sp)) /\ Follows(g, more, reg, D, Len(more))
  BY WalkExists
<1>2. g[Len(sp)] = f[Len(sp)]
  BY WalkPrefix
<1>3. Latest(more, reg, m) = g[Len(more)][m] /\ \A k \in D : Latest(sp, reg, k) = f[Len(sp)][k]
  BY DEF Latest
<1> HIDE DEF f, g
<1>4. f[Len(sp)] = [k \in D |-> f[Len(sp)][k]]
  BY <1>1, FollowsSteps
<1>5. Len(more) \in 1 .. Len(more) /\ Len(more) - 1 = Len(sp)
  OBVIOUS
<1>6. g[Len(more)][m] = After(more[Len(more)], g[Len(sp)], m)
  BY <1>1, <1>5, FollowsSteps
<1>7. f[Len(sp)] = [k \in D |-> Latest(sp, reg, k)]
  BY <1>3, <1>4
<1> QED
  BY <1>2, <1>3, <1>6, <1>7

(* Pushes more.                                                            *)
LEMMA LatestPushed ==
  ASSUME NEW sp, NEW more, NEW reg, Len(sp) \in Nat, Len(more) \in Nat,
         Len(sp) <= Len(more), \A i \in 1 .. Len(sp) : more[i] = sp[i],
         \A i \in Len(sp) + 1 .. Len(more) : more[i].kind = "PUSH" /\ more[i].newRegister = NO_REG,
         NEW m \in DOMAIN reg
  PROVE  Latest(more, reg, m) = IF \E i \in Len(sp) + 1 .. Len(more) : more[i].affected = m
                                THEN NO_REG ELSE Latest(sp, reg, m)
<1> DEFINE D == DOMAIN reg
           f == Walk(sp, reg, D)
           g == Walk(more, reg, D)
           Right(i) == g[i][m] = IF \E j \in Len(sp) + 1 .. i : more[j].affected = m
                                 THEN NO_REG ELSE f[Len(sp)][m]
           Wrong == {i \in Len(sp) .. Len(more) : ~ Right(i)}
<1>1. Follows(g, more, reg, D, Len(more))
  BY WalkExists
<1>2. g[Len(sp)] = f[Len(sp)]
  BY WalkPrefix
<1>3. Latest(more, reg, m) = g[Len(more)][m] /\ Latest(sp, reg, m) = f[Len(sp)][m]
  BY DEF Latest
<1> HIDE DEF f, g
<1>4. \A i \in 1 .. Len(more) : g[i][m] = After(more[i], g[i - 1], m)
  BY <1>1, FollowsSteps
<1>5. \A i \in Len(sp) + 1 .. Len(more) :
        g[i][m] = IF more[i].affected = m THEN NO_REG ELSE g[i - 1][m]
  BY <1>4 DEF After
<1>6. SUFFICES Wrong = {}
  BY <1>3
<1>7. SUFFICES ASSUME Wrong # {} PROVE FALSE
  OBVIOUS
<1>8. PICK i \in Wrong : \A k \in Wrong : i <= k
  <2>1. Wrong \in SUBSET Nat
    OBVIOUS
  <2> HIDE DEF Wrong
  <2> QED
    BY <1>7, <2>1, Least
<1>9. i \in Len(sp) + 1 .. Len(more)
  <2>1. Right(Len(sp))
    BY <1>2
  <2> QED
    BY <1>8, <2>1
<1>10. Right(i - 1)
  BY <1>8, <1>9
<1>11. g[i][m] = IF more[i].affected = m THEN NO_REG ELSE g[i - 1][m]
  BY <1>5, <1>9
<1>12. Right(i)
  <2>1. CASE more[i].affected = m
    BY <1>9, <1>11, <2>1
  <2>2. CASE more[i].affected # m
    <3>1. (\E j \in Len(sp) + 1 .. i : more[j].affected = m)
            <=> \E j \in Len(sp) + 1 .. i - 1 : more[j].affected = m
      BY <1>9, <2>2
    <3> QED
      BY <1>10, <1>11, <2>2, <3>1
  <2> QED
    BY <2>1, <2>2
<1> QED
  BY <1>8, <1>12

(* The spills that are queued are about nodes that have a register.        *)
About(sp, D) ==
  \A i \in 1 .. Len(sp) : /\ sp[i].affected \in D
                          /\ sp[i].kind = "XCHG" => sp[i].other \in D

(* A node more, of which no spill is.                                      *)
LEMMA LatestBorn ==
  ASSUME NEW sp, NEW reg, NEW n, n \notin DOMAIN reg, NEW r, Len(sp) \in Nat, About(sp, DOMAIN reg)
  PROVE  LET new == SetRegister(reg, n, r)
         IN  /\ Latest(sp, new, n) = r
             /\ \A m \in DOMAIN reg : Latest(sp, new, m) = Latest(sp, reg, m)
<1> DEFINE new == SetRegister(reg, n, r)
           D == DOMAIN reg
           E == D \cup {n}
           f == Walk(sp, reg, D)
           g == Walk(sp, new, E)
           Right(i) == g[i][n] = r /\ \A m \in D : g[i][m] = f[i][m]
           Wrong == {i \in 0 .. Len(sp) : ~ Right(i)}
<1>1. DOMAIN new = E
  BY DEF SetRegister
<1>2. /\ RegisterOf(new, n) = r
      /\ \A m \in D : RegisterOf(new, m) = RegisterOf(reg, m)
  BY DEF SetRegister, RegisterOf
<1>3. Follows(f, sp, reg, D, Len(sp)) /\ Follows(g, sp, new, E, Len(sp))
  BY WalkExists
<1>4. SUFFICES Right(Len(sp))
  BY <1>1 DEF Latest
<1> HIDE DEF f, g, new
<1>5. /\ \A m \in D : f[0][m] = RegisterOf(reg, m) /\ g[0][m] = RegisterOf(new, m)
      /\ g[0][n] = RegisterOf(new, n)
      /\ \A i \in 1 .. Len(sp) :
           /\ g[i][n] = After(sp[i], g[i - 1], n)
           /\ \A m \in D : /\ f[i][m] = After(sp[i], f[i - 1], m)
                           /\ g[i][m] = After(sp[i], g[i - 1], m)
  BY <1>3, FollowsSteps
<1>6. SUFFICES Wrong = {}
  OBVIOUS
<1>7. SUFFICES ASSUME Wrong # {} PROVE FALSE
  OBVIOUS
<1>8. PICK i \in Wrong : \A k \in Wrong : i <= k
  <2>1. Wrong \in SUBSET Nat
    OBVIOUS
  <2> HIDE DEF Wrong
  <2> QED
    BY <1>7, <2>1, Least
<1>9. i \in 1 .. Len(sp)
  <2>1. Right(0)
    BY <1>2, <1>5
  <2> QED
    BY <1>8, <2>1
<1>10. Right(i - 1)
  BY <1>8, <1>9
<1>11. /\ sp[i].affected \in D /\ sp[i].affected # n
       /\ sp[i].kind = "XCHG" => sp[i].other \in D /\ sp[i].other # n
  BY <1>9 DEF About
<1>12. Right(i)
  <2>1. g[i][n] = r
    BY <1>5, <1>9, <1>10, <1>11 DEF After
  <2>2. ASSUME NEW m \in D PROVE g[i][m] = f[i][m]
    BY <1>5, <1>9, <1>10, <1>11 DEF After
  <2> QED
    BY <2>1, <2>2
<1> QED
  BY <1>8, <1>12

(* A push, a pop or a move more.                                           *)
LEMMA LatestPlaced ==
  ASSUME NEW sp, NEW more, NEW reg, Len(sp) \in Nat, Len(more) = Len(sp) + 1,
         \A i \in 1 .. Len(sp) : more[i] = sp[i], more[Len(more)].kind # "XCHG",
         NEW m \in DOMAIN reg
  PROVE  Latest(more, reg, m) = IF m = more[Len(more)].affected THEN more[Len(more)].newRegister
                                ELSE Latest(sp, reg, m)
<1>1. Latest(more, reg, m)
        = After(more[Len(more)], [k \in DOMAIN reg |-> Latest(sp, reg, k)], m)
  BY LatestMore
<1> QED
  BY <1>1 DEF After

(* An exchange more.                                                       *)
LEMMA LatestSwapped ==
  ASSUME NEW sp, NEW more, NEW reg, Len(sp) \in Nat, Len(more) = Len(sp) + 1,
         \A i \in 1 .. Len(sp) : more[i] = sp[i], more[Len(more)].kind = "XCHG",
         more[Len(more)].affected \in DOMAIN reg, more[Len(more)].other \in DOMAIN reg,
         NEW m \in DOMAIN reg
  PROVE  Latest(more, reg, m)
           = IF m = more[Len(more)].affected THEN Latest(sp, reg, more[Len(more)].other)
             ELSE IF m = more[Len(more)].other THEN Latest(sp, reg, more[Len(more)].affected)
             ELSE Latest(sp, reg, m)
<1>1. Latest(more, reg, m)
        = After(more[Len(more)], [k \in DOMAIN reg |-> Latest(sp, reg, k)], m)
  BY LatestMore
<1> QED
  BY <1>1 DEF After

-----------------------------------------------------------------------------
(* The allocator.                                                          *)

Temporaries == [node : Paths, current : Registers, desired : (SUBSET LongMask) \ {{}}]
Spillings == [kind : {"PUSH", "POP", "MOVE", "XCHG"}, where : Paths, newRegister : Registers,
              affected : Paths, other : Paths]
States == [temps : Seq(Temporaries), oldest : Nat, free : SUBSET LongMask,
           used : SUBSET LongMask, tempRegisters : SUBSET LongMask,
           spills : Seq(Spillings), failed : BOOLEAN]

Typed(st) == st \in States /\ st.oldest <= Len(st.temps)

(* The sets of registers agree with the temporaries.                       *)
Exact(st) ==
  /\ st.used = RegistersOf(st, 1, Len(st.temps))
  /\ st.free = LongMask \ st.used
  /\ \A i, j \in 1 .. Len(st.temps) :
       st.temps[i].current = st.temps[j].current /\ st.temps[i].current # NO_REG => i = j

(* Each temporary is of a node of its own, and in the register, or on the  *)
(* stack, where the queued spills leave that node.                         *)
Followed(st, reg) ==
  /\ About(st.spills, DOMAIN reg)
  /\ \A i \in 1 .. Len(st.temps) :
       /\ st.temps[i].node \in DOMAIN reg
       /\ Latest(st.spills, reg, st.temps[i].node) = st.temps[i].current
  /\ \A i, j \in 1 .. Len(st.temps) : st.temps[i].node = st.temps[j].node => i = j

Sound(st, reg) == Typed(st) /\ Exact(st) /\ Followed(st, reg)

(* The same temporaries, wherever they are.                                *)
SameTemps(st, new) ==
  /\ Len(new.temps) = Len(st.temps)
  /\ \A i \in 1 .. Len(st.temps) : new.temps[i].node = st.temps[i].node

(* The numbers of the registers, from the assumption on longMask.          *)
LEMMA Numbers ==
  /\ NO_REG \notin LongMask /\ LongMask \subseteq Nat
  /\ {RAX, RCX, RDX, R8, R9} \subseteq LongMask
  /\ Registers = LongMask \cup {NO_REG}
<1>1. {RAX, RDX} \cup {RCX, RDX, R8, R9} \subseteq LongMask
  <2>1. fastArgs = <<RCX, RDX, R8, R9>> /\ ToSet(fastArgs) = {fastArgs[i] : i \in DOMAIN fastArgs}
    BY DEF fastArgs, ToSet
  <2>2. DOMAIN fastArgs = 1 .. 4
    BY <2>1
  <2>3. {fastArgs[i] : i \in 1 .. 4} = {RCX, RDX, R8, R9}
    BY <2>1
  <2> QED
    BY <2>1, <2>2, <2>3, LongMaskAssumption
<1> QED
  BY <1>1, LongMaskAssumption DEF NO_REG, Registers

(* lowestReg() takes a register of the mask it is given.                   *)
LEMMA LowestIn ==
  ASSUME NEW mask \in SUBSET Nat, mask # {}
  PROVE  Min(mask) \in mask
BY Least DEF Min

(* What spillOldest(), repeated, changes, field by field.                  *)
LEMMA SpillToFields ==
  ASSUME NEW st, Typed(st), NEW where \in Paths, NEW k \in st.oldest .. Len(st.temps)
  PROVE  LET new == SpillTo(st, where, k)
             n == Len(st.temps)
             m == Len(st.spills)
         IN  /\ Typed(new) /\ Len(new.temps) = n /\ new.oldest = k /\ new.failed = st.failed
             /\ \A i \in 1 .. n : /\ new.temps[i].node = st.temps[i].node
                                  /\ new.temps[i].desired = st.temps[i].desired
                                  /\ new.temps[i].current =
                                       IF i \in st.oldest + 1 .. k THEN NO_REG
                                       ELSE st.temps[i].current
             /\ new.free = st.free \cup RegistersOf(st, st.oldest + 1, k)
             /\ new.used = st.used \ RegistersOf(st, st.oldest + 1, k)
             /\ Len(new.spills) = m + (k - st.oldest)
             /\ \A i \in 1 .. m : new.spills[i] = st.spills[i]
             /\ \A i \in m + 1 .. Len(new.spills) :
                  /\ new.spills[i].kind = "PUSH" /\ new.spills[i].newRegister = NO_REG
                  /\ new.spills[i].affected = st.temps[st.oldest + (i - m)].node
<1> DEFINE new == SpillTo(st, where, k)
           n == Len(st.temps)
           m == Len(st.spills)
           o == st.oldest
           freed == RegistersOf(st, o + 1, k)
           pushes == [j \in 1 .. k - o |->
                        Spill("PUSH", where, NO_REG, st.temps[o + j].node, <<>>)]
           temps == OutOfRegisters(st.temps, o + 1, k)
<1>1. /\ st.temps \in Seq(Temporaries) /\ st.spills \in Seq(Spillings) /\ o \in Nat /\ n \in Nat
      /\ m \in Nat /\ k \in Nat /\ o <= k /\ k <= n /\ DOMAIN st.temps = 1 .. n
      /\ \A i \in 1 .. n : st.temps[i] \in Temporaries
  BY DEF Typed, States
<1>2. /\ pushes \in Seq(Spillings) /\ Len(pushes) = k - o
      /\ \A j \in 1 .. k - o : /\ pushes[j].kind = "PUSH" /\ pushes[j].newRegister = NO_REG
                               /\ pushes[j].affected = st.temps[o + j].node
  <2>1. ASSUME NEW j \in 1 .. k - o
        PROVE  Spill("PUSH", where, NO_REG, st.temps[o + j].node, <<>>) \in Spillings
    <3>1. st.temps[o + j].node \in Paths
      BY <1>1 DEF Temporaries
    <3>2. NO_REG \in Registers /\ <<>> \in Paths
      BY DEF Registers, Paths
    <3> QED
      BY <3>1, <3>2 DEF Spill, Spillings
  <2>2. k - o \in Nat
    BY <1>1
  <2>3. pushes \in [1 .. k - o -> Spillings]
    BY <2>1
  <2>4. \A j \in 1 .. k - o : /\ pushes[j].kind = "PUSH" /\ pushes[j].newRegister = NO_REG
                              /\ pushes[j].affected = st.temps[o + j].node
    BY DEF Spill
  <2> HIDE DEF pushes, Spillings
  <2> QED
    BY <2>2, <2>3, <2>4
<1>3. /\ temps \in Seq(Temporaries) /\ Len(temps) = n
      /\ \A i \in 1 .. n : /\ temps[i].node = st.temps[i].node
                           /\ temps[i].desired = st.temps[i].desired
                           /\ temps[i].current = IF i \in o + 1 .. k THEN NO_REG
                                                 ELSE st.temps[i].current
  <2>1. /\ temps = [i \in 1 .. n |-> IF i \in o + 1 .. k THEN [st.temps[i] EXCEPT !.current = NO_REG]
                                      ELSE st.temps[i]]
    BY <1>1 DEF OutOfRegisters
  <2>2. ASSUME NEW i \in 1 .. n
        PROVE  /\ temps[i] \in Temporaries
               /\ temps[i].node = st.temps[i].node
               /\ temps[i].desired = st.temps[i].desired
               /\ temps[i].current = IF i \in o + 1 .. k THEN NO_REG ELSE st.temps[i].current
    <3>1. temps[i] = IF i \in o + 1 .. k THEN [st.temps[i] EXCEPT !.current = NO_REG]
                     ELSE st.temps[i]
      BY <2>1
    <3>2. st.temps[i] \in Temporaries /\ NO_REG \in Registers
      BY <1>1 DEF Registers
    <3> HIDE DEF temps
    <3> QED
      BY <3>1, <3>2 DEF Temporaries
  <2> HIDE DEF temps
  <2>3. temps \in [1 .. n -> Temporaries]
    BY <2>1, <2>2
  <2> QED
    BY <1>1, <2>2, <2>3
<1>4. freed \in SUBSET LongMask
  BY <1>1, Numbers DEF RegistersOf, Temporaries
<1> HIDE DEF temps, pushes, freed
<1>5. new = [[freeRegs(st, freed) EXCEPT !.temps = temps, !.oldest = k, !.spills = st.spills \o pushes]
             EXCEPT !.failed = st.failed]
  <2>1. new = [freeRegs(st, freed) EXCEPT !.temps = temps, !.oldest = k, !.spills = st.spills \o pushes]
    BY DEF SpillTo, freeRegs, temps, pushes, freed, Typed, States
  <2> QED
    BY <2>1 DEF freeRegs, Typed, States
<1>6. /\ new \in States /\ new.temps = temps /\ new.oldest = k /\ new.failed = st.failed
      /\ new.free = st.free \cup freed /\ new.used = st.used \ freed
      /\ new.spills = st.spills \o pushes
  <2>1. st.spills \o pushes \in Seq(Spillings)
    BY <1>1, <1>2
  <2> HIDE DEF new, Temporaries, Spillings
  <2> QED
    BY <1>1, <1>3, <1>4, <1>5, <2>1 DEF freeRegs, Typed, States
<1> HIDE DEF new
<1>7. /\ Len(st.spills \o pushes) = m + (k - o)
      /\ \A i \in 1 .. m : (st.spills \o pushes)[i] = st.spills[i]
      /\ \A i \in m + 1 .. m + (k - o) : (st.spills \o pushes)[i] = pushes[i - m]
  <2> HIDE DEF Spillings
  <2>0. st.spills \in Seq(Spillings) /\ pushes \in Seq(Spillings)
    BY <1>1, <1>2
  <2>1. /\ Len(st.spills \o pushes) = m + Len(pushes)
        /\ \A i \in 1 .. m + Len(pushes) :
             (st.spills \o pushes)[i] = IF i <= m THEN st.spills[i] ELSE pushes[i - m]
    BY <2>0, ConcatProperties
  <2> QED
    BY <1>1, <1>2, <2>1
<1>8. \A i \in m + 1 .. m + (k - o) : i - m \in 1 .. k - o
  BY <1>1
<1>9. Typed(new)
  BY <1>1, <1>3, <1>6 DEF Typed
<1>10. \A i \in m + 1 .. Len(new.spills) :
         /\ new.spills[i].kind = "PUSH" /\ new.spills[i].newRegister = NO_REG
         /\ new.spills[i].affected = st.temps[st.oldest + (i - m)].node
  BY <1>2, <1>6, <1>7, <1>8
<1> QED
  BY <1>3, <1>6, <1>7, <1>9, <1>10 DEF new, freed

(* The same temporaries, some of them pushed since.                        *)
Pushed(st, new) ==
  /\ Len(new.temps) = Len(st.temps)
  /\ \A i \in 1 .. Len(st.temps) :
       /\ new.temps[i].node = st.temps[i].node
       /\ new.temps[i].desired = st.temps[i].desired
       /\ new.temps[i].current \in {NO_REG, st.temps[i].current}

(* Spilling the oldest temporaries keeps the allocator sound.              *)
LEMMA Spilled ==
  ASSUME NEW st, NEW reg, Sound(st, reg), NEW where \in Paths,
         NEW k \in st.oldest .. Len(st.temps)
  PROVE  LET new == SpillTo(st, where, k)
         IN  /\ Sound(new, reg) /\ Pushed(st, new) /\ new.failed = st.failed
             /\ new.free = st.free \cup RegistersOf(st, st.oldest + 1, k)
<1> DEFINE new == SpillTo(st, where, k)
           n == Len(st.temps)
           m == Len(st.spills)
           o == st.oldest
           freed == RegistersOf(st, o + 1, k)
<1>1. Typed(st) /\ Exact(st) /\ Followed(st, reg)
  BY DEF Sound
<1>2. /\ n \in Nat /\ m \in Nat /\ o \in Nat /\ k \in o .. n
      /\ \A i \in 1 .. n : st.temps[i] \in Temporaries
      /\ st.free \subseteq LongMask /\ st.used \subseteq LongMask
  BY <1>1 DEF Typed, States
<1>3. /\ Typed(new) /\ Len(new.temps) = n /\ new.oldest = k /\ new.failed = st.failed
      /\ \A i \in 1 .. n : /\ new.temps[i].node = st.temps[i].node
                           /\ new.temps[i].desired = st.temps[i].desired
                           /\ new.temps[i].current =
                                IF i \in o + 1 .. k THEN NO_REG ELSE st.temps[i].current
      /\ new.free = st.free \cup freed
      /\ new.used = st.used \ freed
      /\ Len(new.spills) = m + (k - o)
      /\ \A i \in 1 .. m : new.spills[i] = st.spills[i]
      /\ \A i \in m + 1 .. Len(new.spills) :
           /\ new.spills[i].kind = "PUSH" /\ new.spills[i].newRegister = NO_REG
           /\ new.spills[i].affected = st.temps[o + (i - m)].node
  BY <1>1, SpillToFields
<1>n. n \in Nat /\ m \in Nat /\ o \in Nat /\ k \in Nat /\ o <= k /\ k <= n
  BY <1>2
<1>l. Len(new.spills) = m + (k - o)
  BY <1>3
<1> HIDE DEF new, n, m, o
<1>4. Exact(new)
  <2>1. /\ \A r : r \in freed <=> r # NO_REG /\ \E i \in o + 1 .. k : r = st.temps[i].current
        /\ \A r : r \in st.used <=> r # NO_REG /\ \E i \in 1 .. n : r = st.temps[i].current
        /\ \A r : r \in RegistersOf(new, 1, n)
                    <=> r # NO_REG /\ \E i \in 1 .. n : r = new.temps[i].current
    BY <1>1 DEF Exact, RegistersOf, n
  <2>2. \A i, j \in 1 .. n :
          st.temps[i].current = st.temps[j].current /\ st.temps[i].current # NO_REG => i = j
    BY <1>1 DEF Exact, n
  <2> HIDE DEF freed
  <2>3. new.used = RegistersOf(new, 1, n)
    <3>1. ASSUME NEW r \in new.used PROVE r \in RegistersOf(new, 1, n)
      <4>1. r \in st.used /\ r \notin freed
        BY <1>3
      <4>2. PICK i \in 1 .. n : r = st.temps[i].current /\ r # NO_REG
        BY <2>1, <4>1
      <4>3. i \notin o + 1 .. k
        BY <2>1, <4>1, <4>2
      <4> QED
        BY <1>3, <2>1, <4>2, <4>3
    <3>2. ASSUME NEW r \in RegistersOf(new, 1, n) PROVE r \in new.used
      <4>1. PICK i \in 1 .. n : r = new.temps[i].current /\ r # NO_REG
        BY <2>1
      <4>2. i \notin o + 1 .. k /\ r = st.temps[i].current
        BY <1>3, <4>1
      <4>3. r \notin freed
        <5>1. \A j \in o + 1 .. k : j \in 1 .. n /\ j # i
          BY <1>n, <4>2
        <5> QED
          BY <2>1, <2>2, <4>2, <5>1
      <4> QED
        BY <1>3, <2>1, <4>1, <4>2, <4>3
    <3> QED
      BY <3>1, <3>2
  <2>4. new.free = LongMask \ new.used
    <3>1. freed \subseteq LongMask
      BY <1>2, <2>1 DEF Temporaries, Registers
    <3>2. st.free = LongMask \ st.used
      BY <1>1 DEF Exact
    <3> QED
      BY <1>3, <3>1, <3>2
  <2>5. \A i, j \in 1 .. n :
          new.temps[i].current = new.temps[j].current /\ new.temps[i].current # NO_REG => i = j
    BY <1>3, <2>2
  <2> QED
    BY <1>3, <2>3, <2>4, <2>5 DEF Exact
<1>5. Followed(new, reg)
  <2>1. About(new.spills, DOMAIN reg)
    <3>1. \A i \in m + 1 .. m + (k - o) : o + (i - m) \in 1 .. n
      BY <1>n
    <3>2. \A i \in 1 .. n : st.temps[i].node \in DOMAIN reg
      BY <1>1 DEF Followed, n
    <3>3. ASSUME NEW i \in 1 .. Len(new.spills)
          PROVE  new.spills[i].affected \in DOMAIN reg
                 /\ (new.spills[i].kind = "XCHG" => new.spills[i].other \in DOMAIN reg)
      <4>1. CASE i \in 1 .. m
        BY <1>1, <1>3, <4>1 DEF Followed, About, m
      <4>2. CASE i \in m + 1 .. Len(new.spills)
        BY <1>3, <1>l, <3>1, <3>2, <4>2
      <4> QED
        BY <1>n, <1>l, <4>1, <4>2
    <3> QED
      BY <3>3 DEF About
  <2>2. ASSUME NEW i \in 1 .. n
        PROVE  Latest(new.spills, reg, new.temps[i].node) = new.temps[i].current
    <3>1. st.temps[i].node \in DOMAIN reg
          /\ Latest(st.spills, reg, st.temps[i].node) = st.temps[i].current
      BY <1>1 DEF Followed, n
    <3>2. Latest(new.spills, reg, st.temps[i].node)
            = IF \E j \in m + 1 .. Len(new.spills) : new.spills[j].affected = st.temps[i].node
              THEN NO_REG ELSE Latest(st.spills, reg, st.temps[i].node)
      <4>1. Len(new.spills) \in Nat /\ m <= Len(new.spills)
        BY <1>n, <1>l
      <4> DEFINE sp == st.spills
                 more == new.spills
                 d == st.temps[i].node
      <4>2. /\ Len(sp) \in Nat /\ Len(more) \in Nat /\ Len(sp) <= Len(more)
            /\ \A j \in 1 .. Len(sp) : more[j] = sp[j]
            /\ \A j \in Len(sp) + 1 .. Len(more) :
                 more[j].kind = "PUSH" /\ more[j].newRegister = NO_REG
            /\ d \in DOMAIN reg
        BY <1>n, <1>3, <3>1, <4>1 DEF m
      <4> HIDE DEF sp, more, d
      <4>3. Latest(more, reg, d)
              = IF \E j \in Len(sp) + 1 .. Len(more) : more[j].affected = d
                THEN NO_REG ELSE Latest(sp, reg, d)
        BY <4>2, LatestPushed
      <4> QED
        BY <4>3 DEF m, sp, more, d
    <3>3. (\E j \in m + 1 .. Len(new.spills) : new.spills[j].affected = st.temps[i].node)
            <=> i \in o + 1 .. k
      <4>1. ASSUME i \in o + 1 .. k
            PROVE  \E j \in m + 1 .. Len(new.spills) : new.spills[j].affected = st.temps[i].node
        <5> DEFINE q == m + (i - o)
        <5>1. q \in m + 1 .. Len(new.spills) /\ o + (q - m) = i
          BY <1>n, <1>l, <4>1
        <5> HIDE DEF q
        <5>2. new.spills[q].affected = st.temps[o + (q - m)].node
          BY <1>3, <5>1
        <5> QED
          BY <5>1, <5>2
      <4>2. ASSUME NEW j \in m + 1 .. Len(new.spills),
                   new.spills[j].affected = st.temps[i].node
            PROVE  i \in o + 1 .. k
        <5>1. o + (j - m) \in o + 1 .. k /\ o + (j - m) \in 1 .. n
          BY <1>n, <1>l
        <5>2. st.temps[o + (j - m)].node = st.temps[i].node
          BY <1>3, <4>2
        <5>3. o + (j - m) = i
          BY <1>1, <5>1, <5>2 DEF Followed, n
        <5> QED
          BY <5>1, <5>3
      <4> QED
        BY <4>1, <4>2
    <3> QED
      BY <1>3, <3>1, <3>2, <3>3
  <2>3. \A i, j \in 1 .. n : new.temps[i].node = new.temps[j].node => i = j
    BY <1>1, <1>3 DEF Followed, n
  <2>4. \A i \in 1 .. n : new.temps[i].node \in DOMAIN reg
    BY <1>1, <1>3 DEF Followed, n
  <2> QED
    BY <1>3, <2>1, <2>2, <2>3, <2>4 DEF Followed
<1>6. Pushed(st, new)
  BY <1>3 DEF Pushed, n
<1> QED
  BY <1>3, <1>4, <1>5, <1>6 DEF Sound, new, o

(* A failed assert leaves everything of its type.                          *)
LEMMA TypedFailed ==
  ASSUME NEW st, Typed(st)
  PROVE  Typed([st EXCEPT !.failed = TRUE]) /\ [st EXCEPT !.failed = TRUE].failed
<1> HIDE DEF Temporaries, Spillings
<1> QED
  BY DEF Typed, States

(* What spilling as little as makes one of ks come true does.              *)
LEMMA SpilledUntil ==
  ASSUME NEW st, NEW reg, Sound(st, reg), ~ st.failed, NEW where \in Paths,
         NEW ks, ks \subseteq st.oldest .. Len(st.temps)
  PROVE  LET new == IF ks = {} THEN [SpillTo(st, where, Len(st.temps)) EXCEPT !.failed = TRUE]
                    ELSE SpillTo(st, where, Min(ks))
         IN  \/ new.failed /\ Typed(new)
             \/ /\ ~ new.failed /\ Sound(new, reg) /\ Pushed(st, new)
                /\ \E k \in ks : new.free = st.free \cup RegistersOf(st, st.oldest + 1, k)
<1>1. /\ st.oldest \in Nat /\ Len(st.temps) \in Nat
      /\ Len(st.temps) \in st.oldest .. Len(st.temps)
  BY DEF Sound, Typed, States
<1>2. CASE ks = {}
  <2>1. Typed(SpillTo(st, where, Len(st.temps)))
    BY <1>1, Spilled DEF Sound
  <2> QED
    BY <1>2, <2>1, TypedFailed
<1>3. CASE ks # {}
  <2>1. Min(ks) \in ks
    BY <1>1, <1>3, LowestIn
  <2> QED
    BY <1>3, <2>1, Spilled
<1> QED
  BY <1>2, <1>3

(* getreg() fails or returns a free register of those required.            *)
LEMMA Got ==
  ASSUME NEW st, NEW reg, Sound(st, reg), ~ st.failed, NEW where \in Paths,
         NEW required \in SUBSET LongMask, NEW desired
  PROVE  LET g == getreg(st, where, required, desired)
         IN  \/ g.st.failed /\ Typed(g.st) /\ g.r = NO_REG
             \/ /\ ~ g.st.failed /\ Sound(g.st, reg) /\ Pushed(st, g.st)
                /\ g.r \in required \cap g.st.free
<1> DEFINE ks == {k \in st.oldest .. Len(st.temps) :
                    required \cap (st.free \cup RegistersOf(st, st.oldest + 1, k)) # {}}
           new == IF ks = {} THEN [SpillTo(st, where, Len(st.temps)) EXCEPT !.failed = TRUE]
                  ELSE SpillTo(st, where, Min(ks))
           r == IF new.failed THEN NO_REG ELSE lowestReg(Prefer(desired, required \cap new.free))
<1>1. getreg(st, where, required, desired) = [st |-> new, r |-> r]
  BY DEF getreg, SpillUntil, SpillsThat
<1>2. \/ new.failed /\ Typed(new)
      \/ /\ ~ new.failed /\ Sound(new, reg) /\ Pushed(st, new)
         /\ \E k \in ks : new.free = st.free \cup RegistersOf(st, st.oldest + 1, k)
  <2>1. ks \subseteq st.oldest .. Len(st.temps)
    OBVIOUS
  <2> HIDE DEF ks
  <2> QED
    BY <2>1, SpilledUntil
<1> HIDE DEF new
<1>3. ASSUME ~ new.failed PROVE r \in required \cap new.free
  <2>1. required \cap new.free # {}
    BY <1>2, <1>3
  <2>2. /\ Prefer(desired, required \cap new.free) # {}
        /\ Prefer(desired, required \cap new.free) \subseteq required \cap new.free
    BY <2>1 DEF Prefer
  <2>3. Prefer(desired, required \cap new.free) \in SUBSET Nat
    BY <2>2, Numbers
  <2> QED
    BY <1>3, <2>2, <2>3, LowestIn DEF lowestReg
<1> QED
  BY <1>1, <1>2, <1>3

(* So does clobberSomeRegisters(), which returns none.                     *)
LEMMA Clobbered ==
  ASSUME NEW st, NEW reg, Sound(st, reg), ~ st.failed, NEW where \in Paths, NEW mask
  PROVE  LET new == clobberSomeRegisters(st, where, mask)
         IN  \/ new.failed /\ Typed(new)
             \/ ~ new.failed /\ Sound(new, reg) /\ Pushed(st, new)
<1> DEFINE ks == {k \in st.oldest .. Len(st.temps) :
                    mask \subseteq (st.free \cup RegistersOf(st, st.oldest + 1, k))}
<1>1. clobberSomeRegisters(st, where, mask)
        = IF ks = {} THEN [SpillTo(st, where, Len(st.temps)) EXCEPT !.failed = TRUE]
          ELSE SpillTo(st, where, Min(ks))
  BY DEF clobberSomeRegisters, SpillUntil, SpillsThat
<1>2. ks \subseteq st.oldest .. Len(st.temps)
  OBVIOUS
<1> HIDE DEF ks
<1> QED
  BY <1>1, <1>2, SpilledUntil

(* A temporary more, of a node that had no register yet.                   *)
LEMMA Born ==
  ASSUME NEW st, NEW reg, Sound(st, reg), NEW n \in Paths, n \notin DOMAIN reg,
         NEW r \in st.free, NEW desired \in (SUBSET LongMask) \ {{}}
  PROVE  LET new == makeTemp(st, n, r, desired)
         IN  /\ Sound(new, SetRegister(reg, n, r)) /\ new.failed = st.failed
             /\ Len(new.temps) = Len(st.temps) + 1
             /\ \A i \in 1 .. Len(st.temps) : new.temps[i] = st.temps[i]
             /\ new.temps[Len(st.temps) + 1].node = n
<1> DEFINE tm == [node |-> n, current |-> r, desired |-> desired]
           new == makeTemp(st, n, r, desired)
           with == SetRegister(reg, n, r)
           m == Len(st.temps)
<1>1. /\ Typed(st) /\ Exact(st) /\ Followed(st, reg) /\ st \in States
      /\ st.temps \in Seq(Temporaries) /\ m \in Nat /\ st.oldest \in Nat /\ st.oldest <= m
      /\ st.free \subseteq LongMask /\ st.used \subseteq LongMask /\ Len(st.spills) \in Nat
  BY DEF Sound, Typed, States
<1>2. tm \in Temporaries /\ r \in LongMask /\ r # NO_REG
  BY <1>1, Numbers DEF Temporaries
<1>3. /\ new \in States /\ new.temps = Append(st.temps, tm) /\ new.oldest = st.oldest
      /\ new.free = st.free \ {r} /\ new.used = st.used \cup {r}
      /\ new.spills = st.spills /\ new.failed = st.failed
  <2>1. new = [consumeRegs(st, {r}) EXCEPT !.temps = Append(st.temps, tm)]
    BY <1>1 DEF makeTemp, consumeRegs, States
  <2>2. Append(st.temps, tm) \in Seq(Temporaries)
    BY <1>1, <1>2, AppendProperties
  <2> HIDE DEF new, Temporaries, Spillings, tm
  <2> QED
    BY <1>1, <1>2, <2>1, <2>2 DEF consumeRegs, States
<1>4. /\ Len(new.temps) = m + 1
      /\ \A i \in 1 .. m : new.temps[i] = st.temps[i]
      /\ new.temps[m + 1] = tm
  BY <1>1, <1>2, <1>3, AppendProperties
<1>5. tm.node = n /\ tm.current = r /\ tm.desired = desired
  OBVIOUS
<1> HIDE DEF new, tm, m
<1>6. Typed(new)
  BY <1>1, <1>3, <1>4 DEF Typed, m
<1>7. Exact(new)
  <2>1. /\ st.used = {st.temps[i].current : i \in 1 .. m} \ {NO_REG}
        /\ st.free = LongMask \ st.used
        /\ \A i, j \in 1 .. m :
             st.temps[i].current = st.temps[j].current /\ st.temps[i].current # NO_REG => i = j
    BY <1>1 DEF Exact, RegistersOf, m
  <2>2. \A i \in 1 .. m : st.temps[i].current # r
    BY <1>2, <2>1
  <2>3. new.used = {new.temps[i].current : i \in 1 .. m + 1} \ {NO_REG}
    <3>1. \A i \in 1 .. m + 1 : i \in 1 .. m \/ i = m + 1
      BY <1>1
    <3>2. 1 .. m \subseteq 1 .. m + 1 /\ m + 1 \in 1 .. m + 1
      BY <1>1
    <3> QED
      BY <1>2, <1>3, <1>4, <1>5, <2>1, <3>1, <3>2
  <2>4. new.free = LongMask \ new.used
    BY <1>2, <1>3, <2>1
  <2>5. ASSUME NEW i \in 1 .. m + 1, NEW j \in 1 .. m + 1,
               new.temps[i].current = new.temps[j].current, new.temps[i].current # NO_REG
        PROVE  i = j
    BY <1>1, <1>4, <1>5, <2>1, <2>2, <2>5
  <2> QED
    BY <1>4, <2>3, <2>4, <2>5 DEF Exact, RegistersOf
<1>8. Followed(new, with)
  <2>1. DOMAIN with = DOMAIN reg \cup {n}
    BY DEF SetRegister
  <2>2. About(st.spills, DOMAIN reg)
    BY <1>1 DEF Followed
  <2>3. /\ Latest(st.spills, with, n) = r
        /\ \A d \in DOMAIN reg : Latest(st.spills, with, d) = Latest(st.spills, reg, d)
    BY <1>1, <2>2, LatestBorn
  <2> HIDE DEF with
  <2>4. ASSUME NEW i \in 1 .. m + 1
        PROVE  /\ new.temps[i].node \in DOMAIN with
               /\ Latest(new.spills, with, new.temps[i].node) = new.temps[i].current
    <3>1. CASE i \in 1 .. m
      BY <1>1, <1>3, <1>4, <2>1, <2>3, <3>1 DEF Followed, m
    <3>2. CASE i = m + 1
      BY <1>3, <1>4, <1>5, <2>1, <2>3, <3>2
    <3> QED
      BY <1>1, <3>1, <3>2
  <2>5. ASSUME NEW i \in 1 .. m + 1, NEW j \in 1 .. m + 1, new.temps[i].node = new.temps[j].node
        PROVE  i = j
    <3>1. \A k \in 1 .. m : st.temps[k].node # n
      BY <1>1 DEF Followed, m
    <3>2. \A k, l \in 1 .. m : st.temps[k].node = st.temps[l].node => k = l
      BY <1>1 DEF Followed, m
    <3> QED
      BY <1>1, <1>4, <1>5, <2>5, <3>1, <3>2
  <2>6. About(new.spills, DOMAIN with)
    BY <1>3, <2>1, <2>2 DEF About
  <2> QED
    BY <1>4, <2>4, <2>5, <2>6 DEF Followed
<1> QED
  BY <1>3, <1>4, <1>5, <1>6, <1>7, <1>8 DEF Sound, new, m

(* Where a push, a pop, a move or an exchange more leaves the nodes.       *)
LEMMA LatestAppended ==
  ASSUME NEW sp \in Seq(Spillings), NEW s \in Spillings, NEW reg
  PROVE  /\ s.kind # "XCHG" =>
              \A m \in DOMAIN reg :
                Latest(Append(sp, s), reg, m)
                  = IF m = s.affected THEN s.newRegister ELSE Latest(sp, reg, m)
         /\ s.kind = "XCHG" /\ s.affected \in DOMAIN reg /\ s.other \in DOMAIN reg =>
              \A m \in DOMAIN reg :
                Latest(Append(sp, s), reg, m)
                  = IF m = s.affected THEN Latest(sp, reg, s.other)
                    ELSE IF m = s.other THEN Latest(sp, reg, s.affected) ELSE Latest(sp, reg, m)
<1> DEFINE more == Append(sp, s)
<1>1. /\ Len(sp) \in Nat /\ Len(more) = Len(sp) + 1 /\ more[Len(more)] = s
      /\ \A i \in 1 .. Len(sp) : more[i] = sp[i]
  <2> HIDE DEF Spillings
  <2> QED
    BY AppendProperties
<1> HIDE DEF more
<1>2. ASSUME s.kind # "XCHG", NEW m \in DOMAIN reg
      PROVE  Latest(more, reg, m) = IF m = s.affected THEN s.newRegister ELSE Latest(sp, reg, m)
  BY <1>1, <1>2, LatestPlaced
<1>3. ASSUME s.kind = "XCHG", s.affected \in DOMAIN reg, s.other \in DOMAIN reg,
             NEW m \in DOMAIN reg
      PROVE  Latest(more, reg, m)
               = IF m = s.affected THEN Latest(sp, reg, s.other)
                 ELSE IF m = s.other THEN Latest(sp, reg, s.affected) ELSE Latest(sp, reg, m)
  BY <1>1, <1>3, LatestSwapped
<1> QED
  BY <1>2, <1>3 DEF more

(* Spilling leaves each temporary with its node.                           *)
LEMMA PushedSame ==
  ASSUME NEW st, NEW new, Pushed(st, new)
  PROVE  SameTemps(st, new)
BY DEF Pushed, SameTemps

(* Temporary i put in the free register q, by a spill s that says so, and  *)
(* the registers S, of which only its own was in use, released.            *)
Relocation(st, i, q, S, s, new) ==
  /\ i \in 1 .. Len(st.temps) /\ q \in LongMask /\ q \in st.free
  /\ S \in SUBSET LongMask /\ S \cap st.used = {st.temps[i].current} \ {NO_REG}
  /\ s \in Spillings /\ s.kind # "XCHG" /\ s.newRegister = q /\ s.affected = st.temps[i].node
  /\ new \in States /\ new.temps = [st.temps EXCEPT ![i].current = q] /\ new.oldest = st.oldest
  /\ new.free = (st.free \cup S) \ {q} /\ new.used = (st.used \ S) \cup {q}
  /\ new.spills = Append(st.spills, s)

(* A temporary moved between registers with the spill that says so.        *)
LEMMA Relocated ==
  ASSUME NEW st, NEW reg, Sound(st, reg), NEW i, NEW q, NEW S, NEW s, NEW new,
         Relocation(st, i, q, S, s, new)
  PROVE  Sound(new, reg) /\ SameTemps(st, new) /\ new.temps[i].current = q
<1>0. /\ i \in 1 .. Len(st.temps) /\ q \in LongMask /\ q \in st.free
      /\ S \in SUBSET LongMask /\ S \cap st.used = {st.temps[i].current} \ {NO_REG}
      /\ s \in Spillings /\ s.kind # "XCHG" /\ s.newRegister = q /\ s.affected = st.temps[i].node
      /\ new \in States /\ new.temps = [st.temps EXCEPT ![i].current = q]
      /\ new.oldest = st.oldest
      /\ new.free = (st.free \cup S) \ {q} /\ new.used = (st.used \ S) \cup {q}
      /\ new.spills = Append(st.spills, s)
  BY DEF Relocation
<1> DEFINE n == Len(st.temps)
           m == Len(st.spills)
<1>1. /\ Typed(st) /\ Exact(st) /\ Followed(st, reg) /\ n \in Nat /\ m \in Nat /\ i \in 1 .. n
      /\ st.temps \in Seq(Temporaries) /\ st.spills \in Seq(Spillings)
      /\ st.oldest <= n /\ DOMAIN st.temps = 1 .. n
      /\ \A j \in 1 .. n : st.temps[j] \in Temporaries
      /\ st.used \subseteq LongMask /\ st.free \subseteq LongMask
  BY <1>0 DEF Sound, Typed, States
<1>2. /\ Len(new.temps) = n
      /\ \A j \in 1 .. n : /\ new.temps[j].node = st.temps[j].node
                           /\ new.temps[j].current = IF j = i THEN q ELSE st.temps[j].current
  <2>1. Len(new.temps) = n /\ \A j \in 1 .. n : new.temps[j] = IF j = i THEN [st.temps[i] EXCEPT !.current = q] ELSE st.temps[j]
    BY <1>0, <1>1
  <2> QED
    BY <1>0, <1>1, <2>1 DEF Temporaries
<1>3. /\ Len(new.spills) = m + 1 /\ \A j \in 1 .. m : new.spills[j] = st.spills[j]
      /\ new.spills[m + 1] = s
  BY <1>0, <1>1, AppendProperties
<1>4. Typed(new)
  BY <1>0, <1>1, <1>2 DEF Typed
<1> HIDE DEF n, m
<1>5. q # NO_REG
  BY <1>0, Numbers
<1>6. Exact(new)
  <2>1. /\ st.used = {st.temps[j].current : j \in 1 .. n} \ {NO_REG}
        /\ st.free = LongMask \ st.used
        /\ \A j, k \in 1 .. n :
             st.temps[j].current = st.temps[k].current /\ st.temps[j].current # NO_REG => j = k
    BY <1>0, <1>1 DEF Exact, RegistersOf, n
  <2>2. \A j \in 1 .. n : st.temps[j].current # q
    BY <1>0, <1>5, <2>1
  <2>3. ASSUME NEW r \in new.used PROVE \E j \in 1 .. n : r = new.temps[j].current /\ r # NO_REG
    <3>1. CASE r = q
      BY <1>0, <1>1, <1>2, <1>5, <3>1
    <3>2. CASE r # q
      <4>1. r \in st.used /\ r \notin S
        BY <1>0, <3>2
      <4>2. PICK j \in 1 .. n : r = st.temps[j].current /\ r # NO_REG
        BY <1>0, <2>1, <4>1
      <4>3. j # i
        BY <1>0, <4>1, <4>2
      <4> QED
        BY <1>0, <1>2, <4>2, <4>3
    <3> QED
      BY <1>0, <3>1, <3>2
  <2>4. ASSUME NEW j \in 1 .. n, new.temps[j].current # NO_REG
        PROVE  new.temps[j].current \in new.used
    <3>1. CASE j = i
      BY <1>0, <1>2, <3>1
    <3>2. CASE j # i
      <4>1. new.temps[j].current = st.temps[j].current /\ st.temps[j].current \in st.used
        BY <1>0, <1>2, <2>1, <2>4, <3>2
      <4>2. st.temps[j].current \notin S
        BY <1>0, <1>1, <2>1, <2>4, <3>2, <4>1
      <4> QED
        BY <1>0, <4>1, <4>2
    <3> QED
      BY <1>0, <3>1, <3>2
  <2>5. new.used = {new.temps[j].current : j \in 1 .. n} \ {NO_REG}
    BY <1>0, <2>3, <2>4
  <2>6. new.free = LongMask \ new.used
    BY <1>0, <2>1
  <2>7. ASSUME NEW j \in 1 .. n, NEW k \in 1 .. n,
               new.temps[j].current = new.temps[k].current, new.temps[j].current # NO_REG
        PROVE  j = k
    BY <1>0, <1>2, <2>1, <2>2, <2>7
  <2> QED
    BY <1>0, <1>2, <2>5, <2>6, <2>7 DEF Exact, RegistersOf
<1>7. Followed(new, reg)
  <2>1. /\ About(st.spills, DOMAIN reg)
        /\ \A j \in 1 .. n : /\ st.temps[j].node \in DOMAIN reg
                             /\ Latest(st.spills, reg, st.temps[j].node) = st.temps[j].current
        /\ \A j, k \in 1 .. n : st.temps[j].node = st.temps[k].node => j = k
    BY <1>0, <1>1 DEF Followed, n
  <2>2. About(new.spills, DOMAIN reg)
    <3>1. \A j \in 1 .. m + 1 : j \in 1 .. m \/ j = m + 1
      BY <1>0, <1>1
    <3> QED
      BY <1>0, <1>1, <1>3, <2>1, <3>1 DEF About, m
  <2>3. ASSUME NEW j \in 1 .. n
        PROVE  Latest(new.spills, reg, st.temps[j].node) = new.temps[j].current
    <3> DEFINE d == st.temps[j].node
    <3>1. st.spills \in Seq(Spillings) /\ d \in DOMAIN reg
      BY <1>0, <1>1, <2>1
    <3> HIDE DEF d
    <3>2. Latest(Append(st.spills, s), reg, d)
            = IF d = s.affected THEN s.newRegister ELSE Latest(st.spills, reg, d)
      BY <1>0, <3>1, LatestAppended
    <3>5. d = s.affected <=> j = i
      BY <1>0, <1>1, <2>1 DEF d
    <3> QED
      BY <1>0, <1>2, <2>1, <3>2, <3>5 DEF d
  <2> QED
    BY <1>0, <1>2, <2>1, <2>2, <2>3 DEF Followed
<1> QED
  BY <1>0, <1>1, <1>2, <1>4, <1>6, <1>7 DEF Sound, SameTemps, n

(* The same state, with one temporary desired elsewhere.                   *)
LEMMA Redesired ==
  ASSUME NEW st, NEW reg, Sound(st, reg), NEW i \in 1 .. Len(st.temps),
         NEW mask \in (SUBSET LongMask) \ {{}}
  PROVE  LET new == [st EXCEPT !.temps[i].desired = mask]
         IN  Sound(new, reg) /\ SameTemps(st, new) /\ new.failed = st.failed
<1> DEFINE n == Len(st.temps)
           new == [st EXCEPT !.temps[i].desired = mask]
           temps == [st.temps EXCEPT ![i].desired = mask]
<1>1. /\ Typed(st) /\ Exact(st) /\ Followed(st, reg) /\ n \in Nat
      /\ st \in States /\ st.temps \in Seq(Temporaries) /\ DOMAIN st.temps = 1 .. n
      /\ \A j \in 1 .. n : st.temps[j] \in Temporaries
  BY DEF Sound, Typed, States
<1>2. /\ temps \in Seq(Temporaries) /\ Len(temps) = n
      /\ \A j \in 1 .. n : /\ temps[j].node = st.temps[j].node
                           /\ temps[j].current = st.temps[j].current
  <2>1. [st.temps[i] EXCEPT !.desired = mask] \in Temporaries
    BY <1>1 DEF Temporaries
  <2>2. /\ temps \in Seq(Temporaries) /\ Len(temps) = n
        /\ \A j \in 1 .. n :
             temps[j] = IF j = i THEN [st.temps[i] EXCEPT !.desired = mask] ELSE st.temps[j]
    <3> DEFINE new1 == [st.temps[i] EXCEPT !.desired = mask]
    <3> HIDE DEF Temporaries
    <3> QED
      BY <1>1, <2>1
  <2> QED
    BY <1>1, <2>2 DEF Temporaries
<1>3. /\ new \in States /\ new.temps = temps /\ new.oldest = st.oldest /\ new.free = st.free
      /\ new.used = st.used /\ new.spills = st.spills /\ new.failed = st.failed
  <2>1. new = [st EXCEPT !.temps = temps]
    BY <1>1 DEF States
  <2> HIDE DEF new, temps, Temporaries, Spillings
  <2> QED
    BY <1>1, <1>2, <2>1 DEF States
<1> HIDE DEF new, temps, n
<1>4. RegistersOf(new, 1, n) = RegistersOf(st, 1, n)
  BY <1>2, <1>3 DEF RegistersOf
<1>5. Typed(new) /\ Exact(new) /\ Followed(new, reg)
  BY <1>1, <1>2, <1>3, <1>4 DEF Typed, Exact, Followed, n
<1> QED
  BY <1>2, <1>3, <1>5 DEF Sound, SameTemps, new, n

(* _tempRegisters is of no account to the temporaries.                     *)
LEMMA Remembered ==
  ASSUME NEW st, NEW reg, Sound(st, reg), NEW mask \in SUBSET LongMask
  PROVE  LET new == [st EXCEPT !.tempRegisters = mask]
         IN  Sound(new, reg) /\ new.temps = st.temps /\ new.failed = st.failed
<1> DEFINE new == [st EXCEPT !.tempRegisters = mask]
<1>1. /\ new \in States /\ new.temps = st.temps /\ new.oldest = st.oldest /\ new.free = st.free
      /\ new.used = st.used /\ new.spills = st.spills /\ new.failed = st.failed
  <2> HIDE DEF Temporaries, Spillings
  <2> QED
    BY DEF Sound, Typed, States
<1> HIDE DEF new
<1>2. Typed(new) /\ Exact(new) /\ Followed(new, reg)
  BY <1>1 DEF Sound, Typed, Exact, Followed, RegistersOf
<1> QED
  BY <1>1, <1>2 DEF Sound, new

(* Two steps that leave each temporary with its node.                      *)
LEMMA TempsSame ==
  ASSUME NEW a, NEW b, NEW c, SameTemps(a, b), SameTemps(b, c)
  PROVE  SameTemps(a, c)
BY DEF SameTemps

(* The fields of a temporary.                                              *)
LEMMA TempIs ==
  ASSUME NEW st \in States, NEW i \in 1 .. Len(st.temps)
  PROVE  /\ st.temps[i] \in Temporaries /\ st.temps[i].node \in Paths
         /\ st.temps[i].current \in Registers
         /\ st.temps[i].desired \in (SUBSET LongMask) \ {{}}
<1>1. st.temps \in Seq(Temporaries)
  BY DEF States
<1> HIDE DEF Temporaries
<1>2. st.temps[i] \in Temporaries
  BY <1>1, ElementOfSeq
<1> QED
  BY <1>2 DEF Temporaries

(* The single changes that the operations are made of.                     *)
LEMMA AddSpillFields ==
  ASSUME NEW st \in States, NEW s \in Spillings
  PROVE  LET new == AddSpill(st, s)
         IN  /\ new \in States /\ new.spills = Append(st.spills, s)
             /\ new.temps = st.temps /\ new.oldest = st.oldest /\ new.failed = st.failed
             /\ new.free = st.free /\ new.used = st.used /\ new.tempRegisters = st.tempRegisters
<1>1. Append(st.spills, s) \in Seq(Spillings)
  <2>1. st.spills \in Seq(Spillings)
    BY DEF States
  <2> HIDE DEF Spillings
  <2> QED
    BY <2>1, AppendProperties
<1> HIDE DEF Temporaries, Spillings
<1> QED
  BY <1>1 DEF AddSpill, States

(* What freeRegs() and consumeRegs() change, field by field.               *)
LEMMA RegsFields ==
  ASSUME NEW st \in States, NEW mask \in SUBSET LongMask
  PROVE  /\ LET new == freeRegs(st, mask)
            IN  /\ new \in States /\ new.free = st.free \cup mask /\ new.used = st.used \ mask
                /\ new.temps = st.temps /\ new.oldest = st.oldest /\ new.failed = st.failed
                /\ new.spills = st.spills /\ new.tempRegisters = st.tempRegisters
         /\ LET new == consumeRegs(st, mask)
            IN  /\ new \in States /\ new.free = st.free \ mask /\ new.used = st.used \cup mask
                /\ new.temps = st.temps /\ new.oldest = st.oldest /\ new.failed = st.failed
                /\ new.spills = st.spills /\ new.tempRegisters = st.tempRegisters
<1> HIDE DEF Temporaries, Spillings
<1> QED
  BY DEF freeRegs, consumeRegs, States

(* What a new _tempRegisters changes.                                      *)
LEMMA KeptFields ==
  ASSUME NEW st \in States, NEW mask \in SUBSET LongMask
  PROVE  LET new == [st EXCEPT !.tempRegisters = mask]
         IN  /\ new \in States /\ new.free = st.free /\ new.used = st.used
             /\ new.temps = st.temps /\ new.oldest = st.oldest /\ new.failed = st.failed
             /\ new.spills = st.spills
<1> HIDE DEF Temporaries, Spillings
<1> QED
  BY DEF States

(* new is st with temporary i in register q, or on the stack.              *)
Placing(st, i, q, new) ==
  /\ new \in States /\ new.temps = [st.temps EXCEPT ![i].current = q]
  /\ Len(new.temps) = Len(st.temps)
  /\ \A j \in 1 .. Len(st.temps) :
       /\ new.temps[j].node = st.temps[j].node
       /\ new.temps[j].desired = st.temps[j].desired
       /\ new.temps[j].current = IF j = i THEN q ELSE st.temps[j].current
  /\ new.free = st.free /\ new.used = st.used /\ new.oldest = st.oldest
  /\ new.failed = st.failed /\ new.spills = st.spills
  /\ new.tempRegisters = st.tempRegisters

(* What a new register of a temporary changes.                             *)
LEMMA SetCurrentFields ==
  ASSUME NEW st \in States, NEW i \in 1 .. Len(st.temps), NEW q \in Registers
  PROVE  Placing(st, i, q, SetCurrent(st, i, q))
<1> DEFINE tm == [st.temps[i] EXCEPT !.current = q]
           temps == [st.temps EXCEPT ![i] = tm]
           new == SetCurrent(st, i, q)
<1>1. st.temps \in Seq(Temporaries)
  BY DEF States
<1>2. /\ tm \in Temporaries /\ tm.node = st.temps[i].node /\ tm.desired = st.temps[i].desired
      /\ tm.current = q
  <2>1. st.temps[i] \in Temporaries
    BY TempIs
  <2> QED
    BY <2>1 DEF Temporaries
<1>3. [st.temps EXCEPT ![i].current = q] = temps
  BY <1>1
<1> HIDE DEF tm, Temporaries, Spillings
<1>4. /\ temps \in Seq(Temporaries) /\ Len(temps) = Len(st.temps)
      /\ \A j \in 1 .. Len(st.temps) : temps[j] = IF j = i THEN tm ELSE st.temps[j]
  BY <1>1, <1>2, ExceptSeq
<1> HIDE DEF temps
<1>5. new = [st EXCEPT !.temps = temps]
  BY <1>3 DEF SetCurrent, States, temps, tm
<1> QED
  BY <1>2, <1>3, <1>4, <1>5 DEF States, Placing

(* The second half of cleanupTemp() keeps the allocator sound.             *)
LEMMA Moved ==
  ASSUME NEW st, NEW reg, Sound(st, reg), ~ st.failed, NEW where \in Paths,
         NEW i \in 1 .. Len(st.temps), st.temps[i].current # NO_REG
  PROVE  LET new == MoveTemp(st, reg, where, i)
         IN  \/ new.failed /\ Typed(new)
             \/ /\ ~ new.failed /\ Sound(new, reg) /\ SameTemps(st, new)
                /\ new.temps[i].current \in LongMask
<1> DEFINE tm == st.temps[i]
           r == st.temps[i].current
           g == getreg(st, where, tm.desired, tm.desired)
           h == g.st
           q == g.r
           s == Spill("MOVE", where, q, tm.node, <<>>)
           new == MoveTemp(st, reg, where, i)
<1>1. /\ Typed(st) /\ Exact(st) /\ Followed(st, reg) /\ st \in States
      /\ r \in LongMask /\ tm.desired \in SUBSET LongMask /\ tm.node \in Paths
  <2>1. Typed(st) /\ Exact(st) /\ Followed(st, reg) /\ st \in States
    BY DEF Sound, Typed
  <2> QED
    BY <2>1, TempIs DEF Registers
<1>2. latestResult(st, reg, tm.node) = r
  BY <1>1, LatestIs DEF Followed
<1>3. r # NO_REG
  OBVIOUS
<1>4. CASE r \in tm.desired
  <2>1. new = SetCurrent(st, i, r)
    BY <1>2, <1>3, <1>4 DEF MoveTemp
  <2>2. [st.temps EXCEPT ![i].current = r] = st.temps
    <3>1. st.temps[i] \in Temporaries /\ st.temps \in Seq(Temporaries)
      BY <1>1, TempIs DEF States
    <3>2. [st.temps[i] EXCEPT !.current = r] = st.temps[i]
      BY <3>1 DEF Temporaries
    <3> HIDE DEF Temporaries
    <3> QED
      BY <3>1, <3>2
  <2>3. new = st
    BY <1>1, <2>1, <2>2 DEF SetCurrent, States
  <2> QED
    BY <1>1, <2>3 DEF SameTemps
<1>5. CASE r \notin tm.desired /\ h.failed
  <2>1. new = h
    BY <1>2, <1>3, <1>5 DEF MoveTemp
  <2>2. Typed(h)
    BY <1>1, <1>5, Got
  <2> QED
    BY <1>5, <2>1, <2>2
<1>6. CASE r \notin tm.desired /\ ~ h.failed
  <2> DEFINE S == {r}
             added == AddSpill(h, s)
             freed == freeRegs(added, S)
             taken == consumeRegs(freed, {q})
             kept == (taken.tempRegisters \ {r}) \cup {q}
             last == [taken EXCEPT !.tempRegisters = kept]
  <2>1. Sound(h, reg) /\ Pushed(st, h) /\ q \in tm.desired /\ q \in h.free
    BY <1>1, <1>6, Got
  <2>2. new = SetCurrent(last, i, q)
    BY <1>2, <1>3, <1>6 DEF MoveTemp
  <2>3. /\ h \in States /\ i \in 1 .. Len(h.temps) /\ q \in LongMask /\ q # r
        /\ S \in SUBSET LongMask /\ {q} \in SUBSET LongMask
        /\ h.temps[i].node = tm.node /\ h.temps[i].current \in {NO_REG, r}
        /\ Exact(h)
    BY <1>1, <1>6, <2>1 DEF Sound, Typed, Pushed
  <2>4. s \in Spillings /\ s.kind = "MOVE" /\ s.newRegister = q /\ s.affected = tm.node
    <3>1. <<>> \in Paths /\ q \in Registers
      BY <2>3 DEF Paths, Registers
    <3> QED
      BY <1>1, <3>1 DEF Spill, Spillings
  <2>5. S \cap h.used = {h.temps[i].current} \ {NO_REG}
    <3>1. h.used = {h.temps[j].current : j \in 1 .. Len(h.temps)} \ {NO_REG}
      BY <2>3 DEF Exact, RegistersOf
    <3>2. ASSUME NEW j \in 1 .. Len(h.temps), h.temps[j].current = r PROVE j = i
      <4>1. st.temps[j].current = r /\ j \in 1 .. Len(st.temps)
        BY <1>3, <2>1, <3>2 DEF Pushed
      <4> QED
        BY <1>1, <1>3, <4>1 DEF Exact
    <3>3. r \in h.used <=> h.temps[i].current = r
      BY <1>3, <2>3, <3>1, <3>2
    <3> QED
      BY <1>3, <2>3, <3>3
  <2> HIDE DEF h, q, s, new, tm, r, S, added, freed, taken, last
  <2>6. /\ added \in States /\ added.spills = Append(h.spills, s)
        /\ added.temps = h.temps /\ added.oldest = h.oldest /\ added.failed = h.failed
        /\ added.free = h.free /\ added.used = h.used
    BY <2>3, <2>4, AddSpillFields DEF added
  <2>7. /\ freed \in States /\ freed.spills = Append(h.spills, s)
        /\ freed.temps = h.temps /\ freed.oldest = h.oldest /\ freed.failed = h.failed
        /\ freed.free = h.free \cup S /\ freed.used = h.used \ S
    BY <2>3, <2>6, RegsFields DEF freed
  <2>8. /\ taken \in States /\ taken.spills = Append(h.spills, s)
        /\ taken.temps = h.temps /\ taken.oldest = h.oldest /\ taken.failed = h.failed
        /\ taken.free = (h.free \cup S) \ {q} /\ taken.used = (h.used \ S) \cup {q}
    BY <2>3, <2>7, RegsFields DEF taken
  <2>9. kept \in SUBSET LongMask
    BY <2>3, <2>8 DEF States
  <2> HIDE DEF kept
  <2>10. /\ last \in States /\ last.spills = Append(h.spills, s)
         /\ last.temps = h.temps /\ last.oldest = h.oldest /\ last.failed = h.failed
         /\ last.free = (h.free \cup S) \ {q} /\ last.used = (h.used \ S) \cup {q}
    BY <2>8, <2>9, KeptFields DEF last
  <2>11. /\ new \in States /\ new.spills = Append(h.spills, s)
         /\ new.temps = [h.temps EXCEPT ![i].current = q]
         /\ new.oldest = h.oldest /\ new.failed = h.failed
         /\ new.free = (h.free \cup S) \ {q} /\ new.used = (h.used \ S) \cup {q}
    <3>1. q \in Registers /\ i \in 1 .. Len(last.temps)
      BY <2>3, <2>10 DEF Registers
    <3> QED
      BY <2>2, <2>10, <3>1, SetCurrentFields DEF Placing
  <2>12. Sound(new, reg) /\ SameTemps(h, new) /\ new.temps[i].current = q
    <3>1. Relocation(h, i, q, S, s, new)
      BY <2>1, <2>3, <2>4, <2>5, <2>11 DEF Relocation
    <3> QED
      BY <2>1, <3>1, Relocated
  <2>13. SameTemps(st, new)
    BY <2>1, <2>12, PushedSame, TempsSame
  <2> QED
    BY <1>6, <2>3, <2>11, <2>12, <2>13 DEF new, h
<1> QED
  BY <1>4, <1>5, <1>6

(* cleanupTemp() fails or leaves the temporary in a register.              *)
LEMMA Cleaned ==
  ASSUME NEW st, NEW reg, Sound(st, reg), ~ st.failed, NEW where \in Paths,
         NEW i \in 1 .. Len(st.temps)
  PROVE  LET new == cleanupTemp(st, reg, where, i)
         IN  \/ new.failed /\ Typed(new)
             \/ /\ ~ new.failed /\ Sound(new, reg) /\ SameTemps(st, new)
                /\ new.temps[i].current \in LongMask
<1> DEFINE tm == st.temps[i]
           mask == tm.desired \cap st.free
           q == lowestReg(mask)
           s == Spill("POP", where, q, tm.node, <<>>)
           popped == consumeRegs(AddSpill(st, s), {q})
           new == cleanupTemp(st, reg, where, i)
<1>1. /\ Typed(st) /\ Exact(st) /\ Followed(st, reg) /\ st \in States
      /\ st.temps \in Seq(Temporaries) /\ Len(st.temps) \in Nat
      /\ tm.node \in Paths /\ st.free \subseteq LongMask /\ st.spills \in Seq(Spillings)
  <2>1. /\ Typed(st) /\ Exact(st) /\ Followed(st, reg) /\ st \in States
        /\ st.temps \in Seq(Temporaries) /\ Len(st.temps) \in Nat /\ st.free \subseteq LongMask
        /\ st.spills \in Seq(Spillings)
    BY DEF Sound, Typed, States
  <2> QED
    BY <2>1, TempIs
<1>2. CASE tm.current # NO_REG
  <2>1. PopTemp(st, where, i) = st
    BY <1>2 DEF PopTemp
  <2>2. new = MoveTemp(st, reg, where, i)
    BY <2>1 DEF cleanupTemp
  <2> HIDE DEF new
  <2> QED
    BY <1>2, <2>2, Moved DEF new
<1>3. CASE tm.current = NO_REG /\ mask = {}
  <2>1. PopTemp(st, where, i) = [st EXCEPT !.failed = TRUE]
    BY <1>3 DEF PopTemp
  <2>2. Typed([st EXCEPT !.failed = TRUE]) /\ [st EXCEPT !.failed = TRUE].failed
    BY <1>1, TypedFailed
  <2> QED
    BY <2>1, <2>2 DEF cleanupTemp
<1>4. CASE tm.current = NO_REG /\ mask # {}
  <2>1. q \in tm.desired /\ q \in st.free /\ q \in LongMask /\ q # NO_REG
    BY <1>1, <1>4, LowestIn, Numbers DEF lowestReg
  <2>2. PopTemp(st, where, i) = popped
    BY <1>4 DEF PopTemp
  <2>3. /\ popped.failed = st.failed /\ popped.spills = Append(st.spills, s)
        /\ popped.temps = st.temps
    BY <1>1 DEF consumeRegs, AddSpill, States
  <2>4. s \in Spillings /\ s.kind = "POP" /\ s.newRegister = q /\ s.affected = tm.node
    <3>1. <<>> \in Paths /\ q \in Registers
      BY <2>1 DEF Paths, Registers
    <3> QED
      BY <1>1, <3>1 DEF Spill, Spillings
  <2>5. latestResult(popped, reg, tm.node) = q
    <3>1. tm.node \in DOMAIN reg
      BY <1>1 DEF Followed
    <3> HIDE DEF popped, s, tm, q
    <3>2. latestResult(popped, reg, tm.node) = Latest(Append(st.spills, s), reg, tm.node)
      BY <2>3, <3>1, LatestIs
    <3> QED
      BY <1>1, <2>4, <3>1, <3>2, LatestAppended
  <2>6. new = SetCurrent(popped, i, q)
    <3> HIDE DEF popped, q, mask
    <3>1. new = MoveTemp(popped, reg, where, i)
      BY <2>2, <2>3 DEF cleanupTemp
    <3> QED
      BY <2>1, <2>3, <2>5, <3>1 DEF MoveTemp
  <2>7. {} \cap st.used = {tm.current} \ {NO_REG}
    BY <1>4
  <2> DEFINE S == {}
             added == AddSpill(st, s)
  <2> HIDE DEF q, s, new, tm, popped, added
  <2>8. /\ new \in States /\ new.temps = [st.temps EXCEPT ![i].current = q]
        /\ new.oldest = st.oldest /\ new.failed = st.failed
        /\ new.free = st.free \ {q} /\ new.used = st.used \cup {q}
        /\ new.spills = Append(st.spills, s)
    <3>1. /\ added \in States /\ added.spills = Append(st.spills, s)
          /\ added.temps = st.temps /\ added.oldest = st.oldest /\ added.failed = st.failed
          /\ added.free = st.free /\ added.used = st.used
      BY <1>1, <2>4, AddSpillFields DEF added
    <3>2. {q} \in SUBSET LongMask /\ q \in Registers
      BY <2>1 DEF Registers
    <3>3. /\ popped \in States /\ popped.spills = Append(st.spills, s)
          /\ popped.temps = st.temps /\ popped.oldest = st.oldest /\ popped.failed = st.failed
          /\ popped.free = st.free \ {q} /\ popped.used = st.used \cup {q}
      BY <3>1, <3>2, RegsFields DEF popped, added
    <3>4. i \in 1 .. Len(popped.temps)
      BY <3>3
    <3>5. Placing(popped, i, q, SetCurrent(popped, i, q))
      BY <3>2, <3>3, <3>4, SetCurrentFields
    <3> QED
      BY <2>6, <3>3, <3>5 DEF Placing
  <2>9. /\ S \in SUBSET LongMask /\ S \cap st.used = {st.temps[i].current} \ {NO_REG}
        /\ new.free = (st.free \cup S) \ {q} /\ new.used = (st.used \ S) \cup {q}
        /\ s.kind # "XCHG" /\ s.affected = st.temps[i].node
    BY <2>4, <2>7, <2>8 DEF tm
  <2> HIDE DEF S
  <2>10. Sound(new, reg) /\ SameTemps(st, new) /\ new.temps[i].current = q
    <3>1. Relocation(st, i, q, S, s, new)
      BY <2>1, <2>4, <2>8, <2>9 DEF Relocation
    <3> QED
      BY <3>1, Relocated
  <2> QED
    BY <2>1, <2>8, <2>10 DEF new
<1> QED
  BY <1>2, <1>3, <1>4

(* An exchange of two temporaries keeps the allocator sound.               *)
LEMMA Exchanged ==
  ASSUME NEW st, NEW reg, Sound(st, reg), NEW where \in Paths,
         NEW a \in 1 .. Len(st.temps), NEW b \in 1 .. Len(st.temps)
  PROVE  LET ra  == st.temps[a].current
             rb  == st.temps[b].current
             new == AddSpill(SetCurrent(SetCurrent(st, b, ra), a, rb),
                             Spill("XCHG", where, rb, st.temps[a].node, st.temps[b].node))
         IN  Sound(new, reg) /\ SameTemps(st, new) /\ new.failed = st.failed
<1> DEFINE n == Len(st.temps)
           ra == st.temps[a].current
           rb == st.temps[b].current
           s == Spill("XCHG", where, rb, st.temps[a].node, st.temps[b].node)
           one == SetCurrent(st, b, ra)
           two == SetCurrent(one, a, rb)
           new == AddSpill(two, s)
           Cur(j) == IF j = a THEN rb ELSE IF j = b THEN ra ELSE st.temps[j].current
<1>1. /\ Typed(st) /\ Exact(st) /\ Followed(st, reg) /\ st \in States /\ n \in Nat
      /\ st.oldest <= n /\ st.spills \in Seq(Spillings)
  BY DEF Sound, Typed, States
<1>2. /\ ra \in Registers /\ rb \in Registers
      /\ st.temps[a].node \in Paths /\ st.temps[b].node \in Paths
  BY <1>1, TempIs
<1>3. /\ s \in Spillings /\ s.kind = "XCHG" /\ s.affected = st.temps[a].node
      /\ s.other = st.temps[b].node
  BY <1>2 DEF Spill, Spillings
<1>s. one = SetCurrent(st, b, ra) /\ two = SetCurrent(one, a, rb) /\ new = AddSpill(two, s)
  OBVIOUS
<1> HIDE DEF s, ra, rb, one, two, new
<1>4. /\ one \in States /\ Len(one.temps) = n
      /\ \A j \in 1 .. n : /\ one.temps[j].node = st.temps[j].node
                           /\ one.temps[j].current = IF j = b THEN ra ELSE st.temps[j].current
      /\ one.free = st.free /\ one.used = st.used /\ one.oldest = st.oldest
      /\ one.failed = st.failed /\ one.spills = st.spills
  <2>1. Placing(st, b, ra, one)
    BY <1>1, <1>2, <1>s, SetCurrentFields
  <2> QED
    BY <2>1 DEF Placing
<1>5. /\ two \in States /\ Len(two.temps) = n
      /\ \A j \in 1 .. n : /\ two.temps[j].node = st.temps[j].node
                           /\ two.temps[j].current = Cur(j)
      /\ two.free = st.free /\ two.used = st.used /\ two.oldest = st.oldest
      /\ two.failed = st.failed /\ two.spills = st.spills
  <2>1. a \in 1 .. Len(one.temps)
    BY <1>4
  <2>2. Placing(one, a, rb, two)
    BY <1>2, <1>4, <1>s, <2>1, SetCurrentFields
  <2> QED
    BY <1>4, <2>2 DEF Placing
<1>6. /\ new \in States /\ new.temps = two.temps /\ new.spills = Append(st.spills, s)
      /\ new.free = st.free /\ new.used = st.used /\ new.oldest = st.oldest
      /\ new.failed = st.failed
  BY <1>3, <1>5, <1>s, AddSpillFields
<1> HIDE DEF n
<1>7. /\ Len(new.temps) = n
      /\ \A j \in 1 .. n : /\ new.temps[j].node = st.temps[j].node
                           /\ new.temps[j].current = Cur(j)
  BY <1>5, <1>6
<1>8. Typed(new)
  BY <1>1, <1>6, <1>7 DEF Typed
<1> DEFINE Swapped(j) == IF j = a THEN b ELSE IF j = b THEN a ELSE j
<1>9. /\ a \in 1 .. n /\ b \in 1 .. n
      /\ \A j \in 1 .. n : Swapped(j) \in 1 .. n /\ Cur(j) = st.temps[Swapped(j)].current
      /\ \A j \in 1 .. n : Swapped(Swapped(j)) = j
  BY DEF n, ra, rb
<1>10. \A j \in 1 .. n : st.temps[j].current = Cur(Swapped(j))
  BY <1>9
<1> HIDE DEF Cur, Swapped
<1>11. Exact(new)
  <2>1. /\ st.used = {st.temps[j].current : j \in 1 .. n} \ {NO_REG}
        /\ st.free = LongMask \ st.used
        /\ \A j, k \in 1 .. n :
             st.temps[j].current = st.temps[k].current /\ st.temps[j].current # NO_REG => j = k
    BY <1>1 DEF Exact, RegistersOf, n
  <2>2. {new.temps[j].current : j \in 1 .. n} = {st.temps[j].current : j \in 1 .. n}
    <3>1. ASSUME NEW j \in 1 .. n
          PROVE  /\ new.temps[j].current \in {st.temps[k].current : k \in 1 .. n}
                 /\ st.temps[j].current \in {new.temps[k].current : k \in 1 .. n}
      <4>1. /\ Swapped(j) \in 1 .. n
            /\ new.temps[j].current = st.temps[Swapped(j)].current
            /\ st.temps[j].current = new.temps[Swapped(j)].current
        BY <1>7, <1>9, <1>10
      <4> QED
        BY <4>1
    <3> QED
      BY <3>1
  <2>3. ASSUME NEW j \in 1 .. n, NEW k \in 1 .. n,
               new.temps[j].current = new.temps[k].current, new.temps[j].current # NO_REG
        PROVE  j = k
    <3>1. Swapped(j) = Swapped(k)
      <4>1. /\ Swapped(j) \in 1 .. n /\ Swapped(k) \in 1 .. n
            /\ new.temps[j].current = st.temps[Swapped(j)].current
            /\ new.temps[k].current = st.temps[Swapped(k)].current
        BY <1>7, <1>9
      <4> QED
        BY <2>1, <2>3, <4>1
    <3> QED
      BY <1>9, <3>1
  <2> QED
    BY <1>6, <1>7, <2>1, <2>2, <2>3 DEF Exact, RegistersOf
<1>12. Followed(new, reg)
  <2>1. /\ About(st.spills, DOMAIN reg)
        /\ \A j \in 1 .. n : /\ st.temps[j].node \in DOMAIN reg
                             /\ Latest(st.spills, reg, st.temps[j].node) = st.temps[j].current
        /\ \A j, k \in 1 .. n : st.temps[j].node = st.temps[k].node => j = k
    BY <1>1 DEF Followed, n
  <2>2. s.affected \in DOMAIN reg /\ s.other \in DOMAIN reg
    BY <1>3, <1>9, <2>1
  <2>3. About(new.spills, DOMAIN reg)
    <3>1. /\ Len(new.spills) = Len(st.spills) + 1 /\ Len(st.spills) \in Nat
          /\ \A j \in 1 .. Len(st.spills) : new.spills[j] = st.spills[j]
          /\ new.spills[Len(st.spills) + 1] = s
      <4> HIDE DEF Spillings
      <4> QED
        BY <1>1, <1>3, <1>6, AppendProperties
    <3>2. \A j \in 1 .. Len(new.spills) : j \in 1 .. Len(st.spills) \/ j = Len(st.spills) + 1
      BY <3>1
    <3> QED
      BY <2>1, <2>2, <3>1, <3>2 DEF About
  <2>4. ASSUME NEW j \in 1 .. n
        PROVE  Latest(new.spills, reg, st.temps[j].node) = new.temps[j].current
    <3> DEFINE d == st.temps[j].node
    <3>1. d \in DOMAIN reg
      BY <2>1
    <3>2. (d = s.affected <=> j = a) /\ (d = s.other <=> j = b)
      BY <1>3, <1>9, <2>1
    <3> HIDE DEF d
    <3>3. Latest(new.spills, reg, d)
            = IF d = s.affected THEN Latest(st.spills, reg, s.other)
              ELSE IF d = s.other THEN Latest(st.spills, reg, s.affected)
              ELSE Latest(st.spills, reg, d)
      BY <1>1, <1>3, <1>6, <2>2, <3>1, LatestAppended
    <3>4. Latest(st.spills, reg, s.other) = rb /\ Latest(st.spills, reg, s.affected) = ra
      BY <1>3, <1>9, <2>1 DEF ra, rb
    <3> QED
      BY <1>7, <2>1, <3>2, <3>3, <3>4 DEF d, Cur
  <2> QED
    BY <1>7, <2>1, <2>3, <2>4 DEF Followed
<1> QED
  BY <1>6, <1>7, <1>8, <1>11, <1>12 DEF Sound, SameTemps, new, two, one, s, ra, rb, n

(* The temporaries above depth released: those that had a register leave   *)
(* it free.                                                                *)
LEMMA Released ==
  ASSUME NEW st, NEW reg, Sound(st, reg), NEW depth \in 0 .. Len(st.temps)
  PROVE  LET new == [freeRegs(st, RegistersOf(st, depth + 1, Len(st.temps))) EXCEPT
                       !.temps = SubSeq(@, 1, depth), !.oldest = Min({@, depth})]
         IN  /\ Sound(new, reg) /\ new.failed = st.failed /\ Len(new.temps) = depth
             /\ new.spills = st.spills
             /\ \A i \in 1 .. depth : new.temps[i] = st.temps[i]
             /\ \A i \in depth + 1 .. Len(st.temps) :
                  st.temps[i].current \in new.free \cup {NO_REG}
<1> DEFINE n == Len(st.temps)
           gone == RegistersOf(st, depth + 1, n)
           temps == SubSeq(st.temps, 1, depth)
           oldest == Min({st.oldest, depth})
           new == [freeRegs(st, gone) EXCEPT !.temps = SubSeq(@, 1, depth),
                                             !.oldest = Min({@, depth})]
<1>1. /\ Typed(st) /\ Exact(st) /\ Followed(st, reg) /\ st \in States /\ n \in Nat
      /\ st.oldest \in Nat /\ st.oldest <= n /\ st.temps \in Seq(Temporaries)
      /\ depth \in Nat /\ depth <= n
  BY DEF Sound, Typed, States
<1>2. /\ gone \in SUBSET LongMask
      /\ \A r : r \in gone <=> r # NO_REG /\ \E i \in depth + 1 .. n : r = st.temps[i].current
  <2>1. \A i \in depth + 1 .. n : st.temps[i].current \in Registers
    <3>1. \A i \in depth + 1 .. n : i \in 1 .. Len(st.temps)
      BY <1>1
    <3> QED
      BY <1>1, <3>1, TempIs
  <2> QED
    BY <2>1 DEF RegistersOf, Registers
<1>3. /\ temps \in Seq(Temporaries) /\ Len(temps) = depth
      /\ \A i \in 1 .. depth : temps[i] = st.temps[i]
  <2> HIDE DEF Temporaries
  <2>1. \A i \in 1 .. depth : st.temps[i] \in Temporaries
    BY <1>1
  <2>2. /\ SubSeq(st.temps, 1, depth) \in Seq(Temporaries)
        /\ Len(SubSeq(st.temps, 1, depth)) = IF 1 <= depth THEN depth - 1 + 1 ELSE 0
        /\ \A i \in 1 .. depth - 1 + 1 : SubSeq(st.temps, 1, depth)[i] = st.temps[1 + i - 1]
    BY <1>1, <2>1, SubSeqProperties
  <2> QED
    BY <1>1, <2>2
<1>4. oldest \in Nat /\ oldest <= depth
  <2>1. {st.oldest, depth} \in SUBSET Nat /\ {st.oldest, depth} # {}
    BY <1>1
  <2>2. \E m \in {st.oldest, depth} : \A k \in {st.oldest, depth} : m <= k
    BY <2>1, Least
  <2>3. oldest \in {st.oldest, depth} /\ \A k \in {st.oldest, depth} : oldest <= k
    BY <2>2 DEF Min
  <2> QED
    BY <1>1, <2>3
<1> DEFINE freed == freeRegs(st, gone)
<1>5. /\ freed \in States /\ freed.temps = st.temps /\ freed.oldest = st.oldest
      /\ freed.free = st.free \cup gone /\ freed.used = st.used \ gone
      /\ freed.spills = st.spills /\ freed.failed = st.failed
  BY <1>1, <1>2, RegsFields
<1>6. new = [freed EXCEPT !.temps = temps, !.oldest = oldest]
  BY <1>5 DEF States
<1> HIDE DEF freed, gone, temps, oldest, new, n
<1>7. /\ new \in States /\ new.temps = temps /\ new.oldest = oldest
      /\ new.free = st.free \cup gone /\ new.used = st.used \ gone
      /\ new.spills = st.spills /\ new.failed = st.failed
  <2> HIDE DEF Temporaries, Spillings
  <2> QED
    BY <1>3, <1>4, <1>5, <1>6 DEF States
<1>8. /\ Len(new.temps) = depth
      /\ \A i \in 1 .. depth : i \in 1 .. n /\ new.temps[i] = st.temps[i]
  BY <1>1, <1>3, <1>7
<1>9. Typed(new)
  BY <1>4, <1>7, <1>8 DEF Typed
<1>10. /\ st.used = {st.temps[j].current : j \in 1 .. n} \ {NO_REG}
       /\ st.free = LongMask \ st.used
       /\ \A j, k \in 1 .. n :
            st.temps[j].current = st.temps[k].current /\ st.temps[j].current # NO_REG => j = k
  BY <1>1 DEF Exact, RegistersOf, n
<1>11. Exact(new)
  <2>1. ASSUME NEW r \in new.used
        PROVE  \E i \in 1 .. depth : r = new.temps[i].current /\ r # NO_REG
    <3>1. PICK i \in 1 .. n : r = st.temps[i].current /\ r # NO_REG
      BY <1>7, <1>10
    <3>2. i \notin depth + 1 .. n
      BY <1>2, <1>7, <3>1
    <3>3. i \in 1 .. depth
      BY <1>1, <3>2
    <3> QED
      BY <1>8, <3>1, <3>3
  <2>2. ASSUME NEW i \in 1 .. depth, new.temps[i].current # NO_REG
        PROVE  new.temps[i].current \in new.used
    <3>1. new.temps[i].current = st.temps[i].current /\ st.temps[i].current \in st.used
      BY <1>8, <1>10, <2>2
    <3>2. \A j \in depth + 1 .. n : j \in 1 .. n /\ j # i
      BY <1>1
    <3>3. st.temps[i].current \notin gone
      BY <1>2, <1>8, <1>10, <2>2, <3>1, <3>2
    <3> QED
      BY <1>7, <3>1, <3>3
  <2>3. new.used = {new.temps[i].current : i \in 1 .. depth} \ {NO_REG}
    BY <2>1, <2>2
  <2>4. new.free = LongMask \ new.used
    BY <1>2, <1>7, <1>10
  <2>5. \A j, k \in 1 .. depth :
          new.temps[j].current = new.temps[k].current /\ new.temps[j].current # NO_REG => j = k
    BY <1>8, <1>10
  <2> QED
    BY <1>8, <2>3, <2>4, <2>5 DEF Exact, RegistersOf
<1>12. Followed(new, reg)
  BY <1>1, <1>7, <1>8 DEF Followed, n
<1>13. \A i \in depth + 1 .. n : st.temps[i].current \in new.free \cup {NO_REG}
  BY <1>2, <1>7
<1> QED
  BY <1>7, <1>8, <1>9, <1>11, <1>12, <1>13 DEF Sound, new, gone, n

-----------------------------------------------------------------------------
(* The agenda of the assign phase.                                         *)

(* Expressions of the operators that are given their register by the       *)
(* allocator, closed under operands.                                       *)
Expressions(E) ==
  \A e \in E :
    \/ e.op = "leaf"
    \/ /\ e.op \in {"add", "shift", "subscript"}
       /\ DOMAIN e.kids = 1 .. 2 /\ e.kids[1] \in E /\ e.kids[2] \in E
    \/ /\ e.op = "call" /\ e.kids \in Seq(E) /\ Len(e.kids) <= Len(fastArgs)

Masks == (SUBSET LongMask) \ {{}}

Tasks(E) ==
  [do : {"assign"}, at : Paths, e : E, mask : Masks]
    \cup [do : {"vacate"}, at : Paths, e : E, mask : Masks]
    \cup [do : {"result"}, at : Paths, e : {e \in E : e.op # "leaf"}, mask : Masks]
    \cup [do : {"cleanup"}, at : Paths, depth : Nat,
          stage : {"scan", "move", "swap", "pop", "release"},
          i : Int, fit : Int, pushed : Int, did : BOOLEAN]

Cleans(t) == t.do = "cleanup"
Yields(t, n) == t.do \in {"assign", "result"} /\ t.at = n

(* Path p goes through node n.                                             *)
Under(n, p) == Len(p) >= Len(n) /\ \A j \in 1 .. Len(n) : p[j] = n[j]

(* The nodes that a task will give a register.                             *)
Claims(t, p) ==
  \/ t.do = "assign" /\ Under(t.at, p)
  \/ t.do = "result" /\ p = t.at

(* No node is given a register twice.                                      *)
Fresh(ag, D) ==
  /\ \A k \in 1 .. Len(ag), p \in D : ~ Claims(ag[k], p)
  /\ \A k, l \in 1 .. Len(ag), p \in Paths :
       Claims(ag[k], p) /\ Claims(ag[l], p) => k = l

(* A cleanup releases what its own operands and no others were given.      *)
Depths(ag, n) ==
  /\ \A k \in 1 .. Len(ag) : Cleans(ag[k]) => ag[k].depth <= n
  /\ \A k, l \in 1 .. Len(ag) :
       k < l /\ Cleans(ag[k]) /\ Cleans(ag[l]) => ag[l].depth <= ag[k].depth
  /\ \A k \in 2 .. Len(ag) : Cleans(ag[k]) => ag[k].stage = "scan"

(* Node n is still to be given a register before task c.                   *)
Due(ag, c, n) == \E l \in 1 .. c - 1 : Yields(ag[l], n)

(* When cleanup c begins node n will have a temporary for it to release:   *)
(* it is still to be made, with no cleanup from then to c, or there is one *)
(* and no cleanup before c will release it.                                *)
Waiting(ag, temps, c, n) ==
  \/ \E l \in 1 .. c - 1 : Yields(ag[l], n) /\ \A m \in l + 1 .. c - 1 : ~ Cleans(ag[m])
  \/ \E i \in ag[c].depth + 1 .. Len(temps) :
       temps[i].node = n /\ \A l \in 1 .. c - 1 : Cleans(ag[l]) => i <= ag[l].depth

InPlace(t) == t.do = "result" /\ t.e.op \in {"add", "shift"}

(* The result of an addition or a shift is left where its first operand    *)
(* was, which the cleanup before it releases.                              *)
Waits(ag, temps, D) ==
  /\ \A k \in 2 .. Len(ag) : ag[k].do = "result" => Cleans(ag[k - 1])
  /\ \A k \in 2 .. Len(ag) : InPlace(ag[k]) =>
       /\ Waiting(ag, temps, k - 1, Append(ag[k].at, 1))
       /\ \A i \in 1 .. ag[k - 1].depth : ~ Under(ag[k].at, temps[i].node)
       /\ ag[k].e.op = "shift" =>
            Append(ag[k].at, 2) \in D \/ Due(ag, k - 1, Append(ag[k].at, 2))

Plan(E, ag, temps, D) ==
  /\ ag \in Seq(Tasks(E)) /\ Fresh(ag, D) /\ Depths(ag, Len(temps)) /\ Waits(ag, temps, D)

Glue(S, ag, Y, new) ==
  /\ new \in Seq(S) /\ Len(new) = Len(Y) + Len(ag) - 1
  /\ Len(Y) \in Nat /\ Len(ag) \in Nat /\ Len(ag) >= 1 /\ Head(ag) = ag[1]
  /\ \A k \in 1 .. Len(Y) : new[k] = Y[k]
  /\ \A k \in 2 .. Len(ag) : new[Len(Y) + k - 1] = ag[k]
  /\ \A k \in Len(Y) + 1 .. Len(new) :
       k - Len(Y) + 1 \in 2 .. Len(ag) /\ new[k] = ag[k - Len(Y) + 1]

(* The agenda when the task at its head has been replaced by others.       *)
LEMMA Glued ==
  ASSUME NEW S, NEW ag \in Seq(S), ag # <<>>, NEW Y \in Seq(S)
  PROVE  Glue(S, ag, Y, Y \o Tail(ag))
<1> DEFINE new == Y \o Tail(ag)
           y == Len(Y)
<1>1. /\ y \in Nat /\ Len(ag) \in Nat /\ Len(ag) >= 1 /\ Head(ag) = ag[1]
  OBVIOUS
<1>2. /\ Tail(ag) \in Seq(S) /\ Len(Tail(ag)) = Len(ag) - 1
      /\ \A i \in 1 .. Len(Tail(ag)) : Tail(ag)[i] = ag[i + 1]
  BY HeadTailProperties
<1>3. /\ new \in Seq(S) /\ Len(new) = y + Len(Tail(ag))
      /\ \A i \in 1 .. y + Len(Tail(ag)) : new[i] = IF i <= y THEN Y[i] ELSE Tail(ag)[i - y]
  BY <1>2, ConcatProperties
<1> HIDE DEF new, y
<1>4. \A k \in y + 1 .. Len(new) : k - y + 1 \in 2 .. Len(ag) /\ new[k] = ag[k - y + 1]
  <2> TAKE k \in y + 1 .. Len(new)
  <2>1. k - y \in 1 .. Len(Tail(ag)) /\ k \in 1 .. y + Len(Tail(ag)) /\ ~ (k <= y)
    BY <1>1, <1>2, <1>3
  <2> QED
    BY <1>1, <1>2, <1>3, <2>1
<1>5. \A k \in 2 .. Len(ag) : new[y + k - 1] = ag[k]
  <2> TAKE k \in 2 .. Len(ag)
  <2> DEFINE j == y + k - 1
  <2>1. j \in y + 1 .. Len(new) /\ j - y + 1 = k
    BY <1>1, <1>2, <1>3
  <2> HIDE DEF j
  <2> QED
    BY <1>4, <2>1 DEF j
<1>6. \A k \in 1 .. y : new[k] = Y[k]
  BY <1>1, <1>2, <1>3
<1> QED
  BY <1>1, <1>2, <1>3, <1>4, <1>5, <1>6 DEF new, y, Glue

(* The fields of a task.                                                   *)
LEMMA TaskIs ==
  ASSUME NEW E, NEW t \in Tasks(E)
  PROVE  /\ t.at \in Paths
         /\ t.do \in {"assign", "vacate", "result", "cleanup"}
         /\ Cleans(t) => /\ t.depth \in Nat /\ t.i \in Int
                         /\ t.stage \in {"scan", "move", "swap", "pop", "release"}
         /\ t.do \in {"assign", "result"} => t.e \in E /\ t.mask \in Masks
         /\ t.do = "result" => t.e.op # "leaf"
BY DEF Tasks, Cleans

(* What the task t that ends the work on it may do to the temporaries and  *)
(* to the nodes that have a register.                                      *)
Ends(t, temps, D, temps2, D2) ==
  /\ Len(temps) \in Nat /\ Len(temps2) \in Nat
  /\ \A i \in 1 .. Len(temps) : i <= Len(temps2) => temps2[i].node = temps[i].node
  /\ Cleans(t) => Len(temps2) = t.depth
  /\ ~ Cleans(t) => Len(temps2) >= Len(temps)
  /\ D \subseteq D2 /\ \A p \in D2 : p \in D \/ (p \in Paths /\ Yields(t, p))
  /\ t.do \in {"assign", "result"} =>
       t.at \in D2 /\ Len(temps2) > Len(temps) /\ temps2[Len(temps) + 1].node = t.at

(* Every path goes through itself.                                         *)
LEMMA UnderItself ==
  ASSUME NEW n \in Paths
  PROVE  Under(n, n)
BY DEF Under, Paths

(* A task claims the node it yields.                                       *)
LEMMA YieldsClaims ==
  ASSUME NEW t, NEW p \in Paths, Yields(t, p)
  PROVE  Claims(t, p)
BY UnderItself DEF Yields, Claims

(* A task that ends hands the plan on to those after it.                   *)
LEMMA Dropped ==
  ASSUME NEW E, NEW ag, NEW temps, NEW D, Plan(E, ag, temps, D), ag # <<>>,
         NEW temps2, NEW D2, Ends(Head(ag), temps, D, temps2, D2)
  PROVE  Plan(E, <<>> \o Tail(ag), temps2, D2)
<1> DEFINE new == <<>> \o Tail(ag)
           n == Len(temps)
           n2 == Len(temps2)
<1>1. /\ ag \in Seq(Tasks(E)) /\ Fresh(ag, D) /\ Depths(ag, n) /\ Waits(ag, temps, D)
  BY DEF Plan
<1>2. /\ new \in Seq(Tasks(E)) /\ Len(ag) \in Nat /\ Len(ag) >= 1 /\ Head(ag) = ag[1]
      /\ Len(new) = Len(ag) - 1
      /\ \A k \in 1 .. Len(new) : k + 1 \in 2 .. Len(ag) /\ new[k] = ag[k + 1]
  <2> DEFINE Y == <<>>
  <2>1. Y \in Seq(Tasks(E)) /\ Len(Y) = 0
    OBVIOUS
  <2>2. new = Y \o Tail(ag)
    OBVIOUS
  <2> HIDE DEF Y, new
  <2>3. /\ new \in Seq(Tasks(E)) /\ Len(new) = Len(Y) + Len(ag) - 1
        /\ Len(ag) \in Nat /\ Len(ag) >= 1 /\ Head(ag) = ag[1]
        /\ \A k \in Len(Y) + 1 .. Len(new) :
             k - Len(Y) + 1 \in 2 .. Len(ag) /\ new[k] = ag[k - Len(Y) + 1]
    <3>1. Glue(Tasks(E), ag, Y, new)
      BY <1>1, <2>1, <2>2, Glued
    <3> QED
      BY <3>1 DEF Glue
  <2> QED
    BY <2>1, <2>3
<1> DEFINE t == ag[1]
<1>3. /\ n \in Nat /\ n2 \in Nat
      /\ \A i \in 1 .. n : i <= n2 => temps2[i].node = temps[i].node
      /\ Cleans(t) => n2 = t.depth
      /\ ~ Cleans(t) => n2 >= n
      /\ D \subseteq D2 /\ \A p \in D2 : p \in D \/ (p \in Paths /\ Yields(t, p))
      /\ t.do \in {"assign", "result"} =>
           t.at \in D2 /\ n2 > n /\ temps2[n + 1].node = t.at
  BY <1>2 DEF Ends
<1>4. \A k \in 1 .. Len(ag) : ag[k] \in Tasks(E)
  BY <1>1
<1>5. \A k \in 2 .. Len(ag) : Cleans(ag[k]) => ag[k].depth \in Nat /\ ag[k].depth <= n /\ ag[k].depth <= n2
  <2> TAKE k \in 2 .. Len(ag)
  <2>1. SUFFICES ASSUME Cleans(ag[k]) PROVE ag[k].depth \in Nat /\ ag[k].depth <= n /\ ag[k].depth <= n2
    OBVIOUS
  <2>2. k \in 1 .. Len(ag) /\ 1 \in 1 .. Len(ag) /\ 1 < k
    BY <1>2
  <2>3. ag[k].depth \in Nat /\ ag[k].depth <= n
    BY <1>1, <1>4, <2>1, <2>2, TaskIs DEF Depths
  <2>4. CASE Cleans(t)
    <3>1. ag[k].depth <= t.depth
      BY <1>1, <2>1, <2>2, <2>4 DEF Depths
    <3> QED
      BY <1>3, <2>3, <2>4, <3>1
  <2>5. CASE ~ Cleans(t)
    BY <1>3, <2>3, <2>5
  <2> QED
    BY <2>4, <2>5
<1> HIDE DEF new, n, n2, t
<1>6. Fresh(new, D2)
  <2>1. ASSUME NEW k \in 1 .. Len(new), NEW p \in D2, Claims(new[k], p) PROVE FALSE
    <3>1. k + 1 \in 1 .. Len(ag) /\ 1 \in 1 .. Len(ag) /\ k + 1 # 1 /\ new[k] = ag[k + 1]
      BY <1>2
    <3>2. p \notin D
      BY <1>1, <2>1, <3>1 DEF Fresh
    <3>3. p \in Paths /\ Claims(t, p)
      BY <1>3, <3>2, YieldsClaims
    <3> QED
      BY <1>1, <2>1, <3>1, <3>3 DEF Fresh, t
  <2>2. ASSUME NEW k \in 1 .. Len(new), NEW l \in 1 .. Len(new), NEW p \in Paths,
               Claims(new[k], p), Claims(new[l], p)
        PROVE  k = l
    <3>1. /\ k + 1 \in 1 .. Len(ag) /\ new[k] = ag[k + 1]
          /\ l + 1 \in 1 .. Len(ag) /\ new[l] = ag[l + 1]
      BY <1>2
    <3>2. k + 1 = l + 1
      BY <1>1, <2>2, <3>1 DEF Fresh
    <3> QED
      BY <3>2
  <2> QED
    BY <2>1, <2>2 DEF Fresh
<1>7. Depths(new, n2)
  <2>1. \A k \in 1 .. Len(new) : Cleans(new[k]) => new[k].depth <= n2
    BY <1>2, <1>5
  <2>2. ASSUME NEW k \in 1 .. Len(new), NEW l \in 1 .. Len(new), k < l,
               Cleans(new[k]), Cleans(new[l])
        PROVE  new[l].depth <= new[k].depth
    <3>1. /\ k + 1 \in 1 .. Len(ag) /\ new[k] = ag[k + 1]
          /\ l + 1 \in 1 .. Len(ag) /\ new[l] = ag[l + 1] /\ k + 1 < l + 1
      BY <1>2, <2>2
    <3> QED
      BY <1>1, <2>2, <3>1 DEF Depths
  <2>3. \A k \in 2 .. Len(new) : Cleans(new[k]) => new[k].stage = "scan"
    <3> TAKE k \in 2 .. Len(new)
    <3>1. k + 1 \in 2 .. Len(ag) /\ new[k] = ag[k + 1]
      BY <1>2
    <3> QED
      BY <1>1, <3>1 DEF Depths
  <2> QED
    BY <2>1, <2>2, <2>3 DEF Depths
<1>8. Waits(new, temps2, D2)
  <2>1. ASSUME NEW k \in 2 .. Len(new)
        PROVE  /\ k + 1 \in 2 .. Len(ag) /\ k \in 2 .. Len(ag)
               /\ new[k] = ag[k + 1] /\ new[k - 1] = ag[k]
    <3>1. k - 1 \in 1 .. Len(new) /\ k \in 1 .. Len(new) /\ k - 1 + 1 = k
      BY <1>2
    <3> QED
      BY <1>2, <3>1
  <2>2. \A k \in 2 .. Len(new) : new[k].do = "result" => Cleans(new[k - 1])
    <3> TAKE k \in 2 .. Len(new)
    <3>1. ag[k + 1].do = "result" => Cleans(ag[k + 1 - 1])
      BY <1>1, <2>1 DEF Waits
    <3>2. k + 1 - 1 = k
      OBVIOUS
    <3> QED
      BY <2>1, <3>1, <3>2
  <2>3. ASSUME NEW k \in 2 .. Len(new), InPlace(new[k])
        PROVE  /\ Waiting(new, temps2, k - 1, Append(new[k].at, 1))
               /\ \A i \in 1 .. new[k - 1].depth : ~ Under(new[k].at, temps2[i].node)
               /\ new[k].e.op = "shift" =>
                    Append(new[k].at, 2) \in D2 \/ Due(new, k - 1, Append(new[k].at, 2))
    <3> DEFINE at == new[k].at
               c == ag[k]
    <3>1. k \in Int /\ k + 1 \in 2 .. Len(ag) /\ k \in 2 .. Len(ag) /\ k + 1 - 1 = k
      BY <2>1
    <3>2. new[k] = ag[k + 1] /\ new[k - 1] = c
      BY <2>1
    <3>3. Cleans(c) /\ InPlace(ag[k + 1])
      BY <1>1, <2>3, <3>1, <3>2 DEF Waits, InPlace
    <3>4. /\ Waiting(ag, temps, k, Append(at, 1))
          /\ \A i \in 1 .. c.depth : ~ Under(at, temps[i].node)
          /\ new[k].e.op = "shift" => Append(at, 2) \in D \/ Due(ag, k, Append(at, 2))
      BY <1>1, <3>1, <3>2, <3>3 DEF Waits
    <3>5. c.depth \in Nat /\ c.depth <= n /\ c.depth <= n2
      BY <1>5, <3>1, <3>3
    <3> HIDE DEF at, c
    <3>6. \A i \in 1 .. c.depth : ~ Under(at, temps2[i].node)
      <4> TAKE i \in 1 .. c.depth
      <4>1. i \in 1 .. n /\ i <= n2
        BY <1>3, <3>5
      <4> QED
        BY <1>3, <3>4, <4>1
    <3>7. Waiting(new, temps2, k - 1, Append(at, 1))
      <4> DEFINE kid == Append(at, 1)
      <4> HIDE DEF kid
      <4>1. CASE \E l \in 1 .. k - 1 : /\ Yields(ag[l], kid)
                                       /\ \A m \in l + 1 .. k - 1 : ~ Cleans(ag[m])
        <5>1. PICK l \in 1 .. k - 1 : /\ Yields(ag[l], kid)
                                      /\ \A m \in l + 1 .. k - 1 : ~ Cleans(ag[m])
          BY <4>1
        <5>2. CASE l = 1
          <6>1. t.do \in {"assign", "result"} /\ t.at = kid
            BY <5>1, <5>2 DEF Yields, t
          <6>2. n + 1 \in c.depth + 1 .. n2 /\ temps2[n + 1].node = kid
            BY <1>3, <3>5, <6>1
          <6>3. ASSUME NEW m \in 1 .. k - 1 - 1 PROVE ~ Cleans(new[m])
            <7>1. m \in 1 .. Len(new) /\ m + 1 \in l + 1 .. k - 1
              BY <1>2, <3>1, <5>2
            <7> QED
              BY <1>2, <5>1, <7>1
          <6> QED
            BY <3>2, <6>2, <6>3 DEF Waiting, n2, kid
        <5>3. CASE l # 1
          <6> DEFINE j == l - 1
          <6>1. j \in 1 .. k - 1 - 1 /\ j \in 1 .. Len(new) /\ j + 1 = l
            BY <1>2, <3>1, <5>3
          <6> HIDE DEF j
          <6>2. Yields(new[j], kid)
            BY <1>2, <5>1, <6>1
          <6>3. ASSUME NEW m \in j + 1 .. k - 1 - 1 PROVE ~ Cleans(new[m])
            <7>1. m \in 1 .. Len(new) /\ m + 1 \in l + 1 .. k - 1
              BY <1>2, <3>1, <6>1
            <7> QED
              BY <1>2, <5>1, <7>1
          <6> QED
            BY <6>1, <6>2, <6>3 DEF Waiting, kid
        <5> QED
          BY <5>2, <5>3
      <4>2. CASE \E i \in c.depth + 1 .. n :
                   temps[i].node = kid /\ \A l \in 1 .. k - 1 : Cleans(ag[l]) => i <= ag[l].depth
        <5>1. PICK i \in c.depth + 1 .. n :
                temps[i].node = kid /\ \A l \in 1 .. k - 1 : Cleans(ag[l]) => i <= ag[l].depth
          BY <4>2
        <5>2. i <= n2 /\ i \in 1 .. n
          <6>1. Cleans(t) => i <= t.depth
            <7>1. 1 \in 1 .. k - 1
              BY <3>1
            <7> QED
              BY <5>1, <7>1 DEF t
          <6> QED
            BY <1>3, <3>5, <6>1
        <5>3. i \in c.depth + 1 .. n2 /\ temps2[i].node = kid
          BY <1>3, <3>5, <5>1, <5>2
        <5>4. ASSUME NEW l \in 1 .. k - 1 - 1, Cleans(new[l]) PROVE i <= new[l].depth
          <6>1. l \in 1 .. Len(new) /\ l + 1 \in 1 .. k - 1
            BY <1>2, <3>1
          <6> QED
            BY <1>2, <5>1, <5>4, <6>1
        <5> QED
          BY <3>2, <5>3, <5>4 DEF Waiting, n2, kid
      <4> QED
        BY <3>4, <4>1, <4>2 DEF Waiting, n, kid, c
    <3>8. ASSUME Append(at, 2) \in D \/ Due(ag, k, Append(at, 2))
          PROVE  Append(at, 2) \in D2 \/ Due(new, k - 1, Append(at, 2))
      <4> DEFINE kid == Append(at, 2)
      <4> HIDE DEF kid
      <4>1. CASE kid \in D
        BY <1>3, <4>1 DEF kid
      <4>2. CASE \E l \in 1 .. k - 1 : Yields(ag[l], kid)
        <5>1. PICK l \in 1 .. k - 1 : Yields(ag[l], kid)
          BY <4>2
        <5>2. CASE l = 1
          <6>1. t.do \in {"assign", "result"} /\ t.at = kid
            BY <5>1, <5>2 DEF Yields, t
          <6> QED
            BY <1>3, <6>1 DEF kid
        <5>3. CASE l # 1
          <6> DEFINE j == l - 1
          <6>1. j \in 1 .. k - 1 - 1 /\ j \in 1 .. Len(new) /\ j + 1 = l
            BY <1>2, <3>1, <5>3
          <6> HIDE DEF j
          <6>2. Yields(new[j], kid)
            BY <1>2, <5>1, <6>1
          <6> QED
            BY <6>1, <6>2 DEF Due, kid
        <5> QED
          BY <5>2, <5>3
      <4> QED
        BY <3>8, <4>1, <4>2 DEF Due, kid
    <3> QED
      BY <3>2, <3>4, <3>6, <3>7, <3>8 DEF at
  <2> QED
    BY <2>2, <2>3 DEF Waits
<1> QED
  BY <1>2, <1>6, <1>7, <1>8 DEF Plan, new, n2

(* A cleanup that goes on keeps the plan.                                  *)
LEMMA Continued ==
  ASSUME NEW E, NEW ag, NEW temps, NEW D, Plan(E, ag, temps, D), ag # <<>>, Cleans(Head(ag)),
         NEW c \in Tasks(E), Cleans(c), c.depth = Head(ag).depth,
         NEW temps2, Len(temps) \in Nat, Len(temps2) = Len(temps),
         \A i \in 1 .. Len(temps) : temps2[i].node = temps[i].node
  PROVE  Plan(E, <<c>> \o Tail(ag), temps2, D)
<1> DEFINE new == <<c>> \o Tail(ag)
           n == Len(temps)
<1>1. /\ ag \in Seq(Tasks(E)) /\ Fresh(ag, D) /\ Depths(ag, n) /\ Waits(ag, temps, D)
  BY DEF Plan
<1>2. /\ new \in Seq(Tasks(E)) /\ Len(ag) \in Nat /\ Len(ag) >= 1 /\ Head(ag) = ag[1]
      /\ Len(new) = Len(ag) /\ new[1] = c
      /\ \A k \in 2 .. Len(ag) : new[k] = ag[k]
  <2> DEFINE Y == <<c>>
  <2>1. Y \in Seq(Tasks(E)) /\ Len(Y) = 1 /\ Y[1] = c
    <3> HIDE DEF Tasks
    <3> QED
      OBVIOUS
  <2>2. new = Y \o Tail(ag)
    OBVIOUS
  <2> HIDE DEF Y, new
  <2>3. /\ new \in Seq(Tasks(E)) /\ Len(new) = Len(Y) + Len(ag) - 1
        /\ Len(ag) \in Nat /\ Len(ag) >= 1 /\ Head(ag) = ag[1]
        /\ \A k \in 1 .. Len(Y) : new[k] = Y[k]
        /\ \A k \in 2 .. Len(ag) : new[Len(Y) + k - 1] = ag[k]
    <3>1. Glue(Tasks(E), ag, Y, new)
      BY <1>1, <2>1, <2>2, Glued
    <3> QED
      BY <3>1 DEF Glue
  <2>4. \A k \in 2 .. Len(ag) : Len(Y) + k - 1 = k
    BY <2>1
  <2> QED
    BY <2>1, <2>3, <2>4
<1>3. \A k \in 1 .. Len(ag) : \/ k = 1 /\ new[k] = c
                              \/ k \in 2 .. Len(ag) /\ new[k] = ag[k]
  BY <1>2
<1>4. /\ Cleans(ag[1]) /\ c.depth = ag[1].depth
  BY <1>2
<1> HIDE DEF new, n
<1>5. \A p : \A k \in 1 .. Len(ag) : Claims(new[k], p) => k \in 2 .. Len(ag) /\ Claims(ag[k], p)
  BY <1>3 DEF Claims, Cleans
<1>6. Fresh(new, D)
  <2>1. \A k \in 2 .. Len(ag) : k \in 1 .. Len(ag)
    BY <1>2
  <2> QED
    BY <1>1, <1>2, <1>5, <2>1 DEF Fresh
<1>7. \A k \in 1 .. Len(ag) : /\ Cleans(new[k]) <=> Cleans(ag[k])
                              /\ Cleans(ag[k]) => new[k].depth = ag[k].depth
  BY <1>3, <1>4
<1>8. Depths(new, n)
  <2>1. \A k \in 1 .. Len(ag) : Cleans(new[k]) => new[k].depth <= n
    BY <1>1, <1>7 DEF Depths
  <2>2. \A k, l \in 1 .. Len(ag) :
          k < l /\ Cleans(new[k]) /\ Cleans(new[l]) => new[l].depth <= new[k].depth
    BY <1>1, <1>7 DEF Depths
  <2>3. \A k \in 2 .. Len(ag) : Cleans(new[k]) => new[k].stage = "scan"
    BY <1>1, <1>2 DEF Depths
  <2> QED
    BY <1>2, <2>1, <2>2, <2>3 DEF Depths
<1>9. Waits(new, temps2, D)
  <2>1. \A k \in 2 .. Len(ag) : new[k].do = "result" => Cleans(new[k - 1])
    <3> TAKE k \in 2 .. Len(ag)
    <3>1. k - 1 \in 1 .. Len(ag)
      BY <1>2
    <3> QED
      BY <1>1, <1>2, <1>7, <3>1 DEF Waits
  <2>2. ASSUME NEW k \in 2 .. Len(ag), InPlace(new[k])
        PROVE  /\ Waiting(new, temps2, k - 1, Append(new[k].at, 1))
               /\ \A i \in 1 .. new[k - 1].depth : ~ Under(new[k].at, temps2[i].node)
               /\ new[k].e.op = "shift" =>
                    Append(new[k].at, 2) \in D \/ Due(new, k - 1, Append(new[k].at, 2))
    <3> DEFINE at == new[k].at
    <3>1. k \in Int /\ k - 1 \in 1 .. Len(ag) /\ new[k] = ag[k]
      BY <1>2
    <3>2. /\ Cleans(ag[k - 1]) /\ new[k - 1].depth = ag[k - 1].depth
          /\ ag[k - 1].depth \in Nat /\ ag[k - 1].depth <= n
      <4>1. Cleans(ag[k - 1])
        BY <1>1, <2>2, <3>1 DEF Waits, InPlace
      <4>2. ag[k - 1] \in Tasks(E)
        BY <1>1, <3>1
      <4> QED
        BY <1>1, <1>7, <3>1, <4>1, <4>2, TaskIs DEF Depths
    <3>3. /\ Waiting(ag, temps, k - 1, Append(at, 1))
          /\ \A i \in 1 .. ag[k - 1].depth : ~ Under(at, temps[i].node)
          /\ new[k].e.op = "shift" => Append(at, 2) \in D \/ Due(ag, k - 1, Append(at, 2))
      BY <1>1, <2>2, <3>1 DEF Waits
    <3> HIDE DEF at
    <3>4. \A i \in 1 .. new[k - 1].depth : ~ Under(at, temps2[i].node)
      <4> TAKE i \in 1 .. new[k - 1].depth
      <4>1. i \in 1 .. n
        BY <3>2 DEF n
      <4> QED
        BY <3>2, <3>3, <4>1 DEF n
    <3>5. \A l \in 1 .. k - 1 - 1 : l \in 1 .. Len(ag)
      BY <1>2, <3>1
    <3>6. \A m : \A l \in 1 .. k - 1 - 1 : Yields(ag[l], m) => Yields(new[l], m)
      <4> TAKE m
      <4> TAKE l \in 1 .. k - 1 - 1
      <4>1. l \in 1 .. Len(ag)
        BY <3>5
      <4>2. l = 1 => ~ Yields(ag[l], m)
        BY <1>4 DEF Yields, Cleans
      <4> QED
        BY <1>3, <4>1, <4>2
    <3>7. Waiting(new, temps2, k - 1, Append(at, 1))
      <4> DEFINE kid == Append(at, 1)
      <4> HIDE DEF kid
      <4>1. CASE \E l \in 1 .. k - 1 - 1 : /\ Yields(ag[l], kid)
                                           /\ \A m \in l + 1 .. k - 1 - 1 : ~ Cleans(ag[m])
        <5>1. PICK l \in 1 .. k - 1 - 1 : /\ Yields(ag[l], kid)
                                          /\ \A m \in l + 1 .. k - 1 - 1 : ~ Cleans(ag[m])
          BY <4>1
        <5>2. ASSUME NEW m \in l + 1 .. k - 1 - 1 PROVE ~ Cleans(new[m])
          <6>1. m \in 1 .. k - 1 - 1
            BY <3>1
          <6> QED
            BY <1>7, <3>5, <5>1, <6>1
        <5> QED
          BY <3>6, <5>1, <5>2 DEF Waiting, kid
      <4>2. CASE \E i \in ag[k - 1].depth + 1 .. n :
                   /\ temps[i].node = kid
                   /\ \A l \in 1 .. k - 1 - 1 : Cleans(ag[l]) => i <= ag[l].depth
        <5>1. PICK i \in ag[k - 1].depth + 1 .. n :
                   /\ temps[i].node = kid
                   /\ \A l \in 1 .. k - 1 - 1 : Cleans(ag[l]) => i <= ag[l].depth
          BY <4>2
        <5>2. i \in new[k - 1].depth + 1 .. Len(temps2) /\ temps2[i].node = kid
          <6>1. i \in 1 .. n
            BY <3>2 DEF n
          <6> QED
            BY <3>2, <5>1, <6>1 DEF n
        <5>3. \A l \in 1 .. k - 1 - 1 : Cleans(new[l]) => i <= new[l].depth
          BY <1>7, <3>5, <5>1
        <5> QED
          BY <5>2, <5>3 DEF Waiting, kid
      <4> QED
        BY <3>3, <4>1, <4>2 DEF Waiting, n, kid
    <3>8. Due(ag, k - 1, Append(at, 2)) => Due(new, k - 1, Append(at, 2))
      BY <3>6 DEF Due
    <3> QED
      BY <3>1, <3>3, <3>4, <3>7, <3>8 DEF at
  <2> QED
    BY <1>2, <2>1, <2>2 DEF Waits
<1> QED
  BY <1>2, <1>6, <1>8, <1>9 DEF Plan, new, n

(* What the tasks X of the operands of task t must be.                     *)
Decomposes(E, X, t) ==
  /\ X \in Seq(Tasks(E))
  /\ \A k \in 1 .. Len(X) : X[k].do \in {"assign", "vacate"}
  /\ \A k \in 1 .. Len(X), p \in Paths : Claims(X[k], p) => Under(t.at, p) /\ p # t.at
  /\ \A k, l \in 1 .. Len(X), p \in Paths : Claims(X[k], p) /\ Claims(X[l], p) => k = l
  /\ t.e.op \in {"add", "shift"} => \E l \in 1 .. Len(X) : Yields(X[l], Append(t.at, 1))
  /\ t.e.op = "shift" => \E l \in 1 .. Len(X) : Yields(X[l], Append(t.at, 2))

(* A node replaced by its operands, its cleanup and its result.            *)
LEMMA Expanded ==
  ASSUME NEW E, NEW ag, NEW temps, NEW D, Plan(E, ag, temps, D), ag # <<>>,
         Head(ag).do = "assign", Head(ag).e.op # "leaf", NEW mask \in Masks,
         D \subseteq Paths, Len(temps) \in Nat, \A i \in 1 .. Len(temps) : temps[i].node \in D,
         NEW X, Decomposes(E, X, Head(ag))
  PROVE  LET t == Head(ag)
             own == <<Cleanup(t.at, Len(temps)), Todo("result", t.at, t.e, mask)>>
         IN  Plan(E, (X \o own) \o Tail(ag), temps, D)
<1> DEFINE t == Head(ag)
           n == Len(temps)
           c == Cleanup(t.at, n)
           r == Todo("result", t.at, t.e, mask)
           own == <<c, r>>
           Y == X \o own
           new == Y \o Tail(ag)
           x == Len(X)
<1>1. /\ ag \in Seq(Tasks(E)) /\ Fresh(ag, D) /\ Depths(ag, n) /\ Waits(ag, temps, D)
      /\ n \in Nat
  BY DEF Plan
<1>2. /\ X \in Seq(Tasks(E)) /\ x \in Nat
      /\ \A k \in 1 .. x : X[k].do \in {"assign", "vacate"}
      /\ \A k \in 1 .. x, p \in Paths : Claims(X[k], p) => Under(t.at, p) /\ p # t.at
      /\ \A k, l \in 1 .. x, p \in Paths : Claims(X[k], p) /\ Claims(X[l], p) => k = l
  BY DEF Decomposes
<1>3. /\ t = ag[1] /\ Len(ag) \in Nat /\ Len(ag) >= 1 /\ t \in Tasks(E)
      /\ t.at \in Paths /\ t.e \in E /\ t.do = "assign"
  <2>1. t = ag[1] /\ Len(ag) \in Nat /\ Len(ag) >= 1 /\ t \in Tasks(E)
    BY <1>1
  <2> QED
    BY <2>1, TaskIs
<1>4. c \in Tasks(E) /\ r \in Tasks(E)
  BY <1>1, <1>3 DEF Tasks, Cleanup, Todo
<1>5. /\ Cleans(c) /\ c.depth = n /\ c.stage = "scan" /\ c.do = "cleanup"
      /\ r.do = "result" /\ r.at = t.at /\ r.e = t.e
  BY DEF Cleanup, Todo, Cleans
<1> HIDE DEF c, r, t, x
<1>6. /\ Y \in Seq(Tasks(E)) /\ Len(Y) = x + 2 /\ Y[x + 1] = c /\ Y[x + 2] = r
      /\ \A k \in 1 .. x : Y[k] = X[k]
  <2> HIDE DEF Tasks
  <2>1. own \in Seq(Tasks(E)) /\ Len(own) = 2 /\ own[1] = c /\ own[2] = r
    BY <1>4
  <2> HIDE DEF own
  <2>2. /\ Y \in Seq(Tasks(E)) /\ Len(Y) = x + Len(own)
        /\ \A k \in 1 .. x + Len(own) : Y[k] = IF k <= x THEN X[k] ELSE own[k - x]
    BY <1>2, <2>1, ConcatProperties DEF x
  <2>3. /\ x + 1 \in 1 .. x + 2 /\ x + 2 \in 1 .. x + 2 /\ ~ (x + 1 <= x) /\ ~ (x + 2 <= x)
        /\ x + 1 - x = 1 /\ x + 2 - x = 2
    BY <1>2
  <2> HIDE DEF Y
  <2>6. ASSUME NEW j \in 1 .. 2 PROVE Y[x + j] = own[j]
    <3> DEFINE k == x + j
    <3>1. k \in 1 .. x + Len(own) /\ ~ (k <= x) /\ k - x = j
      BY <1>2, <2>1
    <3> HIDE DEF k
    <3>2. Y[k] = own[j]
      BY <2>2, <3>1
    <3> QED
      BY <3>2 DEF k
  <2>4. Y[x + 1] = own[1] /\ Y[x + 2] = own[2]
    <3>1. 1 \in 1 .. 2 /\ 2 \in 1 .. 2
      OBVIOUS
    <3> QED
      BY <2>6, <3>1
  <2>5. \A k \in 1 .. x : Y[k] = X[k]
    BY <1>2, <2>1, <2>2
  <2> QED
    BY <2>1, <2>2, <2>3, <2>4, <2>5
<1> HIDE DEF own, Y
<1>7. /\ new \in Seq(Tasks(E)) /\ Len(new) = x + Len(ag) + 1
      /\ \A k \in 1 .. x : new[k] = X[k]
      /\ new[x + 1] = c /\ new[x + 2] = r
      /\ \A k \in x + 3 .. Len(new) : k - x - 1 \in 2 .. Len(ag) /\ new[k] = ag[k - x - 1]
      /\ \A k \in 2 .. Len(ag) : k + x + 1 \in x + 3 .. Len(new) /\ new[k + x + 1] = ag[k]
  <2>1. /\ new \in Seq(Tasks(E)) /\ Len(new) = Len(Y) + Len(ag) - 1
        /\ \A k \in 1 .. Len(Y) : new[k] = Y[k]
        /\ \A k \in Len(Y) + 1 .. Len(new) :
             k - Len(Y) + 1 \in 2 .. Len(ag) /\ new[k] = ag[k - Len(Y) + 1]
    <3>1. Glue(Tasks(E), ag, Y, new)
      BY <1>1, <1>6, Glued
    <3> QED
      BY <3>1 DEF Glue
  <2> HIDE DEF new
  <2>2. Len(new) = x + Len(ag) + 1
    BY <1>2, <1>3, <1>6, <2>1
  <2>3. \A k \in x + 3 .. Len(new) : k - x - 1 \in 2 .. Len(ag) /\ new[k] = ag[k - x - 1]
    <3> TAKE k \in x + 3 .. Len(new)
    <3>1. k - Len(Y) + 1 = k - x - 1 /\ k \in Len(Y) + 1 .. Len(new)
      BY <1>2, <1>6, <2>2
    <3> QED
      BY <2>1, <3>1
  <2>4. \A k \in 2 .. Len(ag) : k + x + 1 \in x + 3 .. Len(new) /\ new[k + x + 1] = ag[k]
    <3> TAKE k \in 2 .. Len(ag)
    <3> DEFINE j == k + x + 1
    <3>1. j \in x + 3 .. Len(new) /\ j - x - 1 = k
      BY <1>2, <1>3, <2>2
    <3> HIDE DEF j
    <3> QED
      BY <2>3, <3>1 DEF j
  <2>5. x + 1 \in 1 .. Len(Y) /\ x + 2 \in 1 .. Len(Y) /\ \A k \in 1 .. x : k \in 1 .. Len(Y)
    BY <1>2, <1>6
  <2> QED
    BY <1>6, <2>1, <2>2, <2>3, <2>4, <2>5
<1> HIDE DEF new
(* Each task is an operand's, the node's own cleanup or result, or old.    *)
<1>8. \A k \in 1 .. Len(new) :
        \/ k \in 1 .. x /\ new[k] = X[k] /\ ~ Cleans(new[k]) /\ new[k].do # "result"
        \/ k = x + 1 /\ new[k] = c
        \/ k = x + 2 /\ new[k] = r /\ ~ Cleans(new[k])
        \/ k \in x + 3 .. Len(new) /\ k - x - 1 \in 2 .. Len(ag) /\ new[k] = ag[k - x - 1]
  <2> TAKE k \in 1 .. Len(new)
  <2>1. k \in 1 .. x \/ k = x + 1 \/ k = x + 2 \/ k \in x + 3 .. Len(new)
    BY <1>2, <1>3, <1>7
  <2> QED
    BY <1>2, <1>5, <1>7, <2>1 DEF Cleans
<1>9. \A p \in Paths : Under(t.at, p) => Claims(ag[1], p)
  BY <1>3 DEF Claims
<1>10. Fresh(new, D)
  <2>1. ASSUME NEW k \in 1 .. Len(new), NEW p \in Paths, Claims(new[k], p)
        PROVE  \/ k \in 1 .. x /\ Under(t.at, p) /\ p # t.at /\ Claims(X[k], p)
               \/ k = x + 2 /\ p = t.at /\ Under(t.at, p)
               \/ k \in x + 3 .. Len(new) /\ k - x - 1 \in 2 .. Len(ag) /\ Claims(ag[k - x - 1], p)
    <3>1. k # x + 1 \/ new[k] # c
      BY <1>5, <2>1 DEF Claims
    <3>2. CASE k \in 1 .. x /\ new[k] = X[k]
      BY <1>2, <2>1, <3>2
    <3>3. CASE k = x + 2 /\ new[k] = r
      BY <1>3, <1>5, <2>1, <3>3, UnderItself DEF Claims
    <3>4. CASE k \in x + 3 .. Len(new) /\ k - x - 1 \in 2 .. Len(ag) /\ new[k] = ag[k - x - 1]
      BY <2>1, <3>4
    <3> QED
      BY <1>8, <3>1, <3>2, <3>3, <3>4
  <2>2. ASSUME NEW p \in Paths, Under(t.at, p)
        PROVE  p \notin D /\ \A k \in 2 .. Len(ag) : ~ Claims(ag[k], p)
    <3>1. 1 \in 1 .. Len(ag) /\ \A k \in 2 .. Len(ag) : k \in 1 .. Len(ag) /\ k # 1
      BY <1>3
    <3> QED
      BY <1>1, <1>9, <2>2, <3>1 DEF Fresh
  <2>3. ASSUME NEW k \in 1 .. Len(new), NEW p \in D, Claims(new[k], p) PROVE FALSE
    <3>1. p \in Paths
      OBVIOUS
    <3>2. k - x - 1 \in 2 .. Len(ag) => k - x - 1 \in 1 .. Len(ag)
      BY <1>3
    <3> QED
      BY <1>1, <2>1, <2>2, <2>3, <3>1, <3>2 DEF Fresh
  <2>4. ASSUME NEW k \in 1 .. Len(new), NEW l \in 1 .. Len(new), NEW p \in Paths,
               Claims(new[k], p), Claims(new[l], p)
        PROVE  k = l
    <3>1. CASE Under(t.at, p)
      <4>1. /\ (k \in 1 .. x /\ p # t.at /\ Claims(X[k], p)) \/ (k = x + 2 /\ p = t.at)
            /\ (l \in 1 .. x /\ p # t.at /\ Claims(X[l], p)) \/ (l = x + 2 /\ p = t.at)
        BY <2>1, <2>2, <2>4, <3>1
      <4> QED
        BY <1>2, <4>1
    <3>2. CASE ~ Under(t.at, p)
      <4> DEFINE i == k - x - 1
                 j == l - x - 1
      <4>1. /\ i \in 2 .. Len(ag) /\ Claims(ag[i], p) /\ i \in 1 .. Len(ag)
            /\ j \in 2 .. Len(ag) /\ Claims(ag[j], p) /\ j \in 1 .. Len(ag)
        BY <1>3, <2>1, <2>4, <3>2
      <4>2. i = j
        <5> HIDE DEF i, j
        <5> QED
          BY <1>1, <4>1 DEF Fresh
      <4> QED
        BY <1>2, <1>7, <4>2
    <3> QED
      BY <3>1, <3>2
  <2> QED
    BY <2>3, <2>4 DEF Fresh
<1>11. \A k \in 2 .. Len(ag) : /\ k \in 1 .. Len(ag)
                               /\ Cleans(ag[k]) => ag[k].depth \in Nat /\ ag[k].depth <= n
  <2> TAKE k \in 2 .. Len(ag)
  <2>1. k \in 1 .. Len(ag) /\ ag[k] \in Tasks(E)
    BY <1>1, <1>3
  <2> QED
    BY <1>1, <2>1, TaskIs DEF Depths
<1>12. Depths(new, n)
  <2>1. ASSUME NEW k \in 1 .. Len(new), Cleans(new[k])
        PROVE  \/ k = x + 1 /\ new[k].depth = n /\ new[k].stage = "scan"
               \/ /\ k \in x + 3 .. Len(new) /\ k - x - 1 \in 2 .. Len(ag)
                  /\ new[k] = ag[k - x - 1] /\ Cleans(ag[k - x - 1])
    BY <1>5, <1>8, <2>1
  <2>2. \A k \in 1 .. Len(new) : Cleans(new[k]) => new[k].depth <= n
    BY <1>1, <1>11, <2>1
  <2>3. ASSUME NEW k \in 1 .. Len(new), NEW l \in 1 .. Len(new), k < l,
               Cleans(new[k]), Cleans(new[l])
        PROVE  new[l].depth <= new[k].depth
    <3> DEFINE i == k - x - 1
               j == l - x - 1
    <3>1. j \in 2 .. Len(ag) /\ new[l] = ag[j] /\ Cleans(ag[j])
      <4>1. l # x + 1
        <5>1. ~ (k \in x + 3 .. Len(new)) \/ k > x + 1
          BY <1>2
        <5> QED
          BY <1>2, <2>1, <2>3, <5>1
      <4> QED
        BY <2>1, <2>3, <4>1
    <3>2. CASE k = x + 1
      <4>1. new[k].depth = n
        <5>1. ~ (k \in x + 3 .. Len(new))
          BY <1>2, <3>2
        <5> QED
          BY <2>1, <2>3, <5>1
      <4> HIDE DEF j
      <4> QED
        BY <1>11, <3>1, <4>1
    <3>3. CASE k # x + 1
      <4>1. i \in 2 .. Len(ag) /\ new[k] = ag[i] /\ Cleans(ag[i])
        BY <2>1, <2>3, <3>3
      <4>3. i < j
        BY <1>2, <2>3
      <4> HIDE DEF i, j
      <4>2. i \in 1 .. Len(ag) /\ j \in 1 .. Len(ag)
        BY <1>11, <3>1, <4>1
      <4> QED
        BY <1>1, <3>1, <4>1, <4>2, <4>3 DEF Depths
    <3> QED
      BY <3>2, <3>3
  <2>4. \A k \in 2 .. Len(new) : Cleans(new[k]) => new[k].stage = "scan"
    <3> TAKE k \in 2 .. Len(new)
    <3>1. k \in 1 .. Len(new)
      BY <1>2, <1>3, <1>7
    <3> QED
      BY <1>1, <2>1, <3>1 DEF Depths
  <2> QED
    BY <2>2, <2>3, <2>4 DEF Depths
<1>13. Waits(new, temps, D)
  <2>1. ASSUME NEW k \in 2 .. Len(new)
        PROVE  \/ k \in 1 .. x /\ new[k].do # "result"
               \/ k = x + 1 /\ new[k].do # "result"
               \/ k = x + 2 /\ new[k] = r
               \/ k \in x + 3 .. Len(new) /\ k - x - 1 \in 2 .. Len(ag) /\ new[k] = ag[k - x - 1]
    BY <1>5, <1>8
  <2>2. ASSUME NEW k \in x + 3 .. Len(new), new[k].do = "result"
        PROVE  /\ k - x - 1 \in 3 .. Len(ag) /\ new[k] = ag[k - x - 1]
               /\ Cleans(ag[k - x - 2]) /\ new[k - 1] = ag[k - x - 2]
    <3> DEFINE i == k - x - 1
    <3>1. i \in 2 .. Len(ag) /\ new[k] = ag[i] /\ i - 1 = k - x - 2 /\ k \in Int
      BY <1>2, <1>7
    <3>2. Cleans(ag[i - 1])
      <4> HIDE DEF i
      <4> QED
        BY <1>1, <2>2, <3>1 DEF Waits
    <3>3. i # 2
      BY <1>3, <3>2 DEF Cleans
    <3>4. k - 1 \in x + 3 .. Len(new) /\ k - 1 - x - 1 = k - x - 2
      BY <1>2, <3>1, <3>3
    <3>5. new[k - 1] = ag[k - 1 - x - 1]
      BY <1>7, <3>4
    <3> QED
      <4>1. k - x - 1 \in 3 .. Len(ag)
        <5> HIDE DEF i
        <5>1. i \in 3 .. Len(ag)
          BY <1>3, <3>1, <3>3
        <5> QED
          BY <5>1 DEF i
      <4>2. new[k - 1] = ag[k - x - 2]
        BY <3>4, <3>5
      <4>3. Cleans(ag[k - x - 2])
        BY <3>1, <3>2
      <4> QED
        BY <3>1, <4>1, <4>2, <4>3
  <2>3. \A k \in 2 .. Len(new) : new[k].do = "result" => Cleans(new[k - 1])
    <3> TAKE k \in 2 .. Len(new)
    <3>1. CASE k = x + 2
      <4>1. k - 1 = x + 1
        BY <1>2, <3>1
      <4> QED
        BY <1>5, <1>7, <4>1
    <3>2. CASE k # x + 2
      BY <2>1, <2>2, <3>2
    <3> QED
      BY <3>1, <3>2
  <2>4. /\ Waiting(new, temps, x + 1, Append(t.at, 1)) \/ r.e.op \notin {"add", "shift"}
        /\ \A i \in 1 .. n : ~ Under(t.at, temps[i].node)
        /\ r.e.op = "shift" => Due(new, x + 1, Append(t.at, 2))
    <3>0. x + 1 - 1 = x
      BY <1>2
    <3>1. ASSUME r.e.op \in {"add", "shift"} PROVE Waiting(new, temps, x + 1, Append(t.at, 1))
      <4>1. PICK l \in 1 .. x : Yields(X[l], Append(t.at, 1))
        BY <1>5, <3>1 DEF Decomposes, x, t
      <4>2. \A m \in l + 1 .. x : ~ Cleans(new[m])
        <5> TAKE m \in l + 1 .. x
        <5>1. m \in 1 .. x
          BY <1>2
        <5> QED
          BY <1>2, <1>7, <5>1 DEF Cleans
      <4> QED
        <5> DEFINE j == x + 1
        <5>0. j - 1 = x
          BY <1>2
        <5> HIDE DEF j
        <5>1. l \in 1 .. j - 1 /\ \A m \in l + 1 .. j - 1 : ~ Cleans(new[m])
          BY <4>2, <5>0
        <5>2. Yields(new[l], Append(t.at, 1))
          BY <1>7, <4>1
        <5> DEFINE kid == Append(t.at, 1)
        <5> HIDE DEF kid
        <5>3. Yields(new[l], kid)
          BY <5>2 DEF kid
        <5>4. Waiting(new, temps, j, kid)
          BY <5>1, <5>3 DEF Waiting
        <5> QED
          BY <5>4 DEF kid, j
    <3>2. ASSUME r.e.op = "shift" PROVE Due(new, x + 1, Append(t.at, 2))
      <4>1. PICK l \in 1 .. x : Yields(X[l], Append(t.at, 2))
        BY <1>5, <3>2 DEF Decomposes, x, t
      <4> QED
        <5> DEFINE j == x + 1
        <5>0. j - 1 = x
          BY <1>2
        <5> HIDE DEF j
        <5>1. l \in 1 .. j - 1 /\ Yields(new[l], Append(t.at, 2))
          BY <1>7, <4>1, <5>0
        <5> DEFINE kid == Append(t.at, 2)
        <5> HIDE DEF kid
        <5>2. Due(new, j, kid)
          BY <5>1 DEF Due, kid
        <5> QED
          BY <5>2 DEF kid, j
    <3>3. ASSUME NEW i \in 1 .. n PROVE ~ Under(t.at, temps[i].node)
      <4>1. temps[i].node \in D /\ temps[i].node \in Paths /\ 1 \in 1 .. Len(ag)
        BY <1>3 DEF n
      <4> QED
        BY <1>1, <1>9, <4>1 DEF Fresh
    <3> QED
      BY <3>1, <3>2, <3>3
  <2>5. ASSUME NEW k \in x + 3 .. Len(new), InPlace(new[k])
        PROVE  /\ Waiting(new, temps, k - 1, Append(new[k].at, 1))
               /\ \A i \in 1 .. new[k - 1].depth : ~ Under(new[k].at, temps[i].node)
               /\ new[k].e.op = "shift" =>
                    Append(new[k].at, 2) \in D \/ Due(new, k - 1, Append(new[k].at, 2))
    <3> DEFINE i == k - x - 1
               at == new[k].at
               d == ag[i - 1]
    <3>1. i \in 3 .. Len(ag) /\ new[k] = ag[i] /\ Cleans(d) /\ new[k - 1] = d /\ k \in Int
      <4>1. /\ k - x - 1 \in 3 .. Len(ag) /\ new[k] = ag[k - x - 1]
            /\ Cleans(ag[k - x - 2]) /\ new[k - 1] = ag[k - x - 2]
        BY <2>2, <2>5 DEF InPlace
      <4>2. i - 1 = k - x - 2 /\ k \in Int
        BY <1>2
      <4> QED
        BY <4>1, <4>2
    <3>2. /\ Waiting(ag, temps, i - 1, Append(at, 1))
          /\ \A j \in 1 .. d.depth : ~ Under(at, temps[j].node)
          /\ new[k].e.op = "shift" => Append(at, 2) \in D \/ Due(ag, i - 1, Append(at, 2))
      <4> HIDE DEF i
      <4>1. i \in 2 .. Len(ag) /\ InPlace(ag[i])
        BY <2>5, <3>1
      <4> QED
        BY <1>1, <3>1, <4>1 DEF Waits
    <3>3. i - 1 - 1 = k - 1 - 1 - x - 1 /\ i - 1 - 1 \in 1 .. Len(ag)
      <4>1. i = k - x - 1 /\ k \in Int /\ x \in Int /\ i \in 3 .. Len(ag) /\ Len(ag) \in Nat
        BY <1>2, <1>3, <3>1
      <4> HIDE DEF i, x, new, d, at
      <4> QED
        BY <4>1
    (* What is before task i - 1 of the old agenda is before k - 1 now.    *)
    <3>4. ASSUME NEW l \in 1 .. i - 1 - 1, NEW m, Yields(ag[l], m)
          PROVE  \E j \in x + 2 .. k - 1 - 1 : /\ Yields(new[j], m) /\ j = l + x + 1
      <4> DEFINE j == l + x + 1
      <4>1. j \in x + 2 .. k - 1 - 1
        BY <1>2, <3>1
      <4>2. CASE l = 1
        <5>1. j = x + 2 /\ t.at = m
          BY <1>2, <1>3, <3>4, <4>2 DEF Yields
        <5>2. Yields(new[j], m)
          BY <1>5, <1>7, <5>1 DEF Yields
        <5> QED
          BY <4>1, <5>2
      <4>3. CASE l # 1
        <5>1. l \in 2 .. Len(ag) /\ j = l + x + 1
          BY <3>1, <4>3
        <5>2. new[j] = ag[l]
          BY <1>7, <5>1
        <5> QED
          BY <3>4, <4>1, <5>2
      <4> QED
        BY <4>2, <4>3
    <3>5. ASSUME NEW l \in 1 .. k - 1 - 1, Cleans(new[l])
          PROVE  \/ l = x + 1 /\ new[l].depth = n
                 \/ /\ l - x - 1 \in 2 .. i - 1 - 1 /\ new[l] = ag[l - x - 1]
      <4>1. l \in 1 .. Len(new)
        BY <1>2, <1>7, <3>1
      <4>2. \/ l = x + 1 /\ new[l] = c
            \/ l \in x + 3 .. Len(new) /\ l - x - 1 \in 2 .. Len(ag) /\ new[l] = ag[l - x - 1]
        BY <1>8, <3>5, <4>1
      <4>3. l - x - 1 <= i - 1 - 1 /\ l \in Int
        BY <1>2, <3>1
      <4> QED
        BY <1>5, <4>2, <4>3
    <3>6. Waiting(new, temps, k - 1, Append(at, 1))
      <4> DEFINE kid == Append(at, 1)
      <4> HIDE DEF kid, at, d
      <4>1. CASE \E l \in 1 .. i - 1 - 1 : /\ Yields(ag[l], kid)
                                           /\ \A m \in l + 1 .. i - 1 - 1 : ~ Cleans(ag[m])
        <5>1. PICK l \in 1 .. i - 1 - 1 : /\ Yields(ag[l], kid)
                                          /\ \A m \in l + 1 .. i - 1 - 1 : ~ Cleans(ag[m])
          BY <4>1
        <5>2. PICK j \in x + 2 .. k - 1 - 1 : Yields(new[j], kid) /\ j = l + x + 1
          BY <3>4, <5>1
        <5>3. ASSUME NEW m \in j + 1 .. k - 1 - 1 PROVE ~ Cleans(new[m])
          <6>1. SUFFICES ASSUME Cleans(new[m]) PROVE FALSE
            OBVIOUS
          <6>2. m \in 1 .. k - 1 - 1 /\ m # x + 1
            BY <1>2, <3>1, <5>2
          <6>3. m - x - 1 \in 2 .. i - 1 - 1 /\ new[m] = ag[m - x - 1]
            BY <3>5, <6>1, <6>2
          <6>4. m - x - 1 \in l + 1 .. i - 1 - 1
            BY <1>2, <5>2, <6>3
          <6> QED
            BY <5>1, <6>1, <6>3, <6>4
        <5>4. j \in 1 .. k - 1 - 1
          BY <1>2, <5>2
        <5> QED
          BY <5>2, <5>3, <5>4 DEF Waiting, kid
      <4>2. CASE \E j \in d.depth + 1 .. n :
                   /\ temps[j].node = kid
                   /\ \A l \in 1 .. i - 1 - 1 : Cleans(ag[l]) => j <= ag[l].depth
        <5>1. PICK j \in d.depth + 1 .. n :
                   /\ temps[j].node = kid
                   /\ \A l \in 1 .. i - 1 - 1 : Cleans(ag[l]) => j <= ag[l].depth
          BY <4>2
        <5>2. ASSUME NEW l \in 1 .. k - 1 - 1, Cleans(new[l]) PROVE j <= new[l].depth
          <6>1. CASE l = x + 1 /\ new[l].depth = n
            <7>1. i - 1 \in 2 .. Len(ag)
              BY <3>1
            <7>2. d.depth \in Nat
              BY <1>11, <3>1, <7>1 DEF d
            <7> QED
              BY <1>1, <5>1, <6>1, <7>2
          <6>2. CASE l - x - 1 \in 2 .. i - 1 - 1 /\ new[l] = ag[l - x - 1]
            <7>1. l - x - 1 \in 1 .. i - 1 - 1
              BY <3>1, <6>2
            <7> QED
              BY <5>1, <5>2, <6>2, <7>1
          <6> QED
            BY <3>5, <5>2, <6>1, <6>2
        <5> QED
          BY <3>1, <5>1, <5>2 DEF Waiting, n, kid
      <4> QED
        BY <3>2, <4>1, <4>2 DEF Waiting, n, kid, d
    <3>7. Due(ag, i - 1, Append(at, 2)) => Due(new, k - 1, Append(at, 2))
      <4> DEFINE kid == Append(at, 2)
      <4> HIDE DEF kid
      <4>1. ASSUME NEW l \in 1 .. i - 1 - 1, Yields(ag[l], kid)
            PROVE  \E j \in 1 .. k - 1 - 1 : Yields(new[j], kid)
        <5>1. PICK j \in x + 2 .. k - 1 - 1 : Yields(new[j], kid)
          BY <3>4, <4>1
        <5>2. j \in 1 .. k - 1 - 1
          BY <1>2, <5>1
        <5> QED
          BY <5>1, <5>2
      <4> QED
        BY <4>1 DEF Due, kid
    <3> QED
      BY <3>1, <3>2, <3>6, <3>7
  <2>6. ASSUME NEW k \in 2 .. Len(new), InPlace(new[k])
        PROVE  /\ Waiting(new, temps, k - 1, Append(new[k].at, 1))
               /\ \A i \in 1 .. new[k - 1].depth : ~ Under(new[k].at, temps[i].node)
               /\ new[k].e.op = "shift" =>
                    Append(new[k].at, 2) \in D \/ Due(new, k - 1, Append(new[k].at, 2))
    <3>1. CASE k = x + 2
      <4>1. k - 1 = x + 1 /\ new[k] = r /\ new[k - 1] = c
        BY <1>2, <1>7, <3>1
      <4> QED
        BY <1>5, <2>4, <2>6, <4>1 DEF InPlace
    <3>2. CASE k # x + 2
      <4>1. k \in x + 3 .. Len(new)
        BY <2>1, <2>6, <3>2 DEF InPlace
      <4> QED
        BY <2>5, <2>6, <4>1
    <3> QED
      BY <3>1, <3>2
  <2> QED
    BY <2>3, <2>6 DEF Waits
<1> QED
  BY <1>7, <1>10, <1>12, <1>13 DEF Plan, new, Y, own, c, r, t, n

(* Paths through an operand of a node.                                     *)
LEMMA KidPath ==
  ASSUME NEW n \in Paths, NEW i \in 0 .. 4
  PROVE  /\ Append(n, i) \in Paths /\ Append(n, i) # n
         /\ Len(n) \in Nat /\ Len(Append(n, i)) = Len(n) + 1 /\ Append(n, i)[Len(n) + 1] = i
         /\ \A j \in 1 .. Len(n) : Append(n, i)[j] = n[j]
BY DEF Paths

(* A path through an operand goes through the node.                        *)
LEMMA ThroughKid ==
  ASSUME NEW n \in Paths, NEW i \in 0 .. 4, NEW p \in Paths, Under(Append(n, i), p)
  PROVE  /\ Under(n, p) /\ p # n /\ p[Len(n) + 1] = i
<1> DEFINE k == Append(n, i)
           l == Len(n)
<1>1. /\ k \in Paths /\ l \in Nat /\ Len(k) = l + 1 /\ k[l + 1] = i /\ \A j \in 1 .. l : k[j] = n[j]
  BY KidPath
<1> HIDE DEF k
<1>2. Len(p) >= Len(k) /\ \A j \in 1 .. Len(k) : p[j] = k[j]
  BY DEF Under, k
<1>3. Len(p) \in Nat
  BY DEF Paths
<1> HIDE DEF l
<1>4. l + 1 \in 1 .. Len(k) /\ \A j \in 1 .. l : j \in 1 .. Len(k)
  BY <1>1
<1>5. p[l + 1] = i /\ (\A j \in 1 .. l : p[j] = n[j]) /\ Len(p) > l
  BY <1>1, <1>2, <1>3, <1>4
<1> QED
  BY <1>3, <1>5 DEF Under, l

(* Going through a node is transitive.                                     *)
LEMMA UnderTrans ==
  ASSUME NEW n \in Paths, NEW m \in Paths, NEW p \in Paths, Under(n, m), Under(m, p)
  PROVE  Under(n, p)
<1>1. Len(n) \in Nat /\ Len(m) \in Nat /\ Len(p) \in Nat
  BY DEF Paths
<1>2. Len(m) >= Len(n) /\ Len(p) >= Len(m)
  BY DEF Under
<1>3. \A j \in 1 .. Len(n) : p[j] = n[j]
  <2> TAKE j \in 1 .. Len(n)
  <2>1. j \in 1 .. Len(m)
    BY <1>1, <1>2
  <2> QED
    BY <2>1 DEF Under
<1> QED
  BY <1>1, <1>2, <1>3 DEF Under

(* Tasks that work on the operand at path n and what is below it.          *)
Within(E, X, n) ==
  /\ X \in Seq(Tasks(E))
  /\ \A k \in 1 .. Len(X) : X[k].do = "assign" /\ X[k].at \in Paths /\ Under(n, X[k].at)
  /\ \A k, l \in 1 .. Len(X), p \in Paths : Claims(X[k], p) /\ Claims(X[l], p) => k = l

Apart(m, n) == \A p \in Paths : ~ (Under(m, p) /\ Under(n, p))

(* The task of one operand.                                                *)
LEMMA OneTask ==
  ASSUME NEW E, NEW at \in Paths, NEW k \in E, NEW mask \in Masks
  PROVE  LET X == <<Todo("assign", at, k, mask)>>
         IN  Within(E, X, at) /\ Len(X) = 1 /\ Yields(X[1], at)
<1> DEFINE a == Todo("assign", at, k, mask)
           X == <<a>>
<1>1. a \in Tasks(E) /\ a.do = "assign" /\ a.at = at
  BY DEF Todo, Tasks
<1> HIDE DEF a
<1>2. X \in Seq(Tasks(E)) /\ Len(X) = 1 /\ X[1] = a
  <2> HIDE DEF Tasks
  <2> QED
    BY <1>1
<1> HIDE DEF X
<1> QED
  BY <1>1, <1>2, UnderItself DEF Within, Yields, X, a

(* The tasks of two operands, apart from one another.                      *)
LEMMA TwoParts ==
  ASSUME NEW E, NEW m \in Paths, NEW n \in Paths, Apart(m, n), NEW at \in Paths,
         NEW X, Within(E, X, m), NEW Y, Within(E, Y, n), Under(at, m), Under(at, n)
  PROVE  Within(E, X \o Y, at)
<1> DEFINE Z == X \o Y
           x == Len(X)
           y == Len(Y)
<1>1. /\ X \in Seq(Tasks(E)) /\ x \in Nat /\ Y \in Seq(Tasks(E)) /\ y \in Nat
  BY DEF Within
<1>2. /\ Z \in Seq(Tasks(E)) /\ Len(Z) = x + y
      /\ \A i \in 1 .. x + y : Z[i] = IF i <= x THEN X[i] ELSE Y[i - x]
  BY <1>1, ConcatProperties
<1> HIDE DEF Z, x, y
<1>3. \A k \in 1 .. Len(Z) : \/ k \in 1 .. x /\ Z[k] = X[k]
                             \/ k \in x + 1 .. x + y /\ k - x \in 1 .. y /\ Z[k] = Y[k - x]
  <2> TAKE k \in 1 .. Len(Z)
  <2>1. \/ k \in 1 .. x /\ k <= x
        \/ k \in x + 1 .. x + y /\ k - x \in 1 .. y /\ ~ (k <= x)
    BY <1>1, <1>2
  <2> QED
    BY <1>2, <2>1
<1>4. /\ \A k \in 1 .. x : X[k].do = "assign" /\ X[k].at \in Paths /\ Under(m, X[k].at)
      /\ \A k, l \in 1 .. x, p \in Paths : Claims(X[k], p) /\ Claims(X[l], p) => k = l
  BY DEF Within, x
<1>5. /\ \A k \in 1 .. y : Y[k].do = "assign" /\ Y[k].at \in Paths /\ Under(n, Y[k].at)
      /\ \A k, l \in 1 .. y, p \in Paths : Claims(Y[k], p) /\ Claims(Y[l], p) => k = l
  BY DEF Within, y
<1>6. \A k \in 1 .. Len(Z) : Z[k].do = "assign" /\ Z[k].at \in Paths /\ Under(at, Z[k].at)
  BY <1>3, <1>4, <1>5, UnderTrans
<1>7. ASSUME NEW k \in 1 .. Len(Z), NEW p \in Paths, Claims(Z[k], p)
      PROVE  \/ k \in 1 .. x /\ Claims(X[k], p) /\ Under(m, p)
             \/ k - x \in 1 .. y /\ Claims(Y[k - x], p) /\ Under(n, p)
  <2>1. CASE k \in 1 .. x /\ Z[k] = X[k]
    <3>1. X[k].at \in Paths /\ Under(m, X[k].at) /\ Under(X[k].at, p)
      BY <1>4, <1>7, <2>1 DEF Claims
    <3> QED
      BY <1>7, <2>1, <3>1, UnderTrans
  <2>2. CASE k - x \in 1 .. y /\ Z[k] = Y[k - x]
    <3> DEFINE j == k - x
    <3>0. j \in 1 .. y /\ Z[k] = Y[j]
      BY <2>2
    <3> HIDE DEF j
    <3>1. Y[j].at \in Paths /\ Under(n, Y[j].at) /\ Under(Y[j].at, p)
      BY <1>5, <1>7, <3>0 DEF Claims
    <3>2. Under(n, p)
      BY <3>1, UnderTrans
    <3> QED
      BY <1>7, <3>0, <3>2 DEF j
  <2> QED
    BY <1>3, <2>1, <2>2
<1>8. ASSUME NEW k \in 1 .. Len(Z), NEW l \in 1 .. Len(Z), NEW p \in Paths,
             Claims(Z[k], p), Claims(Z[l], p)
      PROVE  k = l
  <2>1. ~ (Under(m, p) /\ Under(n, p))
    BY DEF Apart
  <2>2. CASE Under(m, p)
    BY <1>4, <1>7, <1>8, <2>1, <2>2
  <2>3. CASE ~ Under(m, p)
    <3> DEFINE i == k - x
               j == l - x
    <3>1. i \in 1 .. y /\ Claims(Y[i], p) /\ j \in 1 .. y /\ Claims(Y[j], p)
      BY <1>7, <1>8, <2>3
    <3>2. i = j
      <4> HIDE DEF i, j
      <4> QED
        BY <1>5, <3>1
    <3> QED
      BY <1>1, <1>2, <3>2
  <2> QED
    BY <2>2, <2>3
<1> QED
  BY <1>2, <1>6, <1>8 DEF Within, Z

(* No path goes through two operands of a node.                            *)
LEMMA KidsApart ==
  ASSUME NEW n \in Paths, NEW i \in 0 .. 4, NEW j \in 0 .. 4, i # j
  PROVE  Apart(Append(n, i), Append(n, j))
BY ThroughKid DEF Apart

(* The path of an operand goes through its node.                           *)
LEMMA UnderKid ==
  ASSUME NEW n \in Paths, NEW i \in 0 .. 4
  PROVE  Under(n, Append(n, i))
<1>1. Append(n, i) \in Paths
  BY KidPath
<1> QED
  BY <1>1, ThroughKid, UnderItself

(* No operand is wanted in no register.                                    *)
LEMMA MaskIn ==
  ASSUME NEW E, NEW t \in Tasks(E), t.do = "assign",
         t.e.op \in {"add", "shift", "subscript"}
  PROVE  ResultMask(t.e, t.mask) \in Masks /\ RhsMask(t.e, t.mask) \in Masks
<1>1. t.mask \in SUBSET LongMask /\ t.mask # {}
  BY TaskIs DEF Masks
<1>2. RCX \in LongMask /\ RAX \in LongMask /\ RAX # RCX
  BY Numbers DEF RAX, RCX
<1>3. ResultMask(t.e, t.mask) \in Masks
  <2>1. CASE t.e.op = "add"
    BY <1>1, <2>1 DEF ResultMask, Masks
  <2>2. CASE t.e.op = "shift"
    <3>1. ResultMask(t.e, t.mask) = IF t.mask = {RCX} THEN LongMask \ {RCX} ELSE t.mask \ {RCX}
      BY <2>2 DEF ResultMask
    <3>2. LongMask \ {RCX} # {}
      BY <1>2
    <3>3. t.mask # {RCX} => t.mask \ {RCX} # {}
      BY <1>1
    <3> QED
      BY <1>1, <3>1, <3>2, <3>3 DEF Masks
  <2>3. CASE t.e.op = "subscript"
    BY <1>2, <2>3 DEF ResultMask, Masks
  <2> QED
    BY <2>1, <2>2, <2>3
<1>4. RhsMask(t.e, t.mask) \in Masks
  <2>1. CASE t.e.op = "shift"
    BY <1>2, <2>1 DEF RhsMask, Masks
  <2>2. CASE t.e.op # "shift"
    <3>1. RhsMask(t.e, t.mask) = IF t.e.op = "subscript" \/ t.mask = LongMask THEN LongMask
                                 ELSE LongMask \ t.mask
      BY <2>2 DEF RhsMask
    <3>2. LongMask # {} /\ (t.mask # LongMask => LongMask \ t.mask # {})
      BY <1>1, <1>2
    <3> QED
      BY <3>1, <3>2 DEF Masks
  <2> QED
    BY <2>1, <2>2
<1> QED
  BY <1>3, <1>4

(* The tasks of an operand are within it, and give it a register.          *)
LEMMA OperandIs ==
  ASSUME NEW E, Expressions(E), NEW t \in Tasks(E), t.do = "assign",
         t.e.op \in {"add", "shift", "subscript"}, NEW i \in 1 .. 2, NEW mask \in Masks
  PROVE  LET X == OperandTasks(t, i, mask)
         IN  /\ Within(E, X, Append(t.at, i))
             /\ t.e.op # "add" \/ i = 1 =>
                  \E l \in 1 .. Len(X) : Yields(X[l], Append(t.at, i))
<1> DEFINE k == t.e.kids[i]
           at == Append(t.at, i)
           X == OperandTasks(t, i, mask)
           Part(j) == Todo("assign", Append(at, j), k.kids[j], LongMask)
<1>1. t.at \in Paths /\ t.e \in E
  BY TaskIs
<1>2. k \in E
  BY <1>1 DEF Expressions
<1>3. at \in Paths /\ i \in 0 .. 4
  BY <1>1, KidPath
<1>4. AddressMode(t.e, i) => t.e.op = "add" /\ i = 2 /\ k.op \in {"leaf", "subscript"}
  BY DEF AddressMode
<1>5. /\ ~ AddressMode(t.e, i) => X = <<Todo("assign", at, k, mask)>>
      /\ AddressMode(t.e, i) /\ k.op = "leaf" => X = <<>>
      /\ AddressMode(t.e, i) /\ k.op # "leaf" =>
           X = <<Part(1), Part(2)>> \/ X = <<Part(2), Part(1)>>
  BY DEF OperandTasks, Kid
<1> HIDE DEF X, at, k, Part
<1>6. CASE ~ AddressMode(t.e, i)
  <2>1. X = <<Todo("assign", at, k, mask)>>
    BY <1>5, <1>6
  <2>2. Within(E, X, at) /\ Len(X) = 1 /\ Yields(X[1], at)
    BY <1>2, <1>3, <2>1, OneTask
  <2> QED
    BY <2>2 DEF at, X
<1>7. CASE AddressMode(t.e, i) /\ k.op = "leaf"
  <2>1. X = <<>>
    BY <1>5, <1>7
  <2>2. X \in Seq(Tasks(E)) /\ Len(X) = 0
    BY <2>1
  <2>3. Within(E, X, at)
    BY <2>2 DEF Within
  <2> QED
    BY <1>4, <1>7, <2>3 DEF at, X
<1>8. CASE AddressMode(t.e, i) /\ k.op # "leaf"
  <2>1. /\ k.op = "subscript" /\ t.e.op = "add" /\ i = 2
        /\ k.kids[1] \in E /\ k.kids[2] \in E
    BY <1>2, <1>4, <1>8 DEF Expressions
  <2>2. LongMask \in Masks
    BY Numbers DEF Masks
  <2> DEFINE one == Append(at, 1)
             two == Append(at, 2)
             first == <<Todo("assign", one, k.kids[1], LongMask)>>
             second == <<Todo("assign", two, k.kids[2], LongMask)>>
  <2>3. one \in Paths /\ two \in Paths /\ Under(at, one) /\ Under(at, two)
        /\ Apart(one, two) /\ Apart(two, one)
    BY <1>3, KidPath, UnderKid, KidsApart
  <2> HIDE DEF one, two
  <2>4. Within(E, first, one) /\ Within(E, second, two)
    BY <2>1, <2>2, <2>3, OneTask
  <2>5. X = first \o second \/ X = second \o first
    <3>1. X = <<Part(1), Part(2)>> \/ X = <<Part(2), Part(1)>>
      BY <1>5, <1>8
    <3>2. first = <<Part(1)>> /\ second = <<Part(2)>>
      BY DEF one, two, Part
    <3> HIDE DEF first, second
    <3> QED
      BY <3>1, <3>2
  <2> HIDE DEF first, second
  <2>6. Within(E, first \o second, at)
    BY <1>3, <2>3, <2>4, TwoParts
  <2>7. Within(E, second \o first, at)
    BY <1>3, <2>3, <2>4, TwoParts
  <2>8. Within(E, X, at)
    BY <2>5, <2>6, <2>7
  <2> QED
    BY <2>1, <2>8 DEF at, X
<1> QED
  BY <1>6, <1>7, <1>8

(* What a part of the tasks yields all of them yield.                      *)
LEMMA Joined ==
  ASSUME NEW S, NEW X \in Seq(S), NEW Y \in Seq(S), NEW n,
         (\E l \in 1 .. Len(X) : Yields(X[l], n)) \/ (\E l \in 1 .. Len(Y) : Yields(Y[l], n))
  PROVE  \E l \in 1 .. Len(X \o Y) : Yields((X \o Y)[l], n)
<1> DEFINE Z == X \o Y
<1>1. /\ Len(X) \in Nat /\ Len(Y) \in Nat /\ Len(Z) = Len(X) + Len(Y)
      /\ \A i \in 1 .. Len(X) + Len(Y) : Z[i] = IF i <= Len(X) THEN X[i] ELSE Y[i - Len(X)]
  BY ConcatProperties
<1> HIDE DEF Z
<1>2. CASE \E l \in 1 .. Len(X) : Yields(X[l], n)
  <2>1. PICK l \in 1 .. Len(X) : Yields(X[l], n)
    BY <1>2
  <2>2. l \in 1 .. Len(Z) /\ Z[l] = X[l]
    BY <1>1
  <2> QED
    BY <2>1, <2>2 DEF Z
<1>3. CASE \E l \in 1 .. Len(Y) : Yields(Y[l], n)
  <2>1. PICK l \in 1 .. Len(Y) : Yields(Y[l], n)
    BY <1>3
  <2> DEFINE k == Len(X) + l
  <2>2. k \in 1 .. Len(Z) /\ ~ (k <= Len(X)) /\ k - Len(X) = l
    BY <1>1
  <2> HIDE DEF k
  <2>3. Z[k] = Y[l]
    BY <1>1, <2>2
  <2> QED
    BY <2>1, <2>2, <2>3 DEF Z
<1> QED
  BY <1>2, <1>3

(* A member of a concatenation is a member of a part.                      *)
LEMMA EitherPart ==
  ASSUME NEW S, NEW X \in Seq(S), NEW Y \in Seq(S)
  PROVE  \A k \in 1 .. Len(X \o Y) : \/ \E l \in 1 .. Len(X) : (X \o Y)[k] = X[l]
                                     \/ \E l \in 1 .. Len(Y) : (X \o Y)[k] = Y[l]
<1> DEFINE Z == X \o Y
<1>1. /\ Len(X) \in Nat /\ Len(Y) \in Nat /\ Len(Z) = Len(X) + Len(Y)
      /\ \A i \in 1 .. Len(X) + Len(Y) : Z[i] = IF i <= Len(X) THEN X[i] ELSE Y[i - Len(X)]
  BY ConcatProperties
<1> HIDE DEF Z
<1>2. ASSUME NEW k \in 1 .. Len(Z)
      PROVE  (\E l \in 1 .. Len(X) : Z[k] = X[l]) \/ (\E l \in 1 .. Len(Y) : Z[k] = Y[l])
  <2>1. \/ k \in 1 .. Len(X) /\ k <= Len(X)
        \/ k - Len(X) \in 1 .. Len(Y) /\ ~ (k <= Len(X))
    BY <1>1
  <2> QED
    BY <1>1, <2>1
<1> QED
  BY <1>2 DEF Z

(* The tasks of the operands of a binary operator.                         *)
LEMMA BinaryDecomposes ==
  ASSUME NEW E, Expressions(E), NEW t \in Tasks(E), t.do = "assign",
         t.e.op \in {"add", "shift", "subscript"}
  PROVE  Decomposes(E, BinaryTasks(t), t)
<1> DEFINE left == OperandTasks(t, 1, ResultMask(t.e, t.mask))
           right == OperandTasks(t, 2, RhsMask(t.e, t.mask))
           one == Append(t.at, 1)
           two == Append(t.at, 2)
<1>1. t.at \in Paths /\ 1 \in 1 .. 2 /\ 2 \in 1 .. 2 /\ 1 \in 0 .. 4 /\ 2 \in 0 .. 4
  BY TaskIs
<1>2. /\ ResultMask(t.e, t.mask) \in Masks /\ RhsMask(t.e, t.mask) \in Masks
  BY MaskIn
<1>3. Within(E, left, one) /\ \E l \in 1 .. Len(left) : Yields(left[l], one)
  BY <1>1, <1>2, OperandIs
<1>4. Within(E, right, two) /\ (t.e.op = "shift" => \E l \in 1 .. Len(right) : Yields(right[l], two))
  BY <1>1, <1>2, OperandIs
<1>5. /\ one \in Paths /\ two \in Paths /\ Apart(one, two) /\ Apart(two, one)
      /\ Under(t.at, one) /\ Under(t.at, two)
  <2>1. one \in Paths /\ two \in Paths
    BY <1>1, KidPath
  <2>2. Under(t.at, one) /\ Under(t.at, two)
    BY <1>1, UnderKid
  <2>3. Apart(one, two) /\ Apart(two, one)
    <3>1. 1 # 2 /\ 2 # 1
      OBVIOUS
    <3> QED
      BY <1>1, <3>1, KidsApart
  <2> QED
    BY <2>1, <2>2, <2>3
<1>6. \A p \in Paths : Under(one, p) \/ Under(two, p) => p # t.at
  BY <1>1, ThroughKid
<1>7. BinaryTasks(t) = left \o right \/ BinaryTasks(t) = right \o left
  <2>1. Between(t) = <<>>
    BY DEF Between
  <2>2. left \o <<>> = left /\ right \o <<>> = right
    <3>1. left \in Seq(Tasks(E)) /\ right \in Seq(Tasks(E))
      BY <1>3, <1>4 DEF Within
    <3> HIDE DEF left, right, Tasks
    <3> QED
      BY <3>1, ConcatEmptySeq
  <2>3. BinaryTasks(t) = IF LeftFirst(t.e) THEN left \o Between(t) \o right
                         ELSE right \o Between(t) \o left
    BY DEF BinaryTasks
  <2> HIDE DEF left, right
  <2> QED
    BY <2>1, <2>2, <2>3
<1> HIDE DEF left, right, one, two
<1>8. left \in Seq(Tasks(E)) /\ right \in Seq(Tasks(E))
  BY <1>3, <1>4 DEF Within
<1>9. ASSUME NEW X, NEW Y, X \in Seq(Tasks(E)), Y \in Seq(Tasks(E)),
             NEW m \in Paths, NEW n \in Paths, Apart(m, n), Under(t.at, m), Under(t.at, n),
             Within(E, X, m), Within(E, Y, n), {m, n} = {one, two},
             \/ \E l \in 1 .. Len(X) : Yields(X[l], one)
             \/ \E l \in 1 .. Len(Y) : Yields(Y[l], one),
             t.e.op = "shift" => \/ \E l \in 1 .. Len(X) : Yields(X[l], two)
                                 \/ \E l \in 1 .. Len(Y) : Yields(Y[l], two)
      PROVE  Decomposes(E, X \o Y, t)
  <2> DEFINE Z == X \o Y
  <2>1. Within(E, Z, t.at)
    BY <1>1, <1>9, TwoParts
  <2>2. \E l \in 1 .. Len(Z) : Yields(Z[l], one)
    BY <1>9, Joined
  <2>3. t.e.op = "shift" => \E l \in 1 .. Len(Z) : Yields(Z[l], two)
    BY <1>9, Joined
  <2>4. \A k \in 1 .. Len(Z) : \/ \E l \in 1 .. Len(X) : Z[k] = X[l]
                               \/ \E l \in 1 .. Len(Y) : Z[k] = Y[l]
    BY <1>9, EitherPart
  <2> HIDE DEF Z
  <2>5. ASSUME NEW k \in 1 .. Len(Z), NEW p \in Paths, Claims(Z[k], p)
        PROVE  Under(t.at, p) /\ p # t.at
    <3>1. Under(m, p) \/ Under(n, p)
      <4>1. CASE \E l \in 1 .. Len(X) : Z[k] = X[l]
        <5>1. Z[k].at \in Paths /\ Z[k].do = "assign" /\ Under(m, Z[k].at)
          BY <1>9, <4>1 DEF Within
        <5>2. Under(Z[k].at, p)
          BY <2>5, <5>1 DEF Claims
        <5> QED
          BY <5>1, <5>2, UnderTrans
      <4>2. CASE \E l \in 1 .. Len(Y) : Z[k] = Y[l]
        <5>1. Z[k].at \in Paths /\ Z[k].do = "assign" /\ Under(n, Z[k].at)
          BY <1>9, <4>2 DEF Within
        <5>2. Under(Z[k].at, p)
          BY <2>5, <5>1 DEF Claims
        <5> QED
          BY <5>1, <5>2, UnderTrans
      <4> QED
        BY <2>4, <4>1, <4>2
    <3>2. Under(t.at, p)
      BY <1>1, <1>9, <3>1, UnderTrans
    <3>3. Under(one, p) \/ Under(two, p)
      BY <1>9, <3>1
    <3> QED
      BY <1>6, <3>2, <3>3
  <2>6. /\ Z \in Seq(Tasks(E)) /\ \A k \in 1 .. Len(Z) : Z[k].do = "assign"
        /\ \A k, l \in 1 .. Len(Z), p \in Paths : Claims(Z[k], p) /\ Claims(Z[l], p) => k = l
    BY <2>1 DEF Within
  <2>7. Decomposes(E, Z, t)
    BY <2>2, <2>3, <2>5, <2>6 DEF Decomposes, one, two
  <2> QED
    BY <2>7 DEF Z
<1>10. Decomposes(E, left \o right, t)
  BY <1>3, <1>4, <1>5, <1>8, <1>9
<1>11. Decomposes(E, right \o left, t)
  BY <1>3, <1>4, <1>5, <1>8, <1>9
<1> QED
  BY <1>7, <1>10, <1>11

(* The tasks of the arguments of a call.                                   *)
LEMMA CallDecomposes ==
  ASSUME NEW E, Expressions(E), NEW t \in Tasks(E), t.do = "assign", t.e.op = "call"
  PROVE  Decomposes(E, CallTasks(t), t)
<1> DEFINE m == Len(t.e.kids)
           first == <<Todo("vacate", VacateNode(t.at), t.e, LongMask)>>
           rest == [i \in DOMAIN t.e.kids |->
                      Todo("assign", Kid(t, i), t.e.kids[i], {fastArgs[i]})]
           Z == first \o rest
<1>1. t.at \in Paths /\ t.e \in E
  BY TaskIs
<1>2. /\ m \in 0 .. 4 /\ DOMAIN t.e.kids = 1 .. m /\ \A i \in 1 .. m : t.e.kids[i] \in E
  <2>1. t.e.kids \in Seq(E) /\ Len(t.e.kids) <= Len(fastArgs)
    BY <1>1 DEF Expressions
  <2>2. Len(fastArgs) = 4
    BY DEF fastArgs
  <2> DEFINE ks == t.e.kids
  <2>3. ks \in Seq(E) /\ Len(ks) <= 4
    BY <2>1, <2>2
  <2> HIDE DEF ks
  <2>4. Len(ks) \in Nat /\ DOMAIN ks = 1 .. Len(ks)
    BY <2>3
  <2>5. \A i \in 1 .. Len(ks) : ks[i] \in E
    BY <2>3
  <2>6. Len(ks) \in 0 .. 4
    BY <2>3, <2>4
  <2> QED
    BY <2>4, <2>5, <2>6 DEF ks
<1>3. /\ first \in Seq(Tasks(E)) /\ Len(first) = 1 /\ first[1].do = "vacate"
  <2> DEFINE v == Todo("vacate", VacateNode(t.at), t.e, LongMask)
  <2>1. LongMask \in Masks /\ VacateNode(t.at) \in Paths
    <3>1. LongMask \in Masks
      BY Numbers DEF Masks
    <3>2. 0 \in 0 .. 4
      OBVIOUS
    <3> QED
      BY <1>1, <3>1, <3>2, KidPath DEF VacateNode
  <2>2. v \in Tasks(E) /\ v.do = "vacate"
    BY <1>1, <2>1 DEF Tasks, Todo
  <2>3. first = <<v>>
    OBVIOUS
  <2> HIDE DEF v, first, Tasks
  <2> QED
    BY <2>2, <2>3
<1>4. ASSUME NEW i \in 1 .. m
      PROVE  /\ rest[i] \in Tasks(E) /\ rest[i].do = "assign" /\ rest[i].at = Append(t.at, i)
  <2>1. {fastArgs[i]} \in Masks
    <3>1. i \in {1, 2, 3, 4}
      BY <1>2
    <3>2. fastArgs[i] \in {RCX, RDX, R8, R9}
      BY <3>1 DEF fastArgs
    <3> QED
      BY <3>2, Numbers DEF Masks
  <2>2. Append(t.at, i) \in Paths
    BY <1>1, <1>2, KidPath
  <2>3. rest[i] = Todo("assign", Append(t.at, i), t.e.kids[i], {fastArgs[i]})
    BY <1>2 DEF Kid
  <2> HIDE DEF rest
  <2> QED
    BY <1>2, <2>1, <2>2, <2>3 DEF Tasks, Todo
<1>5. rest \in Seq(Tasks(E)) /\ Len(rest) = m
  <2>1. rest = [i \in 1 .. m |-> rest[i]]
    BY <1>2
  <2> HIDE DEF rest, Tasks
  <2>2. rest \in [1 .. m -> Tasks(E)] /\ m \in Nat
    BY <1>2, <1>4, <2>1
  <2> QED
    BY <2>2
<1>6. CallTasks(t) = Z
  BY DEF CallTasks
<1> HIDE DEF first, rest, m
<1>7. Z \in Seq(Tasks(E)) /\ Len(Z) = 1 + m
      /\ \A i \in 1 .. 1 + m : Z[i] = IF i <= 1 THEN first[i] ELSE rest[i - 1]
  BY <1>3, <1>5, ConcatProperties
<1> HIDE DEF Z
<1>8. \A k \in 1 .. Len(Z) : \/ k = 1 /\ Z[k].do = "vacate"
                             \/ /\ k - 1 \in 1 .. m /\ k \in Int /\ Z[k].do = "assign"
                                /\ Z[k].at = Append(t.at, k - 1)
  <2> TAKE k \in 1 .. Len(Z)
  <2>1. CASE k = 1
    BY <1>2, <1>3, <1>7, <2>1
  <2>2. CASE k # 1
    <3> DEFINE j == k - 1
    <3>1. j \in 1 .. m /\ k \in 1 .. 1 + m /\ ~ (k <= 1) /\ k \in Int
      BY <1>2, <1>7, <2>2
    <3> HIDE DEF j
    <3>2. Z[k] = rest[j]
      BY <1>7, <3>1 DEF j
    <3>3. Z[k].do = "assign" /\ Z[k].at = Append(t.at, j)
      BY <1>4, <3>1, <3>2
    <3> QED
      BY <3>1, <3>3 DEF j
  <2> QED
    BY <2>1, <2>2
<1>9. ASSUME NEW k \in 1 .. Len(Z), NEW p \in Paths, Claims(Z[k], p)
      PROVE  Under(t.at, p) /\ p # t.at /\ p[Len(t.at) + 1] = k - 1 /\ k \in Int
  <2>1. k - 1 \in 1 .. m /\ k \in Int /\ Under(Append(t.at, k - 1), p)
    BY <1>8, <1>9 DEF Claims
  <2> DEFINE i == k - 1
  <2>2. i \in 0 .. 4
    BY <1>2, <2>1
  <2> HIDE DEF i
  <2>3. Under(t.at, p) /\ p # t.at /\ p[Len(t.at) + 1] = i
    BY <1>1, <2>1, <2>2, ThroughKid DEF i
  <2> QED
    BY <2>1, <2>3 DEF i
<1>10. \A k, l \in 1 .. Len(Z), p \in Paths : Claims(Z[k], p) /\ Claims(Z[l], p) => k = l
  <2> TAKE k, l \in 1 .. Len(Z), p \in Paths
  <2>1. SUFFICES ASSUME Claims(Z[k], p), Claims(Z[l], p) PROVE k = l
    OBVIOUS
  <2>2. k - 1 = l - 1 /\ k \in Int /\ l \in Int
    BY <1>9, <2>1
  <2> QED
    BY <2>2
<1>11. \A k \in 1 .. Len(Z) : Z[k].do \in {"assign", "vacate"}
  BY <1>8
<1>12. Decomposes(E, Z, t)
  BY <1>7, <1>9, <1>10, <1>11 DEF Decomposes
<1> QED
  BY <1>6, <1>12

(* No node's own temporary is wanted in no register.                       *)
LEMMA OwnMaskIn ==
  ASSUME NEW E, Expressions(E), NEW t \in Tasks(E), t.do = "assign", t.e.op # "leaf"
  PROVE  OwnMask(t) \in Masks
<1>1. t.e \in E /\ t.mask \in Masks
  BY TaskIs
<1>2. t.e.op \in {"add", "shift", "subscript", "call"}
  BY <1>1 DEF Expressions
<1> QED
  BY <1>1, <1>2, MaskIn DEF OwnMask

-----------------------------------------------------------------------------
(* The allocator at work on its agenda.                                    *)

(* A result left in place finds its register free, or its operand pushed.  *)
Ready(t, st, reg) ==
  InPlace(t) =>
    /\ Append(t.at, 1) \in DOMAIN reg
    /\ Latest(st.spills, reg, Append(t.at, 1)) \in st.free \cup {NO_REG}
    /\ \A i \in 1 .. Len(st.temps) : ~ Under(t.at, st.temps[i].node)
    /\ t.e.op = "shift" => Append(t.at, 2) \in DOMAIN reg

(* The loops of a cleanup stay among the temporaries above its depth.      *)
Bounds(t, n) ==
  Cleans(t) => /\ t.stage = "move" => t.i \in t.depth + 1 .. n + 1
               /\ t.stage = "pop" => t.i \in t.depth .. n

Steady(E, ag, st, reg) ==
  /\ Sound(st, reg) /\ Plan(E, ag, st.temps, DOMAIN reg)
  /\ ag # <<>> => Ready(Head(ag), st, reg) /\ Bounds(Head(ag), Len(st.temps))

(* The task that is next.                                                  *)
LEMMA TailIs ==
  ASSUME NEW S, NEW ag \in Seq(S), ag # <<>>, <<>> \o Tail(ag) # <<>>
  PROVE  /\ 2 \in 1 .. Len(ag) /\ 1 \in 1 .. Len(ag) /\ Head(ag) = ag[1]
         /\ Head(<<>> \o Tail(ag)) = ag[2]
<1> DEFINE Y == <<>>
<1>1. Y \in Seq(S) /\ Len(Y) = 0
  OBVIOUS
<1> DEFINE new == Y \o Tail(ag)
<1> HIDE DEF Y
<1>2. Glue(S, ag, Y, new)
  BY <1>1, Glued
<1>3. new # <<>>
  BY DEF Y
<1> HIDE DEF new
<1>4. new \in Seq(S) /\ Len(new) \in Nat /\ Len(new) >= 1 /\ Head(new) = new[1]
  BY <1>2, <1>3 DEF Glue
<1>5. Len(ag) \in Nat /\ Len(new) = Len(ag) - 1 /\ Head(ag) = ag[1]
  BY <1>1, <1>2 DEF Glue
<1>6. 1 \in Len(Y) + 1 .. Len(new) /\ 1 - Len(Y) + 1 = 2
  BY <1>1, <1>4
<1>7. new[1] = ag[1 - Len(Y) + 1]
  BY <1>2, <1>6 DEF Glue
<1> QED
  BY <1>4, <1>5, <1>6, <1>7 DEF new, Y

(* The task at the head of a plan.                                         *)
LEMMA PlanIs ==
  ASSUME NEW E, NEW ag, NEW temps, NEW D, Plan(E, ag, temps, D), ag # <<>>
  PROVE  /\ ag \in Seq(Tasks(E)) /\ Head(ag) \in Tasks(E) /\ Len(ag) \in Nat
         /\ 1 \in 1 .. Len(ag) /\ Head(ag) = ag[1]
         /\ Cleans(Head(ag)) => Head(ag).depth \in Nat /\ Head(ag).depth <= Len(temps)
<1>1. /\ ag \in Seq(Tasks(E)) /\ Depths(ag, Len(temps))
  BY DEF Plan
<1>2. /\ Head(ag) \in Tasks(E) /\ Len(ag) \in Nat /\ 1 \in 1 .. Len(ag) /\ Head(ag) = ag[1]
  <2> HIDE DEF Tasks
  <2> QED
    BY <1>1
<1> QED
  BY <1>1, <1>2, TaskIs DEF Depths

(* A task other than a cleanup has ended.                                  *)
LEMMA Finished ==
  ASSUME NEW E, NEW ag, NEW st, NEW reg, Steady(E, ag, st, reg), ag # <<>>, ~ Cleans(Head(ag)),
         NEW st2, NEW reg2, Sound(st2, reg2),
         Ends(Head(ag), st.temps, DOMAIN reg, st2.temps, DOMAIN reg2)
  PROVE  Steady(E, <<>> \o Tail(ag), st2, reg2)
<1> DEFINE new == <<>> \o Tail(ag)
<1>1. Plan(E, ag, st.temps, DOMAIN reg)
  BY DEF Steady
<1>2. Plan(E, new, st2.temps, DOMAIN reg2)
  BY <1>1, Dropped
<1>3. ASSUME new # <<>> PROVE Ready(Head(new), st2, reg2) /\ Bounds(Head(new), Len(st2.temps))
  <2>1. ag \in Seq(Tasks(E)) /\ Depths(ag, Len(st.temps)) /\ Waits(ag, st.temps, DOMAIN reg)
    BY <1>1 DEF Plan
  <2>2. 2 \in 1 .. Len(ag) /\ Head(ag) = ag[1] /\ Head(new) = ag[2]
    BY <1>3, <2>1, TailIs
  <2> HIDE DEF new
  <2>3. 2 \in 2 .. Len(ag) /\ 2 - 1 = 1
    BY <2>2
  <2>4. ag[2].do # "result"
    BY <2>1, <2>2, <2>3 DEF Waits
  <2>5. Cleans(ag[2]) => ag[2].stage = "scan"
    BY <2>1, <2>3 DEF Depths
  <2> QED
    BY <2>2, <2>4, <2>5 DEF Ready, InPlace, Bounds
<1> QED
  BY <1>2, <1>3 DEF Steady

(* A cleanup goes on.                                                      *)
LEMMA GoesOn ==
  ASSUME NEW E, NEW ag, NEW st, NEW reg, Steady(E, ag, st, reg), ag # <<>>, Cleans(Head(ag)),
         NEW c \in Tasks(E), Cleans(c), c.depth = Head(ag).depth,
         NEW st2, Sound(st2, reg), SameTemps(st, st2), Bounds(c, Len(st.temps))
  PROVE  Steady(E, <<c>> \o Tail(ag), st2, reg)
<1> DEFINE new == <<c>> \o Tail(ag)
<1>1. Plan(E, ag, st.temps, DOMAIN reg)
  BY DEF Steady
<1>2. Len(st.temps) \in Nat
  BY DEF Steady, Sound, Typed, States
<1>3. Len(st2.temps) = Len(st.temps) /\ \A i \in 1 .. Len(st.temps) : st2.temps[i].node = st.temps[i].node
  BY DEF SameTemps
<1>4. Plan(E, new, st2.temps, DOMAIN reg)
  BY <1>1, <1>2, <1>3, Continued
<1>5. Head(new) = c
  <2> DEFINE T == Tail(ag)
  <2> HIDE DEF T
  <2>1. T \in Seq(Tasks(E))
    BY <1>1 DEF Plan, T
  <2> HIDE DEF Tasks
  <2>2. Head(<<c>> \o T) = c
    BY <2>1
  <2> QED
    BY <2>2 DEF T
<1> HIDE DEF new
<1>6. Ready(c, st2, reg)
  BY DEF Ready, InPlace, Cleans
<1> QED
  BY <1>3, <1>4, <1>5, <1>6 DEF Steady, new

(* A cleanup has released its temporaries.                                 *)
LEMMA IsOver ==
  ASSUME NEW E, NEW ag, NEW st, NEW reg, Steady(E, ag, st, reg), ag # <<>>, Cleans(Head(ag)),
         NEW st2, Sound(st2, reg), Len(st2.temps) = Head(ag).depth, st2.spills = st.spills,
         \A i \in 1 .. Head(ag).depth : st2.temps[i] = st.temps[i],
         \A i \in Head(ag).depth + 1 .. Len(st.temps) : st.temps[i].current \in st2.free \cup {NO_REG}
  PROVE  Steady(E, <<>> \o Tail(ag), st2, reg)
<1> DEFINE new == <<>> \o Tail(ag)
           D == DOMAIN reg
           n == Len(st.temps)
           d == Head(ag).depth
<1>1. Plan(E, ag, st.temps, D) /\ Sound(st, reg) /\ n \in Nat
  BY DEF Steady, Sound, Typed, States
<1>2. d \in Nat /\ d <= n
  BY <1>1, PlanIs
<1> HIDE DEF d
<1>3. Ends(Head(ag), st.temps, D, st2.temps, D)
  <2>1. \A i \in 1 .. n : i <= d => st2.temps[i].node = st.temps[i].node
    BY <1>1, <1>2 DEF d
  <2>2. Head(ag).do \notin {"assign", "result"}
    BY DEF Cleans
  <2>3. Len(st2.temps) = d
    BY DEF d
  <2> QED
    BY <1>1, <1>2, <2>1, <2>2, <2>3 DEF Ends, d
<1>4. Plan(E, new, st2.temps, D)
  BY <1>1, <1>3, Dropped
<1>5. ASSUME new # <<>> PROVE Ready(Head(new), st2, reg) /\ Bounds(Head(new), Len(st2.temps))
  <2>1. ag \in Seq(Tasks(E)) /\ Depths(ag, n) /\ Waits(ag, st.temps, D)
    BY <1>1 DEF Plan
  <2>2. 2 \in 1 .. Len(ag) /\ Head(ag) = ag[1] /\ Head(new) = ag[2]
    BY <1>5, <2>1, TailIs
  <2> HIDE DEF new
  <2>3. 2 \in 2 .. Len(ag) /\ 2 - 1 = 1 /\ 1 .. 1 - 1 = {}
    BY <2>2
  <2>4. Cleans(ag[2]) => ag[2].stage = "scan"
    BY <2>1, <2>3 DEF Depths
  <2>5. ASSUME InPlace(ag[2])
        PROVE  /\ Append(ag[2].at, 1) \in D
               /\ Latest(st2.spills, reg, Append(ag[2].at, 1)) \in st2.free \cup {NO_REG}
               /\ \A i \in 1 .. d : ~ Under(ag[2].at, st2.temps[i].node)
               /\ ag[2].e.op = "shift" => Append(ag[2].at, 2) \in D
    <3> DEFINE at == ag[2].at
               one == Append(at, 1)
               two == Append(at, 2)
    <3>1. /\ Waiting(ag, st.temps, 1, one)
          /\ \A i \in 1 .. ag[1].depth : ~ Under(at, st.temps[i].node)
          /\ ag[2].e.op = "shift" => two \in D \/ Due(ag, 1, two)
      BY <2>1, <2>3, <2>5 DEF Waits
    <3> HIDE DEF one, two, at
    <3>2. PICK i \in d + 1 .. n : st.temps[i].node = one
      BY <2>2, <2>3, <3>1 DEF Waiting, d
    <3>3. i \in 1 .. n
      BY <1>1, <1>2
    <3>4. one \in D /\ Latest(st.spills, reg, one) = st.temps[i].current
      BY <1>1, <3>2, <3>3 DEF Sound, Followed
    <3>5. st.temps[i].current \in st2.free \cup {NO_REG}
      BY <3>2 DEF d
    <3>6. ~ Due(ag, 1, two)
      BY <2>3 DEF Due
    <3>7. \A j \in 1 .. d : ~ Under(at, st2.temps[j].node)
      BY <2>2, <3>1 DEF d
    <3> QED
      BY <3>1, <3>4, <3>5, <3>6, <3>7 DEF one, two, at
  <2> QED
    BY <2>2, <2>4, <2>5 DEF Ready, Bounds, d
<1> QED
  BY <1>4, <1>5 DEF Steady

(* A node's operands are put on the agenda.                                *)
LEMMA IsOpened ==
  ASSUME NEW E, NEW ag, NEW st, NEW reg, Steady(E, ag, st, reg), ag # <<>>, DOMAIN reg \subseteq Paths,
         Head(ag).do = "assign", Head(ag).e.op # "leaf", NEW mask \in Masks,
         NEW X, Decomposes(E, X, Head(ag))
  PROVE  LET t == Head(ag)
             own == <<Cleanup(t.at, Len(st.temps)), Todo("result", t.at, t.e, mask)>>
         IN  Steady(E, (X \o own) \o Tail(ag), st, reg)
<1> DEFINE t == Head(ag)
           n == Len(st.temps)
           c == Cleanup(t.at, n)
           r == Todo("result", t.at, t.e, mask)
           own == <<c, r>>
           new == (X \o own) \o Tail(ag)
<1>1. Plan(E, ag, st.temps, DOMAIN reg) /\ Sound(st, reg) /\ n \in Nat
  BY DEF Steady, Sound, Typed, States
<1>2. \A i \in 1 .. n : st.temps[i].node \in DOMAIN reg
  BY <1>1 DEF Sound, Followed
<1>3. Plan(E, new, st.temps, DOMAIN reg)
  BY <1>1, <1>2, Expanded
<1>4. ~ InPlace(Head(new)) /\ Bounds(Head(new), n)
  <2>1. /\ X \in Seq(Tasks(E)) /\ \A k \in 1 .. Len(X) : X[k].do \in {"assign", "vacate"}
    BY DEF Decomposes
  <2>2. t \in Tasks(E) /\ ag \in Seq(Tasks(E))
    BY <1>1, PlanIs
  <2>3. c \in Tasks(E) /\ r \in Tasks(E) /\ c.do = "cleanup" /\ c.stage = "scan"
    BY <1>1, <2>2, TaskIs DEF Tasks, Cleanup, Todo
  <2> HIDE DEF c, r, t
  <2>4. \/ Head(new) = c
        \/ Head(new) = X[1] /\ 1 \in 1 .. Len(X)
    <3> DEFINE T == Tail(ag)
    <3>1. T \in Seq(Tasks(E))
      BY <2>2
    <3> HIDE DEF T
    <3>2. CASE X = <<>>
      <4>1. X \o own = own
        <5>1. own \in Seq(Tasks(E))
          <6> HIDE DEF Tasks
          <6> QED
            BY <2>3
        <5> HIDE DEF own
        <5> QED
          BY <3>2, <5>1, ConcatEmptySeq
      <4>2. Head(own \o T) = c
        <5>1. <<c, r>> \in Seq(Tasks(E)) /\ Len(<<c, r>>) = 2 /\ <<c, r>>[1] = c
          <6> HIDE DEF Tasks
          <6> QED
            BY <2>3
        <5> HIDE DEF own
        <5> QED
          BY <3>1, <5>1 DEF own
      <4> QED
        BY <4>1, <4>2 DEF T
    <3>3. CASE X # <<>>
      BY <2>1, <2>3, <3>1, <3>3
    <3> QED
      BY <3>2, <3>3
  <2> QED
    BY <2>1, <2>3, <2>4 DEF InPlace, Bounds, Cleans
<1> QED
  BY <1>1, <1>3, <1>4 DEF Steady, Ready

Tracks(reg) == DOMAIN reg \subseteq Paths /\ \A n \in DOMAIN reg : reg[n] \in Registers

(* After a failed assert nothing more is done, and only types are known.   *)
Fine(E, ag, st, reg) ==
  IF st.failed THEN Typed(st) /\ ag \in Seq(Tasks(E)) ELSE Steady(E, ag, st, reg)

(* A node that is about to be given a register has none yet.               *)
LEMMA Unclaimed ==
  ASSUME NEW E, NEW ag, NEW temps, NEW D, Plan(E, ag, temps, D), ag # <<>>,
         Head(ag).do \in {"assign", "result"}
  PROVE  Head(ag).at \in Paths /\ Head(ag).at \notin D
<1>1. /\ Head(ag) \in Tasks(E) /\ 1 \in 1 .. Len(ag) /\ Head(ag) = ag[1]
  BY PlanIs
<1>2. Head(ag).at \in Paths
  BY <1>1, TaskIs
<1>3. Claims(Head(ag), Head(ag).at)
  BY <1>2, YieldsClaims DEF Yields
<1> QED
  BY <1>1, <1>2, <1>3 DEF Plan, Fresh

(* The type of the agenda after a step.                                    *)
LEMMA TailTyped ==
  ASSUME NEW S, NEW ag \in Seq(S), ag # <<>>, NEW Y \in Seq(S)
  PROVE  Y \o Tail(ag) \in Seq(S)
BY Glued DEF Glue

(* The type of the agenda after its head is done.                          *)
LEMMA RestTyped ==
  ASSUME NEW S, NEW ag \in Seq(S), ag # <<>>
  PROVE  <<>> \o Tail(ag) \in Seq(S)
<1>1. <<>> \in Seq(S)
  OBVIOUS
<1> QED
  BY <1>1, TailTyped

(* The type of Node.register after an assignment.                          *)
LEMMA Tracked ==
  ASSUME NEW reg, Tracks(reg), NEW n \in Paths, NEW r \in Registers
  PROVE  /\ Tracks(SetRegister(reg, n, r)) /\ DOMAIN SetRegister(reg, n, r) = DOMAIN reg \cup {n}
BY DEF Tracks, SetRegister

(* A node is given its register and its temporary.                         *)
LEMMA Gets ==
  ASSUME NEW E, NEW ag, NEW st, NEW reg, Steady(E, ag, st, reg), Tracks(reg), ag # <<>>,
         Head(ag).do \in {"assign", "result"}, NEW g, Sound(g, reg), ~ g.failed, SameTemps(st, g),
         NEW r \in g.free, NEW mask \in Masks
  PROVE  LET n == Head(ag).at
         IN  /\ Fine(E, <<>> \o Tail(ag), makeTemp(g, n, r, mask), SetRegister(reg, n, r))
             /\ Tracks(SetRegister(reg, n, r))
<1> DEFINE n == Head(ag).at
           st2 == makeTemp(g, n, r, mask)
           reg2 == SetRegister(reg, n, r)
           l == Len(st.temps)
<1>1. Plan(E, ag, st.temps, DOMAIN reg) /\ l \in Nat
  BY DEF Steady, Sound, Typed, States
<1>2. n \in Paths /\ n \notin DOMAIN reg
  BY <1>1, Unclaimed
<1>3. mask \in (SUBSET LongMask) \ {{}}
  BY DEF Masks
<1>4. r \in Registers
  BY Numbers DEF Sound, Typed, States
<1>5. Tracks(reg2) /\ DOMAIN reg2 = DOMAIN reg \cup {n}
  BY <1>2, <1>4, Tracked
<1>6. /\ Sound(st2, reg2) /\ st2.failed = g.failed
      /\ Len(st2.temps) = Len(g.temps) + 1
      /\ \A i \in 1 .. Len(g.temps) : st2.temps[i] = g.temps[i]
      /\ st2.temps[Len(g.temps) + 1].node = n
  BY <1>2, <1>3, Born
<1>7. Len(g.temps) = l /\ \A i \in 1 .. l : g.temps[i].node = st.temps[i].node
  BY DEF SameTemps
<1> HIDE DEF st2, reg2, l
<1>8. Ends(Head(ag), st.temps, DOMAIN reg, st2.temps, DOMAIN reg2)
  <2>1. Len(st2.temps) = l + 1 /\ Len(st2.temps) \in Nat /\ Len(st2.temps) >= l /\ Len(st2.temps) > l
    BY <1>1, <1>6, <1>7
  <2>2. \A i \in 1 .. l : st2.temps[i].node = st.temps[i].node
    BY <1>6, <1>7
  <2>3. st2.temps[l + 1].node = n
    BY <1>6, <1>7
  <2>4. \A p \in DOMAIN reg2 : p \in DOMAIN reg \/ (p \in Paths /\ Yields(Head(ag), p))
    BY <1>2, <1>5 DEF Yields
  <2>5. n \in DOMAIN reg2 /\ DOMAIN reg \subseteq DOMAIN reg2
    BY <1>5
  <2>6. ~ Cleans(Head(ag))
    BY DEF Cleans
  <2> QED
    BY <1>1, <2>1, <2>2, <2>3, <2>4, <2>5, <2>6 DEF Ends, l, n
<1>9. ~ Cleans(Head(ag)) /\ ~ st2.failed
  BY <1>6 DEF Cleans
<1>10. Steady(E, <<>> \o Tail(ag), st2, reg2)
  BY <1>6, <1>8, <1>9, Finished
<1> QED
  BY <1>5, <1>9, <1>10 DEF Fine, st2, reg2, n

(* A task ends with an assert that failed.                                 *)
LEMMA Gives ==
  ASSUME NEW E, NEW ag \in Seq(Tasks(E)), ag # <<>>, NEW st, Typed(st), st.failed, NEW reg
  PROVE  Fine(E, <<>> \o Tail(ag), st, reg)
<1>1. <<>> \o Tail(ag) \in Seq(Tasks(E))
  <2> HIDE DEF Tasks
  <2> QED
    BY RestTyped
<1> QED
  BY <1>1 DEF Fine

(* AssignLeaf.                                                             *)
LEMMA LeafStep ==
  ASSUME NEW E, Steady(E, agenda, rs, register), Tracks(register), AssignLeaf
  PROVE  Fine(E, agenda', rs', register') /\ Tracks(register')
<1> DEFINE t == Head(agenda)
           g == getreg(rs, t.at, LongMask, t.mask)
<1>1. /\ agenda # <<>> /\ ~ rs.failed /\ t.do = "assign"
      /\ rs' = IF g.st.failed THEN g.st ELSE makeTemp(g.st, t.at, g.r, t.mask)
      /\ register' = SetRegister(register, t.at, g.r)
      /\ agenda' = <<>> \o Tail(agenda)
  BY DEF AssignLeaf, Assigning, Do
<1>2. /\ agenda \in Seq(Tasks(E)) /\ t \in Tasks(E) /\ Sound(rs, register)
      /\ Plan(E, agenda, rs.temps, DOMAIN register)
  BY <1>1, PlanIs DEF Steady
<1>3. t.at \in Paths /\ t.mask \in Masks
  BY <1>1, <1>2, TaskIs
<1>4. LongMask \in SUBSET LongMask
  OBVIOUS
<1>5. \/ g.st.failed /\ Typed(g.st) /\ g.r = NO_REG
      \/ ~ g.st.failed /\ Sound(g.st, register) /\ Pushed(rs, g.st) /\ g.r \in g.st.free
  BY <1>1, <1>2, <1>3, <1>4, Got
<1> HIDE DEF g, t
<1>6. CASE g.st.failed
  <2>1. Typed(g.st) /\ g.r \in Registers
    BY <1>5, <1>6, Numbers
  <2>2. Tracks(register')
    BY <1>1, <1>3, <2>1, Tracked
  <2> QED
    BY <1>1, <1>2, <1>6, <2>1, <2>2, Gives
<1>7. CASE ~ g.st.failed
  <2>1. SameTemps(rs, g.st)
    BY <1>5, <1>7, PushedSame
  <2>2. /\ rs' = makeTemp(g.st, t.at, g.r, t.mask)
        /\ Sound(g.st, register) /\ g.r \in g.st.free
    BY <1>1, <1>5, <1>7
  <2> QED
    BY <1>1, <1>3, <1>7, <2>1, <2>2, Gets DEF t
<1> QED
  BY <1>6, <1>7

(* AssignOperands.                                                         *)
LEMMA OperandsStep ==
  ASSUME NEW E, Expressions(E), Steady(E, agenda, rs, register), Tracks(register), AssignOperands
  PROVE  Fine(E, agenda', rs', register') /\ Tracks(register')
<1> DEFINE t == Head(agenda)
           X == IF t.e.op = "call" THEN CallTasks(t) ELSE BinaryTasks(t)
           own == <<Cleanup(t.at, Len(rs.temps)), Todo("result", t.at, t.e, OwnMask(t))>>
<1>1. /\ agenda # <<>> /\ ~ rs.failed /\ t.do = "assign" /\ t.e.op # "leaf"
      /\ agenda' = (X \o own) \o Tail(agenda) /\ rs' = rs /\ register' = register
  BY DEF AssignOperands, Assigning, Do
<1>2. t \in Tasks(E)
  BY <1>1, PlanIs DEF Steady
<1>3. t.e.op \in {"add", "shift", "subscript", "call"}
  <2>1. t.e \in E
    BY <1>1, <1>2, TaskIs
  <2> QED
    BY <1>1, <2>1 DEF Expressions
<1>4. Decomposes(E, X, t) /\ OwnMask(t) \in Masks
  BY <1>1, <1>2, <1>3, BinaryDecomposes, CallDecomposes, OwnMaskIn
<1>5. DOMAIN register \subseteq Paths
  BY DEF Tracks
<1> HIDE DEF X
<1>6. Steady(E, (X \o own) \o Tail(agenda), rs, register)
  BY <1>1, <1>4, <1>5, IsOpened
<1> HIDE DEF own, t
<1> QED
  BY <1>1, <1>6 DEF Fine

(* AssignVacate.                                                           *)
LEMMA VacateStep ==
  ASSUME NEW E, Steady(E, agenda, rs, register), Tracks(register), AssignVacate
  PROVE  Fine(E, agenda', rs', register') /\ Tracks(register')
<1> DEFINE t == Head(agenda)
<1>1. /\ agenda # <<>> /\ ~ rs.failed /\ t.do = "vacate"
      /\ rs' = clobberSomeRegisters(rs, t.at, LongMask)
      /\ agenda' = <<>> \o Tail(agenda) /\ register' = register
  BY DEF AssignVacate, Assigning, Do
<1>2. /\ agenda \in Seq(Tasks(E)) /\ t \in Tasks(E) /\ Sound(rs, register)
  BY <1>1, PlanIs DEF Steady
<1>3. t.at \in Paths
  BY <1>2, TaskIs
<1>4. \/ rs'.failed /\ Typed(rs')
      \/ ~ rs'.failed /\ Sound(rs', register) /\ Pushed(rs, rs')
  BY <1>1, <1>2, <1>3, Clobbered
<1> HIDE DEF t
<1>5. CASE rs'.failed
  BY <1>1, <1>2, <1>4, <1>5, Gives
<1>6. CASE ~ rs'.failed
  <2>1. Sound(rs', register) /\ SameTemps(rs, rs')
    BY <1>4, <1>6, PushedSame
  <2>2. Len(rs.temps) \in Nat
    BY <1>2 DEF Sound, Typed, States
  <2>3. Ends(t, rs.temps, DOMAIN register, rs'.temps, DOMAIN register)
    BY <1>1, <2>1, <2>2 DEF Ends, SameTemps, Cleans
  <2>4. ~ Cleans(t)
    BY <1>1 DEF Cleans
  <2>5. Steady(E, <<>> \o Tail(agenda), rs', register)
    BY <1>1, <2>1, <2>3, <2>4, Finished DEF t
  <2> QED
    BY <1>1, <1>6, <2>5 DEF Fine
<1> QED
  BY <1>5, <1>6

(* AssignReserve is of wide divisions only.                                *)
LEMMA NoReserve ==
  ASSUME NEW E, Steady(E, agenda, rs, register), AssignReserve
  PROVE  FALSE
<1>1. agenda # <<>> /\ Head(agenda).do = "reserve"
  BY DEF AssignReserve, Assigning
<1>2. Head(agenda) \in Tasks(E)
  BY <1>1, PlanIs DEF Steady
<1> QED
  BY <1>1, <1>2, TaskIs

(* The type of the allocator with a temporary more.                        *)
LEMMA TypedMade ==
  ASSUME NEW st, Typed(st), NEW n \in Paths, NEW r \in LongMask, NEW mask \in Masks
  PROVE  Typed(makeTemp(st, n, r, mask)) /\ makeTemp(st, n, r, mask).failed = st.failed
<1> DEFINE tm == [node |-> n, current |-> r, desired |-> mask]
           new == makeTemp(st, n, r, mask)
           ts == Append(st.temps, tm)
<1>1. /\ st \in States /\ st.oldest <= Len(st.temps) /\ st.temps \in Seq(Temporaries)
      /\ st.oldest \in Nat /\ Len(st.temps) \in Nat
  BY DEF Typed, States
<1>2. tm \in Temporaries
  BY Numbers DEF Temporaries, Masks
<1> HIDE DEF tm
<1>3. /\ consumeRegs(st, {r}) \in States /\ consumeRegs(st, {r}).temps = st.temps
      /\ consumeRegs(st, {r}).oldest = st.oldest /\ consumeRegs(st, {r}).failed = st.failed
  BY <1>1, RegsFields
<1>4. ts \in Seq(Temporaries) /\ Len(ts) = Len(st.temps) + 1
  <2> HIDE DEF Temporaries
  <2> QED
    BY <1>1, <1>2
<1>5. new = [consumeRegs(st, {r}) EXCEPT !.temps = ts]
  BY <1>3 DEF makeTemp, tm
<1> HIDE DEF ts
<1>6. new \in States /\ new.temps = ts /\ new.oldest = st.oldest /\ new.failed = st.failed
  <2> HIDE DEF Temporaries, Spillings, new
  <2> QED
    BY <1>3, <1>4, <1>5 DEF States
<1> HIDE DEF new
<1>7. Typed(new)
  BY <1>1, <1>4, <1>6 DEF Typed
<1> QED
  BY <1>6, <1>7 DEF new

(* The count of a shift is moved to RCX; it is no temporary any more.      *)
LEMMA Transferred ==
  ASSUME NEW st, NEW reg, Sound(st, reg), ~ st.failed, NEW where \in Paths,
         NEW n \in Paths, n \in DOMAIN reg, \A i \in 1 .. Len(st.temps) : st.temps[i].node # n
  PROVE  LET new == [AddSpill(st, Spill("MOVE", where, RCX, n, <<>>)) EXCEPT
                       !.failed = @ \/ RCX \notin st.free]
         IN  /\ Sound(new, reg) /\ new.temps = st.temps /\ new.free = st.free
             /\ new.failed = (RCX \notin st.free)
             /\ \A m \in DOMAIN reg : m # n =>
                  Latest(new.spills, reg, m) = Latest(st.spills, reg, m)
<1> DEFINE s == Spill("MOVE", where, RCX, n, <<>>)
           mid == AddSpill(st, s)
           new == [mid EXCEPT !.failed = @ \/ RCX \notin st.free]
<1>1. Typed(st) /\ Exact(st) /\ Followed(st, reg) /\ st \in States
  BY DEF Sound, Typed
<1>2. s \in Spillings /\ s.kind = "MOVE" /\ s.affected = n
  <2>1. RCX \in Registers /\ <<>> \in Paths
    BY Numbers DEF Paths
  <2> QED
    BY <2>1 DEF Spill, Spillings
<1> HIDE DEF s
<1>3. /\ mid \in States /\ mid.spills = Append(st.spills, s)
      /\ mid.temps = st.temps /\ mid.oldest = st.oldest /\ mid.failed = st.failed
      /\ mid.free = st.free /\ mid.used = st.used /\ mid.tempRegisters = st.tempRegisters
  BY <1>1, <1>2, AddSpillFields
<1> HIDE DEF mid
<1>4. /\ new \in States /\ new.spills = Append(st.spills, s)
      /\ new.temps = st.temps /\ new.oldest = st.oldest /\ new.failed = (RCX \notin st.free)
      /\ new.free = st.free /\ new.used = st.used
  <2> HIDE DEF Temporaries, Spillings
  <2>1. mid.failed = FALSE
    BY <1>1, <1>3 DEF States
  <2>2. new = [mid EXCEPT !.failed = RCX \notin st.free]
    BY <2>1
  <2> HIDE DEF new
  <2> QED
    BY <1>3, <2>2 DEF States
<1> HIDE DEF new
<1>5. st.spills \in Seq(Spillings) /\ Len(st.spills) \in Nat
  BY <1>1 DEF States
<1>6. \A m \in DOMAIN reg : m # n => Latest(new.spills, reg, m) = Latest(st.spills, reg, m)
  BY <1>2, <1>4, <1>5, LatestAppended
<1>7. About(new.spills, DOMAIN reg)
  <2>1. /\ Len(new.spills) = Len(st.spills) + 1
        /\ \A i \in 1 .. Len(st.spills) : new.spills[i] = st.spills[i]
        /\ new.spills[Len(st.spills) + 1] = s
    <3> HIDE DEF Spillings
    <3> QED
      BY <1>2, <1>4, <1>5
  <2>2. About(st.spills, DOMAIN reg)
    BY <1>1 DEF Followed
  <2>3. ASSUME NEW i \in 1 .. Len(new.spills)
        PROVE  new.spills[i].kind = "XCHG" => new.spills[i].other \in DOMAIN reg
    <3>1. i \in 1 .. Len(st.spills) \/ i = Len(st.spills) + 1
      BY <1>5, <2>1
    <3> QED
      BY <1>2, <2>1, <2>2, <3>1 DEF About
  <2>4. \A i \in 1 .. Len(new.spills) : new.spills[i].affected \in DOMAIN reg
    <3> TAKE i \in 1 .. Len(new.spills)
    <3>1. i \in 1 .. Len(st.spills) \/ i = Len(st.spills) + 1
      BY <1>5, <2>1
    <3> QED
      BY <1>2, <2>1, <2>2, <3>1 DEF About
  <2> QED
    BY <2>3, <2>4 DEF About
<1>8. Followed(new, reg)
  BY <1>1, <1>4, <1>6, <1>7 DEF Followed
<1>9. Typed(new) /\ Exact(new)
  BY <1>1, <1>4 DEF Typed, Exact, RegistersOf
<1> QED
  BY <1>4, <1>6, <1>8, <1>9 DEF Sound, new, mid, s

(* The register of a result, or the assert that fails.                     *)
Found(st, g, reg) ==
  /\ g.r \in Registers
  /\ \/ Typed(g.st) /\ (g.r = NO_REG \/ g.st.failed)
     \/ Sound(g.st, reg) /\ ~ g.st.failed /\ SameTemps(st, g.st) /\ g.r \in g.st.free

(* A result's register is free when it is made, or an assert fails.        *)
LEMMA ResultFound ==
  ASSUME NEW E, Expressions(E), Steady(E, agenda, rs, register), Tracks(register),
         agenda # <<>>, ~ rs.failed, Head(agenda).do = "result"
  PROVE  Found(rs, ResultOf(Head(agenda)), register)
<1> DEFINE t == Head(agenda)
           one == Append(t.at, 1)
           two == Append(t.at, 2)
           D == DOMAIN register
<1>1. /\ agenda \in Seq(Tasks(E)) /\ t \in Tasks(E) /\ Sound(rs, register)
      /\ Ready(t, rs, register)
  BY PlanIs DEF Steady
<1>2. t.at \in Paths /\ t.e.op \in {"add", "shift", "subscript", "call"}
  <2>1. t.e \in E /\ t.e.op # "leaf" /\ t.at \in Paths
    BY <1>1, TaskIs
  <2> QED
    BY <2>1 DEF Expressions
<1>3. Typed(rs) /\ rs.free \subseteq LongMask /\ Len(rs.temps) \in Nat
  BY <1>1 DEF Sound, Typed, States
<1>4. rs.free \cup {NO_REG} \subseteq Registers /\ NO_REG \notin rs.free
  BY <1>3, Numbers
<1>5. SameTemps(rs, rs)
  BY DEF SameTemps
<1>6. one \in Paths /\ two \in Paths /\ one # two /\ Under(t.at, two)
  <2>1. 1 \in 0 .. 4 /\ 2 \in 0 .. 4
    OBVIOUS
  <2>2. one[Len(t.at) + 1] = 1 /\ two[Len(t.at) + 1] = 2
    BY <1>2, <2>1, KidPath
  <2>3. one \in Paths /\ two \in Paths
    BY <1>2, <2>1, KidPath
  <2>4. Under(t.at, two)
    BY <1>2, <2>1, UnderKid
  <2> HIDE DEF one, two
  <2> QED
    BY <2>2, <2>3, <2>4
<1> HIDE DEF one, two
<1>7. ASSUME t.e.op \in {"add", "shift"}
      PROVE  /\ one \in D /\ Latest(rs.spills, register, one) \in rs.free \cup {NO_REG}
             /\ latestResult(rs, register, one) = Latest(rs.spills, register, one)
             /\ \A i \in 1 .. Len(rs.temps) : ~ Under(t.at, rs.temps[i].node)
             /\ t.e.op = "shift" => two \in D
  BY <1>1, <1>7, LatestIs DEF Ready, InPlace, one, two
<1>8. CASE t.e.op = "add"
  <2> DEFINE q == latestResult(rs, register, one)
  <2>1. ResultOf(t) = [st |-> rs, r |-> q]
    BY <1>8 DEF ResultOf, Kid, one
  <2>2. q \in rs.free \cup {NO_REG}
    BY <1>7, <1>8
  <2> HIDE DEF q
  <2> QED
    BY <1>1, <1>3, <1>4, <1>5, <2>1, <2>2 DEF Found
<1>9. CASE t.e.op = "shift"
  <2> DEFINE placed == ensureInRCX(rs, t.at, two)
             q == latestResult(placed, register, one)
  <2>1. ResultOf(t) = [st |-> placed, r |-> q]
    BY <1>9 DEF ResultOf, Kid, one, two
  <2>2. \A i \in 1 .. Len(rs.temps) : rs.temps[i].node # two
    BY <1>6, <1>7, <1>9
  <2>3. q = Latest(placed.spills, register, one)
    BY <1>7, <1>9, LatestIs
  <2>4. \/ placed = rs
        \/ placed = [AddSpill(rs, Spill("MOVE", t.at, RCX, two, <<>>)) EXCEPT
                       !.failed = @ \/ RCX \notin rs.free]
    BY DEF ensureInRCX
  <2> HIDE DEF placed, q
  <2>5. CASE placed = rs
    <3>1. q \in rs.free \cup {NO_REG}
      BY <1>7, <1>9, <2>3, <2>5
    <3> QED
      BY <1>1, <1>3, <1>4, <1>5, <2>1, <2>5, <3>1 DEF Found
  <2>6. CASE placed = [AddSpill(rs, Spill("MOVE", t.at, RCX, two, <<>>)) EXCEPT
                         !.failed = @ \/ RCX \notin rs.free]
    <3>1. /\ Sound(placed, register) /\ placed.temps = rs.temps /\ placed.free = rs.free
          /\ \A m \in D : m # two => Latest(placed.spills, register, m) = Latest(rs.spills, register, m)
      BY <1>1, <1>2, <1>6, <1>7, <1>9, <2>2, <2>6, Transferred
    <3>2. q \in rs.free \cup {NO_REG}
      BY <1>6, <1>7, <1>9, <2>3, <3>1
    <3>3. SameTemps(rs, placed) /\ Typed(placed)
      BY <3>1 DEF SameTemps, Sound
    <3> QED
      BY <1>4, <2>1, <3>1, <3>2, <3>3 DEF Found
  <2> QED
    BY <2>4, <2>5, <2>6
<1>10. CASE t.e.op \in {"subscript", "call"}
  <2>1. PICK mask, desired : /\ mask \in SUBSET LongMask
                             /\ ResultOf(t) = getreg(rs, t.at, mask, desired)
    <3>1. CASE t.e.op = "subscript"
      <4>1. ResultOf(t) = getreg(rs, t.at, LongMask, t.mask)
        BY <3>1 DEF ResultOf
      <4>2. LongMask \in SUBSET LongMask
        OBVIOUS
      <4> QED
        BY <4>1, <4>2
    <3>2. CASE t.e.op = "call"
      <4>1. ResultOf(t) = getreg(rs, t.at, {RAX}, {RAX})
        BY <3>2 DEF ResultOf
      <4>2. {RAX} \in SUBSET LongMask
        BY Numbers
      <4> QED
        BY <4>1, <4>2
    <3> QED
      BY <1>10, <3>1, <3>2
  <2> DEFINE g == getreg(rs, t.at, mask, desired)
  <2>2. \/ g.st.failed /\ Typed(g.st) /\ g.r = NO_REG
        \/ /\ ~ g.st.failed /\ Sound(g.st, register) /\ Pushed(rs, g.st)
           /\ g.r \in mask \cap g.st.free
    BY <1>1, <1>2, <2>1, Got
  <2> HIDE DEF g
  <2>3. g.r \in Registers
    BY <2>1, <2>2, Numbers
  <2> QED
    BY <2>1, <2>2, <2>3, PushedSame DEF Found, g
<1> QED
  BY <1>2, <1>8, <1>9, <1>10

(* AssignResult.                                                           *)
LEMMA ResultStep ==
  ASSUME NEW E, Expressions(E), Steady(E, agenda, rs, register), Tracks(register), AssignResult
  PROVE  Fine(E, agenda', rs', register') /\ Tracks(register')
<1> DEFINE t == Head(agenda)
           g == ResultOf(t)
<1>1. /\ agenda # <<>> /\ ~ rs.failed /\ t.do = "result"
      /\ rs' = IF g.r = NO_REG THEN [g.st EXCEPT !.failed = TRUE]
               ELSE makeTemp(g.st, t.at, g.r, t.mask)
      /\ register' = SetRegister(register, t.at, g.r)
      /\ agenda' = <<>> \o Tail(agenda)
  BY DEF AssignResult, Assigning, Do
<1>2. agenda \in Seq(Tasks(E)) /\ t \in Tasks(E)
  BY <1>1, PlanIs DEF Steady
<1>3. t.at \in Paths /\ t.mask \in Masks
  BY <1>1, <1>2, TaskIs
<1>4. Found(rs, g, register)
  BY <1>1, ResultFound
<1> HIDE DEF g, t
<1>5. Tracks(register')
  BY <1>1, <1>3, <1>4, Tracked DEF Found
<1>6. CASE Typed(g.st) /\ (g.r = NO_REG \/ g.st.failed)
  <2>1. Typed(rs') /\ rs'.failed
    <3>1. CASE g.r = NO_REG
      BY <1>1, <1>6, <3>1, TypedFailed
    <3>2. CASE g.r # NO_REG
      <4>1. g.r \in LongMask
        BY <1>4, <3>2, Numbers DEF Found
      <4> QED
        BY <1>1, <1>3, <1>6, <3>2, <4>1, TypedMade
    <3> QED
      BY <3>1, <3>2
  <2> QED
    BY <1>1, <1>2, <1>5, <2>1, Gives
<1>7. CASE Sound(g.st, register) /\ ~ g.st.failed /\ SameTemps(rs, g.st) /\ g.r \in g.st.free
  <2>1. g.r # NO_REG
    BY <1>7, Numbers DEF Sound, Typed, States
  <2>2. rs' = makeTemp(g.st, t.at, g.r, t.mask)
    BY <1>1, <2>1
  <2> QED
    BY <1>1, <1>3, <1>7, <2>2, Gets DEF t
<1> QED
  BY <1>4, <1>6, <1>7 DEF Found

-----------------------------------------------------------------------------
(* Cleanups.                                                               *)

Stages == {"scan", "move", "swap", "pop", "release"}
Cleanups ==
  [do : {"cleanup"}, at : Paths, depth : Nat, stage : Stages,
   i : Int, fit : Int, pushed : Int, did : BOOLEAN]

(* The fields of a record in which one is changed.                         *)
LEMMA FieldsIn ==
  ASSUME NEW C, NEW P, NEW N, NEW S, NEW I, NEW B,
         NEW c \in [do : C, at : P, depth : N, stage : S, i : I, fit : I, pushed : I, did : B],
         NEW s \in S, NEW i \in I, NEW d \in B
  PROVE  LET T == [do : C, at : P, depth : N, stage : S, i : I, fit : I, pushed : I, did : B]
             a == [c EXCEPT !.stage = s]
             b == [c EXCEPT !.i = i]
             e == [c EXCEPT !.fit = i]
             f == [c EXCEPT !.pushed = i]
             g == [c EXCEPT !.did = d]
         IN  /\ a \in T /\ a.depth = c.depth /\ a.stage = s /\ a.i = c.i
             /\ b \in T /\ b.depth = c.depth /\ b.stage = c.stage /\ b.i = i
             /\ e \in T /\ e.depth = c.depth /\ e.stage = c.stage /\ e.i = c.i
             /\ f \in T /\ f.depth = c.depth /\ f.stage = c.stage /\ f.i = c.i
             /\ g \in T /\ g.depth = c.depth /\ g.stage = c.stage /\ g.i = c.i
<1> DEFINE T == [do : C, at : P, depth : N, stage : S, i : I, fit : I, pushed : I, did : B]
<1>1. LET a == [c EXCEPT !.stage = s]
      IN  a \in T /\ a.depth = c.depth /\ a.stage = s /\ a.i = c.i
  OBVIOUS
<1>2. LET a == [c EXCEPT !.i = i]
      IN  a \in T /\ a.depth = c.depth /\ a.stage = c.stage /\ a.i = i
  OBVIOUS
<1>3. LET a == [c EXCEPT !.fit = i]
      IN  a \in T /\ a.depth = c.depth /\ a.stage = c.stage /\ a.i = c.i
  OBVIOUS
<1>4. LET a == [c EXCEPT !.pushed = i]
      IN  a \in T /\ a.depth = c.depth /\ a.stage = c.stage /\ a.i = c.i
  OBVIOUS
<1>5. LET a == [c EXCEPT !.did = d]
      IN  a \in T /\ a.depth = c.depth /\ a.stage = c.stage /\ a.i = c.i
  OBVIOUS
<1> QED
  BY <1>1, <1>2, <1>3, <1>4, <1>5

(* A cleanup at another stage.                                             *)
LEMMA StageOf ==
  ASSUME NEW c \in Cleanups, NEW s \in Stages
  PROVE  LET new == [c EXCEPT !.stage = s]
         IN  new \in Cleanups /\ new.depth = c.depth /\ new.stage = s /\ new.i = c.i
<1>1. 0 \in Int /\ TRUE \in BOOLEAN
  OBVIOUS
<1> QED
  BY <1>1, FieldsIn DEF Cleanups

(* A cleanup with another count.                                           *)
LEMMA CountsOf ==
  ASSUME NEW c \in Cleanups, NEW i \in Int
  PROVE  /\ LET new == [c EXCEPT !.i = i]
            IN  new \in Cleanups /\ new.depth = c.depth /\ new.stage = c.stage /\ new.i = i
         /\ LET new == [c EXCEPT !.fit = i]
            IN  new \in Cleanups /\ new.depth = c.depth /\ new.stage = c.stage /\ new.i = c.i
         /\ LET new == [c EXCEPT !.pushed = i]
            IN  new \in Cleanups /\ new.depth = c.depth /\ new.stage = c.stage /\ new.i = c.i
<1>1. c.stage \in Stages /\ TRUE \in BOOLEAN
  BY DEF Cleanups
<1> QED
  BY <1>1, FieldsIn DEF Cleanups

(* A cleanup with another flag.                                            *)
LEMMA DidOf ==
  ASSUME NEW c \in Cleanups, NEW d \in BOOLEAN
  PROVE  LET new == [c EXCEPT !.did = d]
         IN  new \in Cleanups /\ new.depth = c.depth /\ new.stage = c.stage /\ new.i = c.i
<1>1. c.stage \in Stages /\ 0 \in Int
  BY DEF Cleanups
<1> QED
  BY <1>1, FieldsIn DEF Cleanups

Turn(c, s, i) == [c EXCEPT !.stage = s, !.i = i]
TurnTo(c, s, i, d) == [c EXCEPT !.stage = s, !.i = i, !.did = d]
TurnAll(c, s, i, f, p) == [c EXCEPT !.stage = s, !.i = i, !.fit = f, !.pushed = p]
Did(c, f, d) == [c EXCEPT !.fit = f, !.did = d]

(* A cleanup at another stage and index,                                   *)
LEMMA Turned ==
  ASSUME NEW c \in Cleanups, NEW s \in Stages, NEW i \in Int
  PROVE  LET new == Turn(c, s, i)
         IN  new \in Cleanups /\ new.depth = c.depth /\ new.stage = s /\ new.i = i
<1> DEFINE x1 == [c EXCEPT !.stage = s]
           x2 == [x1 EXCEPT !.i = i]
<1>1. Turn(c, s, i) = x2
  BY DEF Turn
<1>2. x1 \in Cleanups /\ x1.depth = c.depth /\ x1.stage = s
  BY StageOf, CountsOf, DidOf
<1>3. x2 \in Cleanups /\ x2.depth = c.depth /\ x2.stage = s /\ x2.i = i
  <2> HIDE DEF x1
  <2> QED
    BY <1>2, StageOf, CountsOf, DidOf
<1> HIDE DEF x2
<1> QED
  BY <1>1, <1>3

(* and with another flag,                                                  *)
LEMMA TurnedTo ==
  ASSUME NEW c \in Cleanups, NEW s \in Stages, NEW i \in Int, NEW d \in BOOLEAN
  PROVE  LET new == TurnTo(c, s, i, d)
         IN  new \in Cleanups /\ new.depth = c.depth /\ new.stage = s /\ new.i = i
<1> DEFINE x == Turn(c, s, i)
           y == [x EXCEPT !.did = d]
<1>1. TurnTo(c, s, i, d) = y
  BY DEF Turn, TurnTo
<1>2. x \in Cleanups /\ x.depth = c.depth /\ x.stage = s /\ x.i = i
  BY Turned
<1> HIDE DEF x
<1>3. y \in Cleanups /\ y.depth = c.depth /\ y.stage = s /\ y.i = i
  BY <1>2, StageOf, CountsOf, DidOf
<1> HIDE DEF y
<1> QED
  BY <1>1, <1>3

(* and with other counts.                                                  *)
LEMMA TurnedAll ==
  ASSUME NEW c \in Cleanups, NEW s \in Stages, NEW i \in Int, NEW f \in Int, NEW p \in Int
  PROVE  LET new == TurnAll(c, s, i, f, p)
         IN  new \in Cleanups /\ new.depth = c.depth /\ new.stage = s /\ new.i = i
<1> DEFINE x == Turn(c, s, i)
           y == [x EXCEPT !.fit = f]
           z == [y EXCEPT !.pushed = p]
<1>1. TurnAll(c, s, i, f, p) = z
  BY DEF Turn, TurnAll
<1>2. x \in Cleanups /\ x.depth = c.depth /\ x.stage = s /\ x.i = i
  BY Turned
<1> HIDE DEF x
<1>3. y \in Cleanups /\ y.depth = c.depth /\ y.stage = s /\ y.i = i
  BY <1>2, StageOf, CountsOf, DidOf
<1> HIDE DEF y
<1>4. z \in Cleanups /\ z.depth = c.depth /\ z.stage = s /\ z.i = i
  BY <1>3, StageOf, CountsOf, DidOf
<1> HIDE DEF z
<1> QED
  BY <1>1, <1>4

(* A cleanup that moved a temporary.                                       *)
LEMMA WasDone ==
  ASSUME NEW c \in Cleanups, NEW f \in Int, NEW d \in BOOLEAN
  PROVE  LET new == Did(c, f, d)
         IN  new \in Cleanups /\ new.depth = c.depth /\ new.stage = c.stage /\ new.i = c.i
<1> DEFINE y == [c EXCEPT !.fit = f]
           z == [y EXCEPT !.did = d]
<1>1. Did(c, f, d) = z
  BY DEF Did
<1>2. y \in Cleanups /\ y.depth = c.depth /\ y.stage = c.stage /\ y.i = c.i
  BY StageOf, CountsOf, DidOf
<1> HIDE DEF y
<1>3. z \in Cleanups /\ z.depth = c.depth /\ z.stage = c.stage /\ z.i = c.i
  BY <1>2, StageOf, CountsOf, DidOf
<1> HIDE DEF z
<1> QED
  BY <1>1, <1>3

(* The tasks that are cleanups.                                            *)
LEMMA CleanupIs ==
  ASSUME NEW E, NEW c
  PROVE  c \in Tasks(E) /\ Cleans(c) <=> c \in Cleanups
BY DEF Tasks, Cleans, Cleanups, Stages

(* A step of the cleanup at the head of the agenda.                        *)
LEMMA Turns ==
  ASSUME NEW E, NEW ag, NEW st, NEW reg, Steady(E, ag, st, reg), ag # <<>>, Cleans(Head(ag)),
         NEW c \in Tasks(E), Cleans(c), c.depth = Head(ag).depth, Bounds(c, Len(st.temps)),
         NEW st2, \/ st2.failed /\ Typed(st2)
                  \/ ~ st2.failed /\ Sound(st2, reg) /\ SameTemps(st, st2)
  PROVE  Fine(E, <<c>> \o Tail(ag), st2, reg)
<1>1. CASE st2.failed
  <2>1. ag \in Seq(Tasks(E))
    BY PlanIs DEF Steady
  <2>2. <<c>> \o Tail(ag) \in Seq(Tasks(E))
    <3> HIDE DEF Tasks
    <3>1. <<c>> \in Seq(Tasks(E))
      OBVIOUS
    <3> QED
      BY <2>1, <3>1, TailTyped
  <2> QED
    BY <1>1, <2>2 DEF Fine
<1>2. CASE ~ st2.failed
  <2>1. Steady(E, <<c>> \o Tail(ag), st2, reg)
    BY <1>2, GoesOn
  <2> QED
    BY <1>2, <2>1 DEF Fine
<1> QED
  BY <1>1, <1>2

(* What a step of a cleanup starts from.                                   *)
LEMMA CleaningIs ==
  ASSUME NEW E, Steady(E, agenda, rs, register), NEW stage, Cleaning(stage)
  PROVE  LET c == Head(agenda)
         IN  /\ agenda # <<>> /\ ~ rs.failed /\ Cleans(c) /\ c \in Tasks(E) /\ c.stage = stage
             /\ Sound(rs, register) /\ SameTemps(rs, rs) /\ Bounds(c, Top)
             /\ Top \in Nat /\ c.depth \in Nat /\ c.depth <= Top /\ c.at \in Paths
<1> DEFINE c == Head(agenda)
<1>1. agenda # <<>> /\ ~ rs.failed /\ Cleans(c) /\ c.stage = stage
  BY DEF Cleaning, Assigning, Cleans
<1>2. Plan(E, agenda, rs.temps, DOMAIN register) /\ Sound(rs, register) /\ Bounds(c, Top)
  BY <1>1 DEF Steady, Top
<1>3. c \in Tasks(E) /\ c.depth \in Nat /\ c.depth <= Top
  BY <1>1, <1>2, PlanIs DEF Top
<1>4. Top \in Nat
  BY <1>2 DEF Sound, Typed, States, Top
<1> QED
  BY <1>1, <1>2, <1>3, <1>4, TaskIs DEF SameTemps

(* A cleanup that goes to another stage is within its bounds there.        *)
LEMMA GoToIs ==
  ASSUME NEW E, Head(agenda) \in Tasks(E), Cleans(Head(agenda)), Top \in Nat,
         Head(agenda).depth <= Top
  PROVE  LET c == Head(agenda)
         IN  /\ \A stage \in {"swap", "release"} :
                  LET new == GoTo(stage, 0)
                  IN  new \in Tasks(E) /\ Cleans(new) /\ new.depth = c.depth /\ Bounds(new, Top)
             /\ LET new == GoTo("pop", Top)
                IN  new \in Tasks(E) /\ Cleans(new) /\ new.depth = c.depth /\ Bounds(new, Top)
             /\ LET new == GoTo("move", c.depth + 1)
                IN  new \in Tasks(E) /\ Cleans(new) /\ new.depth = c.depth /\ Bounds(new, Top)
<1> DEFINE c == Head(agenda)
<1>1. c \in Cleanups /\ c.depth \in Nat
  <2>1. c \in Cleanups
    BY CleanupIs
  <2> QED
    BY <2>1 DEF Cleanups
<1>2. ASSUME NEW stage \in {"move", "swap", "pop", "release"}, NEW i \in Int
      PROVE  /\ GoTo(stage, i) \in Tasks(E) /\ Cleans(GoTo(stage, i))
             /\ GoTo(stage, i).depth = c.depth
             /\ GoTo(stage, i).stage = stage /\ GoTo(stage, i).i = i
  <2>1. GoTo(stage, i) = TurnTo(c, stage, i, FALSE)
    BY DEF GoTo, TurnTo
  <2> HIDE DEF c
  <2> DEFINE new == TurnTo(c, stage, i, FALSE)
  <2>2. stage \in Stages /\ FALSE \in BOOLEAN
    BY DEF Stages
  <2>3. new \in Cleanups /\ new.depth = c.depth /\ new.stage = stage /\ new.i = i
    BY <1>1, <2>2, TurnedTo
  <2> HIDE DEF new
  <2>4. new \in Tasks(E) /\ Cleans(new)
    BY <2>3, CleanupIs
  <2> QED
    BY <2>1, <2>3, <2>4 DEF new
<1> HIDE DEF c
<1>3. /\ c.depth + 1 \in Int /\ c.depth + 1 \in c.depth + 1 .. Top + 1
      /\ Top \in Int /\ Top \in c.depth .. Top /\ 0 \in Int
  BY <1>1 DEF c
<1>4. ASSUME NEW stage \in {"swap", "release"}
      PROVE  Bounds(GoTo(stage, 0), Top)
  BY <1>2, <1>3 DEF Bounds
<1>5. Bounds(GoTo("pop", Top), Top)
  BY <1>2, <1>3 DEF Bounds
<1>6. Bounds(GoTo("move", c.depth + 1), Top)
  BY <1>2, <1>3 DEF Bounds
<1> QED
  BY <1>2, <1>3, <1>4, <1>5, <1>6 DEF c

(* The registers of temporaries are among those the allocator has.         *)
LEMMA RegistersIn ==
  ASSUME NEW st, Typed(st), NEW lo \in Nat, lo >= 1
  PROVE  RegistersOf(st, lo, Len(st.temps)) \in SUBSET LongMask
<1>1. st \in States /\ Len(st.temps) \in Nat
  BY DEF Typed, States
<1>2. ASSUME NEW i \in lo .. Len(st.temps), st.temps[i].current # NO_REG
      PROVE  st.temps[i].current \in LongMask
  <2>1. i \in 1 .. Len(st.temps)
    BY <1>1
  <2> QED
    BY <1>1, <1>2, <2>1, TempIs, Numbers
<1> QED
  BY <1>2 DEF RegistersOf

(* A number of temporaries is a number.                                    *)
LEMMA Counted ==
  ASSUME NEW lo \in Int, NEW hi \in Int, NEW S, S \subseteq lo .. hi
  PROVE  Cardinality(S) \in Int
<1>1. IsFiniteSet(lo .. hi)
  BY FS_Interval
<1>2. IsFiniteSet(S)
  BY <1>1, FS_Subset
<1> QED
  BY <1>2, FS_CardinalityType

(* CleanupScan.                                                            *)
LEMMA ScanStep ==
  ASSUME NEW E, Steady(E, agenda, rs, register), CleanupScan
  PROVE  Fine(E, agenda', rs', register)
<1> DEFINE c == Head(agenda)
           live == c.depth + 1 .. Top
           fit == {i \in live : Fits(rs.temps[i])}
           pushed == {i \in live : rs.temps[i].current = NO_REG}
           in == [rs EXCEPT !.tempRegisters = RegistersOf(rs, c.depth + 1, Top)]
           loop == [c EXCEPT !.stage = "move", !.i = c.depth + 1,
                             !.fit = Cardinality(fit), !.pushed = Cardinality(pushed)]
<1>1. Cleaning("scan")
  BY DEF CleanupScan
<1>2. /\ agenda # <<>> /\ ~ rs.failed /\ Cleans(c) /\ c \in Tasks(E)
      /\ Sound(rs, register) /\ SameTemps(rs, rs)
      /\ Top \in Nat /\ c.depth \in Nat /\ c.depth <= Top /\ c.at \in Paths
  BY <1>1, CleaningIs
<1>3. \/ /\ rs' = rs \/ rs' = in
         /\ agenda' = <<GoTo("release", 0)>> \o Tail(agenda)
      \/ /\ fit # live /\ rs' = cleanupTemp(in, register, c.at, Top)
         /\ agenda' = <<GoTo("release", 0)>> \o Tail(agenda)
      \/ /\ rs' = in
         /\ \/ agenda' = <<GoTo("pop", Top)>> \o Tail(agenda)
            \/ agenda' = <<loop>> \o Tail(agenda)
  BY DEF CleanupScan, Continue
<1>4. /\ Sound(in, register) /\ in.temps = rs.temps /\ ~ in.failed /\ SameTemps(rs, in)
  <2>1. RegistersOf(rs, c.depth + 1, Top) \in SUBSET LongMask
    <3>1. c.depth + 1 \in Nat /\ c.depth + 1 >= 1
      BY <1>2
    <3> QED
      BY <1>2, <3>1, RegistersIn DEF Sound, Top
  <2> DEFINE mask == RegistersOf(rs, c.depth + 1, Top)
  <2> HIDE DEF mask
  <2>2. LET new == [rs EXCEPT !.tempRegisters = mask]
        IN  Sound(new, register) /\ new.temps = rs.temps /\ new.failed = rs.failed
    BY <1>2, <2>1, Remembered DEF mask
  <2>3. in = [rs EXCEPT !.tempRegisters = mask]
    BY DEF mask
  <2> HIDE DEF in
  <2> QED
    BY <1>2, <2>2, <2>3 DEF SameTemps
<1>5. /\ GoTo("release", 0) \in Tasks(E) /\ Cleans(GoTo("release", 0))
      /\ GoTo("release", 0).depth = c.depth /\ Bounds(GoTo("release", 0), Top)
  BY <1>2, GoToIs
<1>6. /\ GoTo("pop", Top) \in Tasks(E) /\ Cleans(GoTo("pop", Top))
      /\ GoTo("pop", Top).depth = c.depth /\ Bounds(GoTo("pop", Top), Top)
  BY <1>2, GoToIs
<1>7. loop \in Tasks(E) /\ Cleans(loop) /\ loop.depth = c.depth /\ Bounds(loop, Top)
  <2>1. Cardinality(fit) \in Int /\ Cardinality(pushed) \in Int
    <3>1. c.depth + 1 \in Int /\ Top \in Int /\ fit \subseteq live /\ pushed \subseteq live
      BY <1>2
    <3> HIDE DEF fit, pushed
    <3> QED
      BY <3>1, Counted
  <2> DEFINE f == Cardinality(fit)
             p == Cardinality(pushed)
  <2>2. f \in Int /\ p \in Int
    BY <2>1
  <2> HIDE DEF f, p
  <2>3. c \in Cleanups
    BY <1>2, CleanupIs
  <2>4. loop = TurnAll(c, "move", c.depth + 1, f, p)
    BY DEF TurnAll, f, p
  <2> HIDE DEF loop
  <2>5. c.depth + 1 \in Int /\ c.depth + 1 \in c.depth + 1 .. Top + 1
    BY <1>2
  <2> HIDE DEF c
  <2>6. "move" \in Stages
    BY DEF Stages
  <2>7. /\ loop \in Cleanups /\ loop.depth = c.depth
        /\ loop.stage = "move" /\ loop.i = c.depth + 1
    BY <2>2, <2>3, <2>4, <2>5, <2>6, TurnedAll
  <2>8. loop \in Tasks(E) /\ Cleans(loop)
    BY <2>7, CleanupIs
  <2> QED
    BY <2>5, <2>7, <2>8 DEF Bounds
<1> HIDE DEF in, loop
<1>8. CASE rs' = rs \/ rs' = in
  <2>1. ~ rs'.failed /\ Sound(rs', register) /\ SameTemps(rs, rs')
    BY <1>2, <1>4, <1>8
  <2>2. \/ agenda' = <<GoTo("release", 0)>> \o Tail(agenda)
        \/ agenda' = <<GoTo("pop", Top)>> \o Tail(agenda)
        \/ agenda' = <<loop>> \o Tail(agenda)
    BY <1>3
  <2> HIDE DEF c
  <2>3. PICK c2 : /\ agenda' = <<c2>> \o Tail(agenda) /\ c2 \in Tasks(E) /\ Cleans(c2)
                  /\ c2.depth = c.depth /\ Bounds(c2, Top)
    BY <1>5, <1>6, <1>7, <2>2
  <2> QED
    BY <1>2, <2>1, <2>3, Turns DEF c, Top
<1>9. CASE /\ fit # live /\ rs' = cleanupTemp(in, register, c.at, Top)
           /\ agenda' = <<GoTo("release", 0)>> \o Tail(agenda)
  <2>1. Top \in 1 .. Len(in.temps)
    <3>1. live # {}
      BY <1>9
    <3> QED
      BY <1>2, <1>4, <3>1 DEF Top
  <2>2. \/ rs'.failed /\ Typed(rs')
        \/ ~ rs'.failed /\ Sound(rs', register) /\ SameTemps(in, rs')
    BY <1>2, <1>4, <1>9, <2>1, Cleaned
  <2>3. ~ rs'.failed => SameTemps(rs, rs')
    BY <1>4, <2>2, TempsSame
  <2> QED
    BY <1>2, <1>5, <1>9, <2>2, <2>3, Turns DEF Top
<1> QED
  BY <1>3, <1>8, <1>9

(* CleanupMove.                                                            *)
LEMMA MoveStep ==
  ASSUME NEW E, Steady(E, agenda, rs, register), CleanupMove
  PROVE  Fine(E, agenda', rs', register)
<1> DEFINE c == Head(agenda)
           tm == rs.temps[c.i]
           st == cleanupTemp(rs, register, c.at, c.i)
           k == st.temps[c.i].current
           st2 == [st EXCEPT !.temps[c.i].desired = {k}]
           next == [c EXCEPT !.i = @ + 1]
           done == [next EXCEPT !.fit = @ + 1, !.did = TRUE]
<1>1. Cleaning("move") /\ c.i <= Top
  BY DEF CleanupMove
<1>2. /\ agenda # <<>> /\ ~ rs.failed /\ Cleans(c) /\ c \in Tasks(E) /\ c.stage = "move"
      /\ Sound(rs, register) /\ SameTemps(rs, rs) /\ Bounds(c, Top)
      /\ Top \in Nat /\ c.depth \in Nat /\ c.depth <= Top /\ c.at \in Paths
  BY <1>1, CleaningIs
<1>3. \/ /\ rs' = IF st.failed THEN st ELSE st2
         /\ agenda' = <<done>> \o Tail(agenda)
      \/ rs' = rs /\ agenda' = <<next>> \o Tail(agenda)
  BY DEF CleanupMove, Continue
<1>4. c \in Cleanups /\ c.fit \in Int /\ c.i \in c.depth + 1 .. Top + 1
  <2>1. c \in Cleanups
    BY <1>2, CleanupIs
  <2>2. c.i \in c.depth + 1 .. Top + 1
    <3> HIDE DEF c
    <3> QED
      BY <1>2 DEF Bounds
  <2> QED
    BY <2>1, <2>2 DEF Cleanups
<1>5. c.i \in 1 .. Len(rs.temps) /\ c.i + 1 \in Int /\ c.i + 1 \in c.depth + 1 .. Top + 1
  <2> HIDE DEF c
  <2> QED
    BY <1>1, <1>2, <1>4 DEF Top
<1>6. next \in Cleanups /\ next.depth = c.depth /\ next.stage = "move" /\ next.i = c.i + 1
  <2> DEFINE j == c.i + 1
  <2>1. next = [c EXCEPT !.i = j] /\ j \in Int
    BY <1>5
  <2> HIDE DEF c, j
  <2>2. LET new == [c EXCEPT !.i = j]
        IN  new \in Cleanups /\ new.depth = c.depth /\ new.stage = c.stage /\ new.i = j
    BY <1>4, <2>1, CountsOf
  <2> HIDE DEF next
  <2> QED
    BY <1>2, <2>1, <2>2 DEF j
<1>7. done \in Cleanups /\ done.depth = c.depth /\ done.stage = "move" /\ done.i = c.i + 1
  <2> DEFINE f == next.fit + 1
  <2>1. f \in Int /\ TRUE \in BOOLEAN
    <3> HIDE DEF next
    <3> QED
      BY <1>6 DEF Cleanups
  <2>2. done = Did(next, f, TRUE)
    BY DEF Did
  <2> HIDE DEF f, next, done
  <2> QED
    BY <1>6, <2>1, <2>2, WasDone
<1> HIDE DEF next, done
<1>8. \A x \in {next, done} : x \in Tasks(E) /\ Cleans(x) /\ x.depth = c.depth /\ Bounds(x, Top)
  <2> HIDE DEF c
  <2> QED
    BY <1>5, <1>6, <1>7, CleanupIs DEF Bounds
<1>9. \/ rs'.failed /\ Typed(rs')
      \/ ~ rs'.failed /\ Sound(rs', register) /\ SameTemps(rs, rs')
  <2>1. CASE rs' = rs
    BY <1>2, <2>1
  <2>2. CASE rs' = IF st.failed THEN st ELSE st2
    <3> DEFINE i == c.i
               at == c.at
    <3>1. i \in 1 .. Len(rs.temps) /\ at \in Paths /\ st = cleanupTemp(rs, register, at, i)
      BY <1>2, <1>5
    <3>2. st2 = [st EXCEPT !.temps[i].desired = {k}] /\ k = st.temps[i].current
      OBVIOUS
    <3> HIDE DEF i, at, st, k, st2
    <3>3. \/ st.failed /\ Typed(st)
          \/ /\ ~ st.failed /\ Sound(st, register) /\ SameTemps(rs, st) /\ k \in LongMask
      BY <1>2, <3>1, <3>2, Cleaned
    <3>4. CASE st.failed
      BY <2>2, <3>3, <3>4
    <3>5. CASE ~ st.failed
      <4>1. {k} \in (SUBSET LongMask) \ {{}} /\ i \in 1 .. Len(st.temps)
        BY <3>1, <3>3, <3>5 DEF SameTemps
      <4> DEFINE mask == {k}
      <4> HIDE DEF mask
      <4>2. LET new == [st EXCEPT !.temps[i].desired = mask]
            IN  Sound(new, register) /\ SameTemps(st, new) /\ new.failed = st.failed
        BY <3>3, <3>5, <4>1, Redesired DEF mask
      <4>3. Sound(st2, register) /\ SameTemps(st, st2) /\ st2.failed = st.failed
        BY <3>2, <4>2 DEF mask
      <4>4. SameTemps(rs, st2)
        BY <3>3, <3>5, <4>3, TempsSame
      <4> QED
        BY <2>2, <3>5, <4>3, <4>4
    <3> QED
      BY <3>4, <3>5
  <2> QED
    BY <1>3, <2>1, <2>2
<1>10. PICK x : agenda' = <<x>> \o Tail(agenda) /\ x \in {next, done}
  <2> HIDE DEF c, st, st2
  <2> QED
    BY <1>3
<1>11. x \in Tasks(E) /\ Cleans(x) /\ x.depth = Head(agenda).depth /\ Bounds(x, Len(rs.temps))
  BY <1>8, <1>10 DEF Top
<1> HIDE DEF c
<1>12. Cleans(Head(agenda)) /\ agenda # <<>>
  BY <1>2 DEF c
<1> QED
  BY <1>9, <1>10, <1>11, <1>12, Turns

(* CleanupPassEnds.                                                        *)
LEMMA PassEndsStep ==
  ASSUME NEW E, Steady(E, agenda, rs, register), CleanupPassEnds
  PROVE  Fine(E, agenda', rs', register)
<1> DEFINE c == Head(agenda)
<1>1. Cleaning("move")
  BY DEF CleanupPassEnds
<1>2. /\ agenda # <<>> /\ ~ rs.failed /\ Cleans(c) /\ c \in Tasks(E)
      /\ Sound(rs, register) /\ SameTemps(rs, rs) /\ Top \in Nat /\ c.depth <= Top
  BY <1>1, CleaningIs
<1>3. PICK x \in {GoTo("pop", Top), GoTo("move", c.depth + 1), GoTo("swap", 0)} :
           agenda' = <<x>> \o Tail(agenda)
  BY DEF CleanupPassEnds, Continue
<1>4. x \in Tasks(E) /\ Cleans(x) /\ x.depth = c.depth /\ Bounds(x, Top)
  BY <1>2, <1>3, GoToIs
<1>5. rs' = rs
  BY DEF CleanupPassEnds
<1> QED
  BY <1>2, <1>3, <1>4, <1>5, Turns DEF Top

(* CleanupPop.                                                             *)
LEMMA PopStep ==
  ASSUME NEW E, Steady(E, agenda, rs, register), CleanupPop
  PROVE  Fine(E, agenda', rs', register)
<1> DEFINE c == Head(agenda)
           st == cleanupTemp(rs, register, c.at, c.i)
           next == [c EXCEPT !.i = @ - 1]
<1>1. Cleaning("pop")
  BY DEF CleanupPop
<1>2. /\ agenda # <<>> /\ ~ rs.failed /\ Cleans(c) /\ c \in Tasks(E) /\ c.stage = "pop"
      /\ Sound(rs, register) /\ SameTemps(rs, rs) /\ Bounds(c, Top)
      /\ Top \in Nat /\ c.depth \in Nat /\ c.depth <= Top /\ c.at \in Paths
  BY <1>1, CleaningIs
<1>3. \/ /\ c.i > c.depth /\ rs' = st /\ agenda' = <<next>> \o Tail(agenda)
      \/ rs' = rs /\ agenda' = <<GoTo("release", 0)>> \o Tail(agenda)
  BY DEF CleanupPop, Continue
<1>4. c \in Cleanups /\ c.i \in c.depth .. Top
  <2>1. c \in Cleanups
    BY <1>2, CleanupIs
  <2>2. c.i \in c.depth .. Top
    <3> HIDE DEF c
    <3> QED
      BY <1>2 DEF Bounds
  <2> QED
    BY <2>1, <2>2
<1>5. CASE c.i > c.depth /\ rs' = st /\ agenda' = <<next>> \o Tail(agenda)
  <2>1. c.i \in 1 .. Len(rs.temps) /\ c.i - 1 \in Int /\ c.i - 1 \in c.depth .. Top
    <3> HIDE DEF c
    <3> QED
      BY <1>2, <1>4, <1>5 DEF Top
  <2>2. next \in Cleanups /\ next.depth = c.depth /\ next.stage = "pop" /\ next.i = c.i - 1
    <3> DEFINE j == c.i - 1
    <3>1. next = [c EXCEPT !.i = j] /\ j \in Int
      BY <2>1
    <3> HIDE DEF c, j
    <3>2. LET new == [c EXCEPT !.i = j]
          IN  new \in Cleanups /\ new.depth = c.depth /\ new.stage = c.stage /\ new.i = j
      BY <1>4, <3>1, CountsOf
    <3> HIDE DEF next
    <3> QED
      BY <1>2, <3>1, <3>2 DEF j
  <2> HIDE DEF next
  <2>3. next \in Tasks(E) /\ Cleans(next) /\ next.depth = c.depth /\ Bounds(next, Top)
    <3> HIDE DEF c
    <3> QED
      BY <2>1, <2>2, CleanupIs DEF Bounds
  <2>4. \/ rs'.failed /\ Typed(rs')
        \/ ~ rs'.failed /\ Sound(rs', register) /\ SameTemps(rs, rs')
    BY <1>2, <1>5, <2>1, Cleaned
  <2> QED
    BY <1>2, <1>5, <2>3, <2>4, Turns DEF Top
<1>6. CASE rs' = rs /\ agenda' = <<GoTo("release", 0)>> \o Tail(agenda)
  <2>1. /\ GoTo("release", 0) \in Tasks(E) /\ Cleans(GoTo("release", 0))
        /\ GoTo("release", 0).depth = c.depth /\ Bounds(GoTo("release", 0), Top)
    BY <1>2, GoToIs
  <2> QED
    BY <1>2, <1>6, <2>1, Turns DEF Top
<1> QED
  BY <1>3, <1>5, <1>6

(* CleanupRelease.                                                         *)
LEMMA ReleaseStep ==
  ASSUME NEW E, Steady(E, agenda, rs, register), CleanupRelease
  PROVE  Fine(E, agenda', rs', register)
<1> DEFINE c == Head(agenda)
           depth == c.depth
           new == [freeRegs(rs, RegistersOf(rs, depth + 1, Len(rs.temps))) EXCEPT
                     !.temps = SubSeq(@, 1, depth), !.oldest = Min({@, depth})]
<1>1. Cleaning("release")
  BY DEF CleanupRelease
<1>2. /\ agenda # <<>> /\ ~ rs.failed /\ Cleans(c)
      /\ Sound(rs, register) /\ Top \in Nat /\ c.depth \in Nat /\ c.depth <= Top
  BY <1>1, CleaningIs
<1>3. rs' = new /\ agenda' = <<>> \o Tail(agenda)
  BY DEF CleanupRelease, Do, Top
<1>4. depth \in 0 .. Len(rs.temps)
  BY <1>2 DEF Top
<1> HIDE DEF depth
<1>5. /\ Sound(new, register) /\ new.failed = rs.failed /\ Len(new.temps) = depth
      /\ new.spills = rs.spills
      /\ \A i \in 1 .. depth : new.temps[i] = rs.temps[i]
      /\ \A i \in depth + 1 .. Len(rs.temps) :
           rs.temps[i].current \in new.free \cup {NO_REG}
  BY <1>2, <1>4, Released
<1> HIDE DEF new
<1>6. Steady(E, <<>> \o Tail(agenda), new, register)
  BY <1>2, <1>5, IsOver DEF depth
<1> QED
  BY <1>2, <1>3, <1>5, <1>6 DEF Fine

(* CleanupSwap.                                                            *)
LEMMA SwapStep ==
  ASSUME NEW E, Steady(E, agenda, rs, register), CleanupSwap
  PROVE  Fine(E, agenda', rs', register)
<1> DEFINE c == Head(agenda)
           live == c.depth + 1 .. Top
           misfit == {i \in live : ~Fits(rs.temps[i])}
           a == Min(misfit)
           wants == {j \in live : rs.temps[a].current \in rs.temps[j].desired}
           b == IF wants = {} THEN Top ELSE Min(wants)
           ra == rs.temps[a].current
           rb == rs.temps[b].current
           st == SetCurrent(SetCurrent(rs, b, ra), a, rb)
           new == AddSpill(st, Spill("XCHG", c.at, rb, rs.temps[a].node, rs.temps[b].node))
           gain == SwapGain(ra, rb, rs.temps[b].desired)
           after == [c EXCEPT !.fit = @ + gain]
           next == [after EXCEPT !.stage = IF Resolved(after) THEN "pop" ELSE "move",
                                 !.i = IF Resolved(after) THEN Top ELSE c.depth + 1]
<1>1. Cleaning("swap")
  BY DEF CleanupSwap
<1>2. /\ agenda # <<>> /\ ~ rs.failed /\ Cleans(c) /\ c \in Tasks(E)
      /\ Sound(rs, register) /\ SameTemps(rs, rs)
      /\ Top \in Nat /\ c.depth \in Nat /\ c.depth <= Top /\ c.at \in Paths
  BY <1>1, CleaningIs
<1>3. CASE misfit = {}
  <2>1. rs' = rs /\ agenda' = <<GoTo("move", c.depth + 1)>> \o Tail(agenda)
    <3> HIDE DEF after, gain, new, b, a
    <3> QED
      BY <1>3 DEF CleanupSwap, Continue
  <2>2. /\ GoTo("move", c.depth + 1) \in Tasks(E) /\ Cleans(GoTo("move", c.depth + 1))
        /\ GoTo("move", c.depth + 1).depth = c.depth
        /\ Bounds(GoTo("move", c.depth + 1), Top)
    BY <1>2, GoToIs
  <2> QED
    BY <1>2, <2>1, <2>2, Turns DEF Top
<1>4. CASE misfit # {}
  <2>1. rs' = new /\ agenda' = <<next>> \o Tail(agenda)
    BY <1>4 DEF CleanupSwap, Continue
  <2>2. a \in live /\ live \subseteq 1 .. Len(rs.temps)
    <3>1. live \subseteq 1 .. Len(rs.temps) /\ 1 .. Len(rs.temps) \subseteq Nat
      <4> HIDE DEF c
      <4> QED
        BY <1>2 DEF Top
    <3>2. misfit \in SUBSET Nat /\ misfit \subseteq live
      BY <3>1
    <3> HIDE DEF misfit
    <3> QED
      BY <1>4, <3>1, <3>2, LowestIn
  <2>3. b \in live
    <3>1. wants \in SUBSET Nat /\ wants \subseteq live
      <4> HIDE DEF a
      <4> QED
        BY <1>2
    <3>2. Top \in live
      <4> HIDE DEF c, a
      <4> QED
        BY <1>2, <2>2
    <3> HIDE DEF wants, live
    <3> QED
      BY <3>1, <3>2, LowestIn
  <2>4. a \in 1 .. Len(rs.temps) /\ b \in 1 .. Len(rs.temps)
    BY <2>2, <2>3
  <2> HIDE DEF a, b
  <2>5. Sound(new, register) /\ SameTemps(rs, new) /\ new.failed = rs.failed
    BY <1>2, <2>4, Exchanged
  <2>6. gain \in Int
    BY DEF SwapGain
  <2> HIDE DEF gain, new
  <2>7. c \in Cleanups
    BY <1>2, CleanupIs
  <2>8. after \in Cleanups /\ after.depth = c.depth
    <3> DEFINE f == c.fit + gain
    <3>1. f \in Int /\ after = [c EXCEPT !.fit = f]
      BY <2>6, <2>7 DEF Cleanups
    <3> HIDE DEF f, c
    <3>2. LET x == [c EXCEPT !.fit = f]
          IN  x \in Cleanups /\ x.depth = c.depth
      BY <2>7, <3>1, CountsOf
    <3> QED
      BY <3>1, <3>2
  <2> HIDE DEF after
  <2> DEFINE s == IF Resolved(after) THEN "pop" ELSE "move"
             j == IF Resolved(after) THEN Top ELSE c.depth + 1
  <2>9. /\ s \in Stages /\ j \in Int
        /\ \/ s = "pop" /\ j \in c.depth .. Top
           \/ s = "move" /\ j \in c.depth + 1 .. Top + 1
    BY <1>2 DEF Stages
  <2>10. next = Turn(after, s, j)
    BY DEF Turn
  <2> HIDE DEF s, j, next
  <2>11. next \in Cleanups /\ next.depth = c.depth /\ next.stage = s /\ next.i = j
    BY <2>8, <2>9, <2>10, Turned
  <2> HIDE DEF c
  <2>12. next \in Tasks(E) /\ Cleans(next) /\ next.depth = c.depth /\ Bounds(next, Top)
    BY <2>9, <2>11, CleanupIs DEF Bounds
  <2> QED
    BY <1>2, <2>1, <2>5, <2>12, Turns DEF c, Top
<1> QED
  BY <1>3, <1>4

-----------------------------------------------------------------------------
(* The two phases.                                                         *)

(* Every step of the assign phase.                                         *)
LEMMA AssignStep ==
  ASSUME NEW E, Expressions(E), Steady(E, agenda, rs, register), Tracks(register), Assign
  PROVE  Fine(E, agenda', rs', register') /\ Tracks(register')
<1>1. CASE AssignLeaf
  BY <1>1, LeafStep
<1>2. CASE AssignOperands
  BY <1>2, OperandsStep
<1>3. CASE AssignVacate
  BY <1>3, VacateStep
<1>4. CASE AssignReserve
  BY <1>4, NoReserve
<1>5. CASE AssignResult
  BY <1>5, ResultStep
<1>6. CASE CleanupScan
  <2>1. register' = register
    BY <1>6 DEF CleanupScan
  <2> QED
    BY <1>6, <2>1, ScanStep
<1>7. CASE CleanupMove
  <2>1. register' = register
    BY <1>7 DEF CleanupMove
  <2> QED
    BY <1>7, <2>1, MoveStep
<1>8. CASE CleanupPassEnds
  <2>1. register' = register
    BY <1>8 DEF CleanupPassEnds
  <2> QED
    BY <1>8, <2>1, PassEndsStep
<1>9. CASE CleanupSwap
  <2>1. register' = register
    BY <1>9 DEF CleanupSwap
  <2> QED
    BY <1>9, <2>1, SwapStep
<1>10. CASE CleanupPop
  <2>1. register' = register
    BY <1>10 DEF CleanupPop
  <2> QED
    BY <1>10, <2>1, PopStep
<1>11. CASE CleanupRelease
  <2>1. register' = register
    BY <1>11 DEF CleanupRelease
  <2> QED
    BY <1>11, <2>1, ReleaseStep
<1> QED
  BY <1>1, <1>2, <1>3, <1>4, <1>5, <1>6, <1>7, <1>8, <1>9, <1>10, <1>11 DEF Assign

(* The constructor of RegisterState.                                       *)
LEMMA NewIsSound ==
  ASSUME NEW reg, DOMAIN reg = {}
  PROVE  Sound(NewRegisterState, reg)
<1> DEFINE st == NewRegisterState
<1>1. /\ st.temps = <<>> /\ st.oldest = 0 /\ st.free = LongMask /\ st.used = {}
      /\ st.spills = <<>> /\ Len(st.temps) = 0 /\ Len(st.spills) = 0
  BY DEF NewRegisterState
<1>2. Typed(st)
  <2>1. <<>> \in Seq(Temporaries) /\ <<>> \in Seq(Spillings)
    <3> HIDE DEF Temporaries, Spillings
    <3> QED
      OBVIOUS
  <2>2. st \in States
    <3> HIDE DEF Temporaries, Spillings
    <3> QED
      BY <2>1 DEF NewRegisterState, States
  <2> QED
    BY <1>1, <2>2 DEF Typed
<1> HIDE DEF st
<1>3. Exact(st)
  BY <1>1 DEF Exact, RegistersOf
<1>4. Followed(st, reg)
  BY <1>1 DEF Followed, About
<1> QED
  BY <1>2, <1>3, <1>4 DEF Sound, st

(* The plan for a whole statement.                                         *)
LEMMA Begins ==
  ASSUME NEW E, NEW e \in E, NEW reg, DOMAIN reg = {}
  PROVE  Steady(E, <<Todo("assign", Root, e, {RAX}), Cleanup(<<>>, 0)>>, NewRegisterState, reg)
<1> DEFINE st == NewRegisterState
           a == Todo("assign", Root, e, {RAX})
           c == Cleanup(<<>>, 0)
           ag == <<a, c>>
<1>1. Sound(st, reg) /\ st.temps = <<>> /\ Len(st.temps) = 0
  BY NewIsSound DEF NewRegisterState
<1>2. a \in Tasks(E) /\ a.do = "assign" /\ ~ Cleans(a)
  <2>1. {RAX} \in Masks
    BY Numbers DEF Masks
  <2>2. Root \in Paths
    BY DEF Root, Paths
  <2> QED
    BY <2>1, <2>2 DEF Todo, Tasks, Cleans
<1>3. c \in Tasks(E) /\ c.do = "cleanup" /\ c.depth = 0 /\ c.stage = "scan"
  <2>1. <<>> \in Paths
    BY DEF Paths
  <2> QED
    BY <2>1 DEF Cleanup, Tasks
<1> HIDE DEF a, c, st
<1>4. /\ Len(ag) = 2 /\ ag[1] = a /\ ag[2] = c /\ ag # <<>> /\ Head(ag) = a
      /\ \A k \in 1 .. 2 : k = 1 \/ k = 2
  OBVIOUS
<1>5. ag \in Seq(Tasks(E))
  <2> HIDE DEF Tasks
  <2> QED
    BY <1>2, <1>3
<1> HIDE DEF ag
<1>6. Fresh(ag, {})
  BY <1>2, <1>3, <1>4 DEF Fresh, Claims
<1>7. Depths(ag, 0)
  BY <1>2, <1>3, <1>4 DEF Depths, Cleans
<1>8. Waits(ag, <<>>, {})
  BY <1>2, <1>3, <1>4 DEF Waits, InPlace
<1>9. Ready(a, st, reg) /\ Bounds(a, 0)
  BY <1>2 DEF Ready, Bounds, InPlace
<1>10. Steady(E, ag, st, reg)
  BY <1>1, <1>4, <1>5, <1>6, <1>7, <1>8, <1>9 DEF Steady, Plan
<1> QED
  BY <1>10 DEF ag, a, c, st

Emissions(E, R) ==
  [do : {"generate"}, at : Paths, e : E, mask : {{}}]
    \cup [do : {"spills"}, at : Paths, e : E \cup {R}, mask : {{}}]
    \cup [do : {"execute"}, at : Paths, e : {e \in E : e.op # "leaf"} \cup {R}, mask : {{}}]

Machines == [regs : [LongMask -> Paths], pushed : Seq(Paths)]

(* The fields of a task of the generate phase.                             *)
LEMMA EmissionIs ==
  ASSUME NEW E, NEW R, NEW t \in Emissions(E, R)
  PROVE  /\ t.do \in {"generate", "spills", "execute"} /\ t.at \in Paths
         /\ t.do = "generate" => t.e \in E
         /\ t.do = "execute" => (t.e \in E /\ t.e.op # "leaf") \/ t.e = R
BY DEF Emissions

(* The tasks of the generate phase.                                        *)
LEMMA Emitted ==
  ASSUME NEW E, NEW R, NEW at \in Paths
  PROVE  /\ \A e \in E : Gen(at, e) \in Emissions(E, R) /\ Spills(at, e) \in Emissions(E, R)
         /\ \A e \in E : e.op # "leaf" => Todo("execute", at, e, {}) \in Emissions(E, R)
         /\ Spills(at, R) \in Emissions(E, R)
         /\ Todo("execute", at, R, {}) \in Emissions(E, R)
BY DEF Emissions, Gen, Spills, Todo

(* A register or none, of every node.                                      *)
LEMMA NumberOf ==
  ASSUME NEW reg, Tracks(reg), NEW n
  PROVE  RegisterOf(reg, n) \in Registers
BY Numbers DEF Tracks, RegisterOf

(* A register loaded.                                                      *)
LEMMA LoadIs ==
  ASSUME NEW m \in Machines, NEW r, NEW v \in Paths
  PROVE  Load(m, r, v) \in Machines /\ Load(m, r, v).pushed = m.pushed
<1>1. CASE r \in LongMask
  <2>1. /\ m.regs \in [LongMask -> Paths] /\ m.pushed \in Seq(Paths)
        /\ m = [regs |-> m.regs, pushed |-> m.pushed]
    BY DEF Machines
  <2>2. [m.regs EXCEPT ![r] = v] \in [LongMask -> Paths]
    BY <1>1, <2>1
  <2>3. Load(m, r, v) = [regs |-> [m.regs EXCEPT ![r] = v], pushed |-> m.pushed]
    <3> DEFINE new == [m EXCEPT !.regs[r] = v]
    <3>1. Load(m, r, v) = new
      BY <1>1 DEF Load
    <3>2. new = [regs |-> [m.regs EXCEPT ![r] = v], pushed |-> m.pushed]
      BY <2>1
    <3> QED
      BY <3>1, <3>2
  <2> DEFINE f == [m.regs EXCEPT ![r] = v]
  <2> HIDE DEF f
  <2> QED
    BY <2>1, <2>2, <2>3 DEF Machines, f
<1>2. CASE r \notin LongMask
  BY <1>2 DEF Load
<1> QED
  BY <1>1, <1>2

(* A register read.                                                        *)
LEMMA ContentIs ==
  ASSUME machine \in Machines, NEW r
  PROVE  Content(r) \in Paths
<1>1. Junk \in Paths
  BY DEF Junk, Paths
<1>2. machine.regs \in [LongMask -> Paths]
  BY DEF Machines
<1> QED
  BY <1>1, <1>2 DEF Content

(* An instruction executed.                                                *)
LEMMA EffectIs ==
  ASSUME machine \in Machines, NEW n \in Paths, NEW e,
         e.op \in {"return", "add", "shift", "subscript", "call"}
  PROVE  Effect(n, e) \in Machines
<1> DEFINE own == RegisterOf(register, n)
           left == RegisterOf(register, Append(n, 1))
           wiped == [machine EXCEPT !.regs = [r \in LongMask |-> Junk]]
           both == Load(machine, left, n)
<1>1. wiped \in Machines
  <2> DEFINE f == [r \in LongMask |-> Junk]
  <2>1. f \in [LongMask -> Paths]
    BY DEF Junk, Paths
  <2> HIDE DEF f
  <2>2. [machine EXCEPT !.regs = f] \in Machines
    BY <2>1 DEF Machines
  <2> QED
    BY <2>2 DEF f
<1>2. /\ both \in Machines /\ Load(both, own, n) \in Machines
      /\ Load(machine, own, n) \in Machines /\ Load(wiped, RAX, n) \in Machines
  <2>1. both \in Machines /\ Load(machine, own, n) \in Machines
    BY LoadIs
  <2> HIDE DEF both, wiped, own
  <2> QED
    BY <1>1, <2>1, LoadIs
<1>3. Effect(n, e) \in {machine, both, Load(both, own, n), Load(machine, own, n),
                        Load(wiped, RAX, n)}
  BY DEF Effect
<1> HIDE DEF both, wiped, own
<1> QED
  BY <1>2, <1>3

(* The generate phase begins.                                              *)
LEMMA StartStep ==
  ASSUME NEW E, expr \in E, Steady(E, agenda, rs, register), StartGenerate
  PROVE  /\ phase' = "generate" /\ Typed(rs') /\ agenda' \in Seq(Emissions(E, Return))
         /\ register' = register /\ machine' = machine
<1>1. agenda' = <<Gen(Root, expr), Spills(<<>>, Return), Todo("execute", <<>>, Return, {})>>
  BY DEF StartGenerate
<1>2. Root \in Paths /\ <<>> \in Paths
  BY DEF Root, Paths
<1>3. Gen(Root, expr) \in Emissions(E, Return)
  BY <1>2, Emitted
<1>4. Spills(<<>>, Return) \in Emissions(E, Return)
  BY <1>2, Emitted
<1>5. Todo("execute", <<>>, Return, {}) \in Emissions(E, Return)
  BY <1>2, Emitted
<1>6. agenda' \in Seq(Emissions(E, Return))
  BY <1>1, <1>3, <1>4, <1>5
<1>7. Typed(rs)
  BY DEF Steady, Sound
<1> QED
  BY <1>6, <1>7 DEF StartGenerate

(* A queued spill is emitted.                                              *)
LEMMA SpillStep ==
  ASSUME Typed(rs), Tracks(register), machine \in Machines, GenerateSpill
  PROVE  Typed(rs') /\ Tracks(register') /\ machine' \in Machines
<1> DEFINE s == Head(rs.spills)
           old == RegisterOf(register, s.affected)
           oth == RegisterOf(register, s.other)
           stack == machine.pushed
<1>1. rs.spills \in Seq(Spillings) /\ rs.spills # <<>> /\ rs \in States /\ stack \in Seq(Paths)
  BY DEF GenerateSpill, Queued, Typed, States, Machines
<1>2. s \in Spillings /\ Tail(rs.spills) \in Seq(Spillings)
  <2> HIDE DEF Spillings
  <2> QED
    BY <1>1
<1>3. /\ s.affected \in Paths /\ s.other \in Paths /\ s.newRegister \in Registers
      /\ old \in Registers /\ oth \in Registers /\ NO_REG \in Registers
  BY <1>2, NumberOf, Numbers DEF Spillings
<1>4. Content(old) \in Paths /\ Content(oth) \in Paths /\ Junk \in Paths
  BY ContentIs DEF Junk, Paths
<1> HIDE DEF s, old, oth
<1>5. Typed(rs')
  <2> DEFINE x == Tail(rs.spills)
  <2>1. rs' = [rs EXCEPT !.spills = x]
    BY DEF GenerateSpill
  <2> HIDE DEF x, Spillings, Temporaries
  <2>2. x \in Seq(Spillings)
    BY <1>2 DEF x
  <2> QED
    BY <1>1, <2>1, <2>2 DEF Typed, States
<1>6. \/ /\ machine' = [machine EXCEPT !.pushed = Append(@, Content(old))]
         /\ register' = SetRegister(register, s.affected, NO_REG)
      \/ /\ machine' = IF stack = <<>> THEN Load(machine, s.newRegister, Junk)
                       ELSE [Load(machine, s.newRegister, Last(stack)) EXCEPT !.pushed = Front(@)]
         /\ register' = SetRegister(register, s.affected, s.newRegister)
      \/ /\ machine' = Load(machine, s.newRegister, Content(old))
         /\ register' = SetRegister(register, s.affected, s.newRegister)
      \/ /\ machine' = Load(Load(machine, old, Content(oth)), oth, Content(old))
         /\ register' = SetRegister(SetRegister(register, s.affected, oth), s.other, old)
  BY DEF GenerateSpill, s, old, oth
<1>7. CASE /\ machine' = [machine EXCEPT !.pushed = Append(@, Content(old))]
           /\ register' = SetRegister(register, s.affected, NO_REG)
  <2> DEFINE x == Append(stack, Content(old))
  <2>1. x \in Seq(Paths)
    BY <1>1, <1>4
  <2>2. machine' = [machine EXCEPT !.pushed = x]
    BY <1>7
  <2> HIDE DEF x
  <2>3. machine' \in Machines
    BY <2>1, <2>2 DEF Machines
  <2>4. Tracks(register')
    BY <1>3, <1>7, Tracked
  <2> QED
    BY <1>5, <2>3, <2>4
<1>8. CASE /\ machine' = IF stack = <<>> THEN Load(machine, s.newRegister, Junk)
                         ELSE [Load(machine, s.newRegister, Last(stack)) EXCEPT !.pushed = Front(@)]
           /\ register' = SetRegister(register, s.affected, s.newRegister)
  <2>1. Tracks(register')
    BY <1>3, <1>8, Tracked
  <2>2. CASE stack = <<>>
    BY <1>4, <1>5, <1>8, <2>1, <2>2, LoadIs
  <2>3. CASE stack # <<>>
    <3> DEFINE v == Last(stack)
               x == Front(stack)
               m == Load(machine, s.newRegister, v)
    <3>1. v \in Paths
      BY <1>1, <2>3 DEF Last
    <3>2. x \in Seq(Paths)
      BY <1>1, <2>3 DEF Front
    <3> HIDE DEF v, x
    <3>3. m \in Machines /\ m.pushed = stack
      BY <3>1, LoadIs
    <3> HIDE DEF m
    <3>4. machine' = [m EXCEPT !.pushed = x]
      BY <1>8, <2>3, <3>3 DEF m, v, x
    <3>5. machine' \in Machines
      BY <3>2, <3>3, <3>4 DEF Machines
    <3> QED
      BY <1>5, <2>1, <3>5
  <2> QED
    BY <2>2, <2>3
<1>9. CASE /\ machine' = Load(machine, s.newRegister, Content(old))
           /\ register' = SetRegister(register, s.affected, s.newRegister)
  <2>1. Tracks(register')
    BY <1>3, <1>9, Tracked
  <2> QED
    BY <1>4, <1>5, <1>9, <2>1, LoadIs
<1>10. CASE /\ machine' = Load(Load(machine, old, Content(oth)), oth, Content(old))
            /\ register' = SetRegister(SetRegister(register, s.affected, oth), s.other, old)
  <2> DEFINE m == Load(machine, old, Content(oth))
             reg == SetRegister(register, s.affected, oth)
  <2>1. m \in Machines /\ Tracks(reg)
    BY <1>3, <1>4, LoadIs, Tracked
  <2> HIDE DEF m, reg
  <2>2. Load(m, oth, Content(old)) \in Machines
    BY <1>4, <2>1, LoadIs
  <2>3. Tracks(SetRegister(reg, s.other, old))
    BY <1>3, <2>1, Tracked
  <2> QED
    BY <1>5, <1>10, <2>2, <2>3 DEF m, reg
<1> QED
  BY <1>6, <1>7, <1>8, <1>9, <1>10

(* The agenda of the generate phase after a step.                          *)
LEMMA NextEmission ==
  ASSUME NEW E, agenda \in Seq(Emissions(E, Return)), NEW X \in Seq(Emissions(E, Return)),
         agenda # <<>>, Do(X)
  PROVE  agenda' \in Seq(Emissions(E, Return)) /\ Head(agenda) \in Emissions(E, Return)
<1> DEFINE S == Emissions(E, Return)
<1>1. X \in Seq(S) /\ agenda \in Seq(S) /\ agenda' = X \o Tail(agenda)
  BY DEF Do
<1> HIDE DEF S
<1>2. agenda' \in Seq(S) /\ Head(agenda) \in S
  BY <1>1, TailTyped
<1> QED
  BY <1>2 DEF S

(* The tasks of the operands, in either order.                             *)
LEMMA KidsEmitted ==
  ASSUME NEW E, Expressions(E), NEW R, NEW t, t.at \in Paths, t.e \in E, t.e.op # "leaf",
         NEW order \in Seq(DOMAIN t.e.kids)
  PROVE  [i \in DOMAIN order |-> Gen(Kid(t, order[i]), t.e.kids[order[i]])]
           \in Seq(Emissions(E, R))
<1> DEFINE X == [i \in DOMAIN order |-> Gen(Kid(t, order[i]), t.e.kids[order[i]])]
           S == Emissions(E, R)
<1>1. ASSUME NEW k \in DOMAIN t.e.kids
      PROVE  k \in 0 .. 4 /\ t.e.kids[k] \in E
  BY DEF Expressions, fastArgs
<1>2. ASSUME NEW i \in DOMAIN order
      PROVE  Gen(Kid(t, order[i]), t.e.kids[order[i]]) \in S
  <2>1. order[i] \in DOMAIN t.e.kids
    OBVIOUS
  <2> DEFINE k == order[i]
  <2>2. k \in 0 .. 4 /\ t.e.kids[k] \in E
    BY <1>1, <2>1
  <2> HIDE DEF k
  <2>3. Kid(t, k) \in Paths
    BY <2>2, KidPath DEF Kid
  <2>4. Gen(Kid(t, k), t.e.kids[k]) \in S
    BY <2>2, <2>3, Emitted
  <2> QED
    BY <2>4 DEF k
<1> HIDE DEF S
<1>3. X \in [1 .. Len(order) -> S] /\ Len(order) \in Nat
  BY <1>2
<1> HIDE DEF X
<1>4. X \in Seq(S)
  BY <1>3
<1> QED
  BY <1>4 DEF X, S

(* GenerateOperands.                                                       *)
LEMMA OperandsEmitted ==
  ASSUME NEW E, Expressions(E), agenda \in Seq(Emissions(E, Return)), GenerateOperands
  PROVE  agenda' \in Seq(Emissions(E, Return))
<1> DEFINE S == Emissions(E, Return)
           t == Head(agenda)
           Kids(order) == [i \in DOMAIN order |-> Gen(Kid(t, order[i]), t.e.kids[order[i]])]
           operands ==
             CASE t.e.op = "call" -> Kids([i \in DOMAIN t.e.kids |-> i])
               [] t.e.op # "call" /\ LeftFirst(t.e) -> Kids(<<1, 2>>)
               [] OTHER -> Kids(<<2, 1>>)
           own == <<Spills(t.at, t.e), Todo("execute", t.at, t.e, {})>>
           first == EmittedFirst(t.at, t.e)
<1>1. agenda # <<>> /\ t.do = "generate" /\ t.e.op # "leaf" /\ Do(first \o operands \o own)
  BY DEF GenerateOperands, Generating
<1>2. t \in S
  <2> HIDE DEF S
  <2>1. agenda \in Seq(S)
    BY DEF S
  <2> QED
    BY <1>1, <2>1
<1>3. t.at \in Paths /\ t.e \in E
  BY <1>1, <1>2, EmissionIs
<1>4. own \in Seq(S)
  <2>1. Spills(t.at, t.e) \in S /\ Todo("execute", t.at, t.e, {}) \in S
    BY <1>1, <1>3, Emitted
  <2> HIDE DEF S, t
  <2> QED
    BY <2>1
<1>5. first \in Seq(S)
  <2>1. VacateNode(t.at) \in Paths
    BY <1>3, KidPath DEF VacateNode
  <2>2. Spills(VacateNode(t.at), t.e) \in S
    BY <1>3, <2>1, Emitted
  <2> HIDE DEF S, t
  <2> QED
    BY <2>2 DEF EmittedFirst
<1>6. operands \in Seq(S)
  <2>1. CASE t.e.op = "call"
    <3> DEFINE order == [i \in DOMAIN t.e.kids |-> i]
    <3>1. order \in Seq(DOMAIN t.e.kids)
      <4>1. t.e.kids \in Seq(E)
        BY <1>3, <2>1 DEF Expressions
      <4> DEFINE n == Len(t.e.kids)
      <4>2. n \in Nat /\ DOMAIN t.e.kids = 1 .. n
        BY <4>1
      <4> HIDE DEF n, t
      <4>3. [i \in 1 .. n |-> i] \in [1 .. n -> 1 .. n]
        OBVIOUS
      <4>4. [i \in 1 .. n |-> i] \in Seq(1 .. n)
        BY <4>2, <4>3
      <4> QED
        BY <4>2, <4>4
    <3>2. operands = Kids(order)
      BY <2>1
    <3> HIDE DEF order
    <3>3. Kids(order) \in Seq(S)
      BY <1>1, <1>3, <3>1, KidsEmitted
    <3> QED
      BY <3>2, <3>3
  <2>2. CASE t.e.op # "call"
    <3>1. DOMAIN t.e.kids = 1 .. 2
      BY <1>1, <1>3, <2>2 DEF Expressions
    <3>2. <<1, 2>> \in Seq(DOMAIN t.e.kids) /\ <<2, 1>> \in Seq(DOMAIN t.e.kids)
      <4>1. <<1, 2>> \in Seq(1 .. 2) /\ <<2, 1>> \in Seq(1 .. 2)
        OBVIOUS
      <4> DEFINE D == DOMAIN t.e.kids
                 one == <<1, 2>>
                 two == <<2, 1>>
      <4>2. D = 1 .. 2 /\ one \in Seq(1 .. 2) /\ two \in Seq(1 .. 2)
        BY <3>1, <4>1
      <4> HIDE DEF D, one, two
      <4>3. one \in Seq(D) /\ two \in Seq(D)
        BY <4>2
      <4> QED
        BY <4>3 DEF D, one, two
    <3>3. Kids(<<1, 2>>) \in Seq(S)
      BY <1>1, <1>3, <3>2, KidsEmitted
    <3>4. Kids(<<2, 1>>) \in Seq(S)
      BY <1>1, <1>3, <3>2, KidsEmitted
    <3>5. operands = Kids(<<1, 2>>) \/ operands = Kids(<<2, 1>>)
      <4> DEFINE a == Kids(<<1, 2>>)
                 b == Kids(<<2, 1>>)
                 c == Kids([i \in DOMAIN t.e.kids |-> i])
      <4> HIDE DEF a, b, c
      <4>1. operands = CASE t.e.op = "call" -> c
                         [] t.e.op # "call" /\ LeftFirst(t.e) -> a
                         [] OTHER -> b
        BY DEF a, b, c
      <4> HIDE DEF operands
      <4>2. operands = a \/ operands = b
        BY <2>2, <4>1
      <4> QED
        BY <4>2 DEF a, b
    <3> HIDE DEF operands, Kids
    <3> QED
      BY <3>3, <3>4, <3>5
  <2> QED
    BY <2>1, <2>2
<1>7. first \o operands \o own \in Seq(S)
  <2> HIDE DEF S, first, operands, own
  <2> QED
    BY <1>4, <1>5, <1>6
<1> DEFINE X == first \o operands \o own
<1> HIDE DEF first, operands, own
<1>8. Do(X) /\ X \in Seq(S)
  BY <1>1, <1>7
<1> HIDE DEF X
<1> QED
  BY <1>1, <1>8, NextEmission

(* Every step of the generate phase but its first.                         *)
LEMMA GenerateStep ==
  ASSUME NEW E, Expressions(E), Typed(rs), Tracks(register), machine \in Machines,
         phase = "generate", agenda \in Seq(Emissions(E, Return)), Generate
  PROVE  /\ phase' \in {"generate", "done"} /\ Typed(rs') /\ Tracks(register')
         /\ machine' \in Machines /\ agenda' \in Seq(Emissions(E, Return))
<1> DEFINE t == Head(agenda)
           S == Emissions(E, Return)
<1>1. ASSUME agenda # <<>>
      PROVE  /\ t \in S /\ t.at \in Paths
             /\ Do(<<>>) => agenda' \in Seq(S)
             /\ t.do = "execute" =>
                  t.e.op \in {"return", "add", "shift", "subscript", "call"}
  <2>1. t \in S /\ (Do(<<>>) => agenda' \in Seq(S))
    <3> HIDE DEF S
    <3>1. agenda \in Seq(S) /\ <<>> \in Seq(S)
      BY DEF S
    <3>2. t \in S
      BY <1>1, <3>1
    <3>3. Do(<<>>) => agenda' \in Seq(S)
      BY <1>1, <3>1, RestTyped DEF Do
    <3> QED
      BY <3>2, <3>3
  <2>2. /\ t.at \in Paths
        /\ t.do = "execute" => (t.e \in E /\ t.e.op # "leaf") \/ t.e = Return
    BY <2>1, EmissionIs
  <2>3. Return.op = "return"
    BY DEF Return
  <2>4. ASSUME NEW e \in E, e.op # "leaf"
        PROVE  e.op \in {"add", "shift", "subscript", "call"}
    BY <2>4 DEF Expressions
  <2> HIDE DEF t, S
  <2> QED
    BY <2>1, <2>2, <2>3, <2>4
<1>2. CASE GenerateLeaf
  <2>1. /\ agenda # <<>> /\ Do(<<>>) /\ phase' = phase /\ rs' = rs /\ register' = register
        /\ machine' = Load(machine, RegisterOf(register, t.at), t.at)
    BY <1>2 DEF GenerateLeaf, Generating
  <2>2. machine' \in Machines
    BY <1>1, <2>1, LoadIs
  <2> QED
    BY <1>1, <2>1, <2>2
<1>3. CASE GenerateOperands
  <2>1. agenda' \in Seq(S)
    BY <1>3, OperandsEmitted
  <2> QED
    BY <1>3, <2>1 DEF GenerateOperands
<1>4. CASE GenerateSpill
  <2>1. Typed(rs') /\ Tracks(register') /\ machine' \in Machines
    BY <1>4, SpillStep
  <2>2. phase' = phase /\ agenda' = agenda
    BY <1>4 DEF GenerateSpill
  <2> QED
    BY <2>1, <2>2
<1>5. CASE GenerateSpillsEnds
  <2>1. /\ agenda # <<>> /\ Do(<<>>) /\ phase' = phase /\ rs' = rs /\ register' = register
        /\ machine' = machine
    BY <1>5 DEF GenerateSpillsEnds, Generating
  <2> QED
    BY <1>1, <2>1
<1>6. CASE Execute
  <2>1. /\ agenda # <<>> /\ Do(<<>>) /\ phase' \in {"done", phase}
        /\ rs' = rs /\ register' = register
        /\ t.do = "execute" /\ machine' = Effect(t.at, t.e)
    BY <1>6 DEF Execute, Generating
  <2>2. machine' \in Machines
    BY <1>1, <2>1, EffectIs
  <2> QED
    BY <1>1, <2>1, <2>2
<1>7. ~ StartGenerate
  BY DEF StartGenerate
<1> QED
  BY <1>2, <1>3, <1>4, <1>5, <1>6, <1>7 DEF Generate

-----------------------------------------------------------------------------
(* The invariant.                                                          *)

Working(E) ==
  IF phase = "assign" THEN Fine(E, agenda, rs, register)
  ELSE Typed(rs) /\ agenda \in Seq(Emissions(E, Return))

IInv(E) ==
  /\ expr \in Exprs /\ phase \in {"assign", "generate", "done"}
  /\ Tracks(register) /\ machine \in Machines /\ Working(E)

(* What is known in the assign phase, an assert failed or not.             *)
LEMMA FineIs ==
  ASSUME NEW E, NEW ag, NEW st, NEW reg, Fine(E, ag, st, reg)
  PROVE  Typed(st) /\ ag \in Seq(Tasks(E)) /\ (~ st.failed => Exact(st))
BY DEF Fine, Steady, Sound, Plan

(* The invariant holds at first,                                           *)
LEMMA InitIsSound ==
  ASSUME NEW E, Exprs \subseteq E, Init
  PROVE  IInv(E)
<1>1. expr \in Exprs /\ phase = "assign" /\ rs = NewRegisterState
  BY DEF Init
<1>2. DOMAIN register = {} /\ Tracks(register)
  BY DEF Init, Tracks
<1>3. machine \in Machines
  <2> DEFINE f == [r \in LongMask |-> Junk]
  <2>1. f \in [LongMask -> Paths]
    BY DEF Junk, Paths
  <2> HIDE DEF f
  <2>2. [regs |-> f, pushed |-> <<>>] \in Machines
    BY <2>1 DEF Machines
  <2> QED
    BY <2>2 DEF Init, f
<1>4. Steady(E, agenda, rs, register)
  <2>1. agenda = <<Todo("assign", Root, expr, {RAX}), Cleanup(<<>>, 0)>>
    BY DEF Init
  <2> QED
    BY <1>1, <1>2, <2>1, Begins
<1>5. ~ rs.failed
  BY <1>1 DEF NewRegisterState
<1>6. Working(E)
  BY <1>1, <1>4, <1>5 DEF Working, Fine
<1> QED
  BY <1>1, <1>2, <1>3, <1>6 DEF IInv

(* every step keeps it,                                                    *)
LEMMA NextIsSound ==
  ASSUME NEW E, Expressions(E), Exprs \subseteq E, IInv(E), [Next]_vars
  PROVE  IInv(E)'
<1>1. CASE Assign
  <2>1. /\ phase = "assign" /\ ~ rs.failed /\ phase' = phase /\ expr' = expr
        /\ machine' = machine
    BY <1>1 DEF Assign, AssignLeaf, AssignOperands, AssignVacate, AssignReserve, AssignResult,
       CleanupScan, CleanupMove, CleanupPassEnds, CleanupSwap, CleanupPop, CleanupRelease,
       Cleaning, Assigning
  <2>2. Steady(E, agenda, rs, register) /\ Tracks(register)
    BY <2>1 DEF IInv, Working, Fine
  <2>3. Fine(E, agenda', rs', register') /\ Tracks(register')
    BY <1>1, <2>2, AssignStep
  <2>4. Working(E)'
    BY <2>1, <2>3 DEF Working
  <2> QED
    BY <2>1, <2>3, <2>4 DEF IInv
<1>2. CASE StartGenerate
  <2>1. phase = "assign" /\ ~ rs.failed /\ expr' = expr
    BY <1>2 DEF StartGenerate
  <2>2. Steady(E, agenda, rs, register) /\ expr \in E
    BY <2>1 DEF IInv, Working, Fine
  <2>3. /\ phase' = "generate" /\ Typed(rs') /\ agenda' \in Seq(Emissions(E, Return))
        /\ register' = register /\ machine' = machine
    BY <1>2, <2>2, StartStep
  <2>4. Return' = Return
    BY <2>1 DEF Return
  <2>5. Working(E)'
    BY <2>3, <2>4 DEF Working
  <2> QED
    BY <2>1, <2>3, <2>5 DEF IInv
<1>3. CASE Generate /\ ~ StartGenerate
  <2>1. phase = "generate" /\ expr' = expr
    BY <1>3 DEF Generate, GenerateLeaf, GenerateOperands, GenerateSpill, GenerateSpillsEnds,
       Execute, Generating
  <2>2. /\ phase' \in {"generate", "done"} /\ Typed(rs') /\ Tracks(register')
        /\ machine' \in Machines /\ agenda' \in Seq(Emissions(E, Return))
    BY <1>3, <2>1, GenerateStep DEF IInv, Working
  <2>3. Return' = Return
    BY <2>1 DEF Return
  <2>4. Working(E)'
    BY <2>2, <2>3 DEF Working
  <2> QED
    BY <2>1, <2>2, <2>4 DEF IInv
<1>4. CASE UNCHANGED vars
  <2>1. /\ expr' = expr /\ phase' = phase /\ agenda' = agenda /\ rs' = rs
        /\ register' = register /\ machine' = machine
    BY <1>4 DEF vars
  <2>2. Return' = Return
    BY <2>1 DEF Return
  <2>3. Working(E)'
    BY <2>1, <2>2 DEF IInv, Working
  <2> QED
    BY <2>1, <2>3 DEF IInv
<1> QED
  BY <1>1, <1>2, <1>3, <1>4 DEF Next

(* and it implies what the run checks.                                     *)
LEMMA Accounted ==
  ASSUME NEW E, IInv(E)
  PROVE  RegistersAccounted
<1>1. Typed(rs) /\ (phase = "assign" /\ ~ rs.failed => Exact(rs))
  <2>1. CASE phase = "assign"
    BY <2>1, FineIs DEF IInv, Working
  <2>2. CASE phase # "assign"
    BY <2>2 DEF IInv, Working
  <2> QED
    BY <2>1, <2>2
<1>2. ASSUME NEW t \in ToSet(agenda)
      PROVE  /\ t.do \in {"assign", "vacate", "reserve", "cleanup", "result",
                          "generate", "spills", "execute"}
             /\ t.at \in Paths
  <2>1. CASE phase = "assign"
    <3>1. agenda \in Seq(Tasks(E))
      BY <2>1, FineIs DEF IInv, Working
    <3>2. t \in Tasks(E)
      <4> HIDE DEF Tasks
      <4> QED
        BY <3>1 DEF ToSet
    <3> QED
      BY <3>2, TaskIs
  <2>2. CASE phase # "assign"
    <3> DEFINE S == Emissions(E, Return)
    <3>1. agenda \in Seq(S)
      BY <2>2 DEF IInv, Working
    <3> HIDE DEF S
    <3>2. t \in S
      BY <3>1 DEF ToSet
    <3> QED
      BY <3>2, EmissionIs DEF S
  <2> QED
    BY <2>1, <2>2
<1>3. ASSUME NEW tm \in ToSet(rs.temps)
      PROVE  /\ tm.node \in Paths /\ tm.current \in Registers
             /\ tm.desired \subseteq LongMask /\ tm.desired # {}
  <2>1. rs.temps \in Seq(Temporaries)
    BY <1>1 DEF Typed, States
  <2>2. tm \in Temporaries
    <3> HIDE DEF Temporaries
    <3> QED
      BY <2>1 DEF ToSet
  <2> QED
    BY <2>2 DEF Temporaries
<1>4. ASSUME NEW s \in ToSet(rs.spills)
      PROVE  /\ s.kind \in {"PUSH", "POP", "MOVE", "XCHG"}
             /\ {s.where, s.affected, s.other} \subseteq Paths
             /\ s.newRegister \in Registers
  <2>1. rs.spills \in Seq(Spillings)
    BY <1>1 DEF Typed, States
  <2>2. s \in Spillings
    <3> HIDE DEF Spillings
    <3> QED
      BY <2>1 DEF ToSet
  <2> QED
    BY <2>2 DEF Spillings
<1>5. /\ rs.oldest \in 0 .. Len(rs.temps) /\ rs.free \subseteq LongMask
      /\ rs.used \subseteq LongMask /\ rs.tempRegisters \subseteq LongMask
      /\ rs.failed \in BOOLEAN
  <2>1. rs.oldest \in Nat /\ rs.oldest <= Len(rs.temps) /\ Len(rs.temps) \in Nat
    BY <1>1 DEF Typed, States
  <2>2. rs \in States
    BY <1>1 DEF Typed
  <2> QED
    BY <2>1, <2>2 DEF States
<1>6. /\ expr \in Exprs /\ phase \in {"assign", "generate", "done"}
      /\ DOMAIN register \subseteq Paths
      /\ \A n \in DOMAIN register : register[n] \in Registers
      /\ machine.regs \in [LongMask -> Paths] /\ machine.pushed \in Seq(Paths)
  BY DEF IInv, Tracks, Machines
<1>7. TypeOK
  BY <1>2, <1>3, <1>4, <1>5, <1>6 DEF TypeOK
<1>8. ASSUME Exact(rs)
      PROVE  LET live == {i \in 1 .. Top : rs.temps[i].current # NO_REG}
             IN  /\ rs.used = RegistersOf(rs, 1, Top)
                 /\ rs.free = LongMask \ rs.used
                 /\ \A i, j \in live : rs.temps[i].current = rs.temps[j].current => i = j
  BY <1>8 DEF Exact, Top
<1> QED
  BY <1>1, <1>7, <1>8 DEF RegistersAccounted

(* While registers are assigned the free registers are exactly those no    *)
(* live temporary is in and no two live temporaries share one, and         *)
(* everything has its type at all times (_freeRegisters, _usedRegisters    *)
(* and Temporary.currentReg of RegisterState), for every set of registers  *)
(* and every set of expressions built of leaves, additions, shifts,        *)
(* subscripts and calls.                                                   *)
THEOREM RegistersSafety ==
  ASSUME NEW E, Expressions(E), Exprs \subseteq E
  PROVE  Spec => []RegistersAccounted
<1>1. Init => IInv(E)
  BY InitIsSound
<1>2. IInv(E) /\ [Next]_vars => IInv(E)'
  BY NextIsSound
<1>3. IInv(E) => RegistersAccounted
  BY Accounted
<1> QED
  BY <1>1, <1>2, <1>3, PTL DEF Spec

=============================================================================
