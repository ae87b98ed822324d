--------------------------- MODULE RegisterState ---------------------------
(***************************************************************************)
(* Register temporaries of the x86-64 code generator: the allocator        *)
(* RegisterState of x86_allocTemp.p, driven as x86_assignTemps.p drives it *)
(* over one expression, and then the emission of the code and of the       *)
(* queued spills (x86_64.p), executed on an abstract machine that has the  *)
(* allocatable registers and a push-down stack.                            *)
(*                                                                         *)
(* The statement is `return e'.  Phase "assign" walks e allocating a       *)
(* temporary for every operand and queueing spill instructions; phase      *)
(* "generate" walks e again, emits the instruction of every node and, at   *)
(* the nodes they were queued for, the spills.  A value is named by the    *)
(* node that computes it, and a node by its path from the statement.       *)
(*                                                                         *)
(* Integer expressions only: leaves, addition-like operators, shifts by a  *)
(* variable, 8-bit and wide division and remainder, subscripts, and calls  *)
(* with register arguments.                                                *)
(***************************************************************************)
EXTENDS Integers, SequencesExt

CONSTANTS
    Exprs,      \* the expressions considered, built with Leaf, Binary and Call
    LongMask    \* longMask: the registers expressions may use

(* The numbers of enum R that the allocator treats specially.             *)
NO_REG == 0
RAX == 1
RCX == 3
RDX == 4
R8 == 9
R9 == 10

fastArgs == <<RCX, RDX, R8, R9>>

ASSUME LongMaskAssumption ==
    /\ LongMask \subseteq 1 .. 15
    /\ {RAX, RDX} \cup ToSet(fastArgs) \subseteq LongMask

-----------------------------------------------------------------------------
(* Expressions, carrying the Sethi-Ullman number sethiUllman() gives them: *)
(* the number of registers wanted, negative when the left operand goes     *)
(* first.                                                                  *)

CALL_REG_USE == 7

regneeds(op) ==
    CASE op = "leaf" -> 0
      [] op \in {"add", "subscript"} -> 1
      [] op \in {"shift", "bytediv", "div", "rem"} -> 2
      [] op = "call" -> CALL_REG_USE

abs(n) == IF n < 0 THEN -n ELSE n

Leaf == [op |-> "leaf", kids |-> <<>>, sethi |-> 0]

Binary(op, l, r) ==
    LET sul  == abs(l.sethi)
        sur  == abs(r.sethi)
        both == Min({sur + regneeds(l.op), sul + regneeds(r.op)})
        need == Max({sur, sul, regneeds(op), both})
    IN  [op |-> op, kids |-> <<l, r>>, sethi |-> IF sul >= sur THEN -need ELSE need]

Call(args) ==
    [op |-> "call", kids |-> args,
     sethi |-> Max({CALL_REG_USE} \cup {abs(args[i].sethi) : i \in DOMAIN args})]

(* tryMakeMode on the right operand: an addressable one stays in memory.   *)
AddressMode(e, i) ==
    /\ e.op \in {"add", "bytediv", "div", "rem"} /\ i = 2
    /\ e.kids[i].op \in {"leaf", "subscript"}

(* b.sethi < 0, or the division's own rule, which resets b.sethi to -1.    *)
LeftFirst(e) == e.sethi < (IF e.op \in {"div", "rem"} THEN 3 ELSE 0)

-----------------------------------------------------------------------------
VARIABLES
    expr,       \* the expression of the statement
    phase,      \* "assign", then "generate", then "done"
    agenda,     \* what is left to do, in order
    rs,         \* the RegisterState object
    register,   \* Node.register, of the nodes that have one
    machine     \* the registers' contents and the machine stack

vars == <<expr, phase, agenda, rs, register, machine>>

Root == <<1>>       \* the path of expr; <<>> is the return statement

Todo(do, at, e, mask) == [do |-> do, at |-> at, e |-> e, mask |-> mask]

Kid(t, i) == Append(t.at, i)
VacateNode(at) == Append(at, 0)     \* the VACATE_ARGUMENT_REGISTERS leaf of a call

RegisterOf(reg, n) == IF n \in DOMAIN reg THEN reg[n] ELSE NO_REG
SetRegister(reg, n, r) ==
    [m \in DOMAIN reg \cup {n} |-> IF m = n THEN r ELSE reg[m]]

-----------------------------------------------------------------------------
(* The RegisterState object.  temps is the stack of temporaries, the       *)
(* oldest first; the first `oldest' of them have been spilled             *)
(* (_oldestUnspilled); spills is the queue of spill instructions still to  *)
(* be emitted; failed says that an assert of the allocator has failed.     *)

NewRegisterState ==
    [temps |-> <<>>, oldest |-> 0, free |-> LongMask, used |-> {},
     tempRegisters |-> {}, spills |-> <<>>, failed |-> FALSE]

Spill(kind, where, r, affected, other) ==
    [kind |-> kind, where |-> where, newRegister |-> r,
     affected |-> affected, other |-> other]

AddSpill(st, s) == [st EXCEPT !.spills = Append(@, s)]

consumeRegs(st, mask) == [st EXCEPT !.free = @ \ mask, !.used = @ \cup mask]
freeRegs(st, mask)    == [st EXCEPT !.free = @ \cup mask, !.used = @ \ mask]

lowestReg(mask) == Min(mask)

(* The registers of the temporaries that are in one, from lo to hi.        *)
RegistersOf(st, lo, hi) == {st.temps[i].current : i \in lo .. hi} \ {NO_REG}

(* The temporaries when those from lo to hi have been pushed.              *)
OutOfRegisters(temps, lo, hi) ==
    [i \in DOMAIN temps |-> IF i \in lo .. hi THEN [temps[i] EXCEPT !.current = NO_REG]
                                              ELSE temps[i]]

(* Defect: the newest of the spilled temporaries is pushed first.          *)
SpillNewestFirst(st, where, k) ==
    LET pushes == [j \in 1 .. k - st.oldest |->
                     Spill("PUSH", where, NO_REG, st.temps[k + 1 - j].node, <<>>)]
        freed  == RegistersOf(st, st.oldest + 1, k)
    IN  [freeRegs(st, freed) EXCEPT
           !.temps  = OutOfRegisters(@, st.oldest + 1, k),
           !.oldest = k,
           !.spills = @ \o pushes]

(* spillOldest(), repeated until the first k temporaries are spilled.      *)
SpillTo(st, where, k) ==
    LET pushes == [j \in 1 .. k - st.oldest |->
                     Spill("PUSH", where, NO_REG, st.temps[st.oldest + j].node, <<>>)]
        freed  == RegistersOf(st, st.oldest + 1, k)
    IN  [freeRegs(st, freed) EXCEPT
           !.temps  = OutOfRegisters(@, st.oldest + 1, k),
           !.oldest = k,
           !.spills = @ \o pushes]

(* The numbers of temporaries whose spilling makes Enough of the free set. *)
SpillsThat(st, Enough(_)) ==
    {k \in st.oldest .. Len(st.temps) :
        Enough(st.free \cup RegistersOf(st, st.oldest + 1, k))}

(* Spill the oldest temporaries, as few as possible; an assert fails when  *)
(* even spilling all of them is not enough.                                *)
SpillUntil(st, where, Enough(_)) ==
    LET ks == SpillsThat(st, Enough)
    IN  IF ks = {} THEN [SpillTo(st, where, Len(st.temps)) EXCEPT !.failed = TRUE]
        ELSE SpillTo(st, where, Min(ks))

clobberSomeRegisters(st, where, mask) ==
    LET Enough(free) == mask \subseteq free IN SpillUntil(st, where, Enough)

Prefer(mask, free) == IF mask \cap free # {} THEN mask \cap free ELSE free

(* getreg(): spill until a required register is free; take a desired one   *)
(* if that does not cost another spill.                                    *)
getreg(st, where, required, desired) ==
    LET Enough(free) == required \cap free # {}
        after == SpillUntil(st, where, Enough)
    IN  [st |-> after,
         r  |-> IF after.failed THEN NO_REG
                ELSE lowestReg(Prefer(desired, required \cap after.free))]

makeTemp(st, n, actual, desired) ==
    [consumeRegs(st, {actual}) EXCEPT
       !.temps = Append(@, [node |-> n, current |-> actual, desired |-> desired])]

(* latestResult(): where the code queued so far will have left node n; not *)
(* in a register, which the code asserts never happens, when n is pushed.  *)
latestResult(st, reg, n) ==
    LET After(s, found, m) ==
            CASE s.kind = "XCHG" /\ s.affected = m -> found[s.other]
              [] s.kind = "XCHG" /\ s.other = m    -> found[s.affected]
              [] s.kind # "XCHG" /\ s.affected = m -> s.newRegister
              [] OTHER                             -> found[m]
        Before[i \in 0 .. Len(st.spills)] ==
            [m \in {n} \cup DOMAIN reg |->
               IF i = 0 THEN RegisterOf(reg, m) ELSE After(st.spills[i], Before[i - 1], m)]
    IN  Before[Len(st.spills)][n]

SetCurrent(st, i, r) == [st EXCEPT !.temps[i].current = r]

(* The two halves of cleanupTemp(): bring temporary i back from the stack, *)
(* then move it to where it is desired if it is not there.                 *)
PopTemp(st, where, i) ==
    LET tm   == st.temps[i]
        mask == tm.desired \cap st.free
    IN  CASE tm.current # NO_REG -> st
          [] tm.current = NO_REG /\ mask = {} -> [st EXCEPT !.failed = TRUE]
          [] tm.current = NO_REG /\ mask # {} ->
               LET r == lowestReg(mask)
               IN  consumeRegs(AddSpill(st, Spill("POP", where, r, tm.node, <<>>)), {r})

(* Defect: the register a temporary is moved from stays reserved.          *)
MoveKeepsRegister(st, reg, where, i) ==
    LET tm == st.temps[i]
        r  == latestResult(st, reg, tm.node)
        g  == getreg(st, where, tm.desired, tm.desired)
        st1 == AddSpill(g.st, Spill("MOVE", where, g.r, tm.node, <<>>))
    IN  IF r = NO_REG \/ r \in tm.desired THEN SetCurrent(st, i, r)
        ELSE SetCurrent(consumeRegs(st1, {g.r}), i, g.r)

MoveTemp(st, reg, where, i) ==
    LET tm == st.temps[i]
        r  == latestResult(st, reg, tm.node)
        g  == getreg(st, where, tm.desired, tm.desired)
        st1 == AddSpill(g.st, Spill("MOVE", where, g.r, tm.node, <<>>))
    IN  IF r = NO_REG THEN [st EXCEPT !.failed = TRUE]
        ELSE IF r \in tm.desired THEN SetCurrent(st, i, r)
        ELSE IF g.st.failed THEN g.st
        ELSE SetCurrent([consumeRegs(freeRegs(st1, {r}), {g.r}) EXCEPT
                           !.tempRegisters = (@ \ {r}) \cup {g.r}], i, g.r)

cleanupTemp(st, reg, where, i) ==
    LET popped == PopTemp(st, where, i)
    IN  IF popped.failed THEN popped ELSE MoveTemp(popped, reg, where, i)

-----------------------------------------------------------------------------
(* The assign phase: assignRegisterTemp() and what it calls.  One action   *)
(* per kind of step; the guard common to all of them is that no assert has *)
(* failed, which would have ended the compiler.                            *)

Assigning(do) ==
    /\ phase = "assign" /\ ~rs.failed /\ agenda # <<>>
    /\ Head(agenda).do = do

Do(tasks) == agenda' = tasks \o Tail(agenda)

(* The operands of a node each with the registers they are wanted in.      *)
ResultMask(e, mask) ==
    CASE e.op \in {"bytediv", "div", "rem"} -> {RAX}
      [] e.op = "shift" -> IF mask = {RCX} THEN LongMask \ {RCX} ELSE mask \ {RCX}
      [] e.op = "subscript" -> LongMask
      [] OTHER -> mask

RhsMask(e, mask) ==
    CASE e.op \in {"div", "rem"} -> LongMask \ {RAX, RDX}
      [] e.op = "bytediv" -> LongMask \ {RAX}
      [] e.op = "shift" -> {RCX}
      [] e.op = "subscript" -> LongMask
      [] OTHER -> IF mask = LongMask THEN LongMask ELSE LongMask \ mask

(* The tasks of operand i: none when it is a leaf in memory; those of its  *)
(* own operands, never cleaned up, when it is an addressed subscript.      *)
OperandTasks(t, i, mask) ==
    LET k  == t.e.kids[i]
        at == Kid(t, i)
        Part(j) == Todo("assign", Append(at, j), k.kids[j], LongMask)
    IN  IF ~AddressMode(t.e, i) THEN <<Todo("assign", at, k, mask)>>
        ELSE IF k.op = "leaf" THEN <<>>
        ELSE IF LeftFirst(k) THEN <<Part(1), Part(2)>> ELSE <<Part(2), Part(1)>>

(* A wide division claims RDX between its operands.                        *)
Between(t) ==
    IF t.e.op \in {"div", "rem"} THEN <<Todo("reserve", t.at, t.e, {RDX})>> ELSE <<>>

BinaryTasks(t) ==
    LET left  == OperandTasks(t, 1, ResultMask(t.e, t.mask))
        right == OperandTasks(t, 2, RhsMask(t.e, t.mask))
    IN  IF LeftFirst(t.e) THEN left \o Between(t) \o right
                          ELSE right \o Between(t) \o left

(* Defect: the registers are not vacated for the arguments of a call.      *)
CallKeepsRegisters(t) ==
    [i \in DOMAIN t.e.kids |-> Todo("assign", Kid(t, i), t.e.kids[i], {fastArgs[i]})]

CallTasks(t) ==
    <<Todo("vacate", VacateNode(t.at), t.e, LongMask)>> \o
    [i \in DOMAIN t.e.kids |-> Todo("assign", Kid(t, i), t.e.kids[i], {fastArgs[i]})]

Cleanup(node, depth) ==
    [do |-> "cleanup", at |-> node, depth |-> depth, stage |-> "scan",
     i |-> 0, fit |-> 0, pushed |-> 0, did |-> FALSE]

(* The mask a node's own temporary is given: a shift narrows regMask and   *)
(* the temporary is then made with what is left.                           *)
OwnMask(t) == IF t.e.op = "shift" THEN ResultMask(t.e, t.mask) ELSE t.mask

AssignLeaf ==
    /\ Assigning("assign") /\ Head(agenda).e.op = "leaf"
    /\ LET t == Head(agenda)
           g == getreg(rs, t.at, LongMask, t.mask)
       IN  /\ rs' = IF g.st.failed THEN g.st ELSE makeTemp(g.st, t.at, g.r, t.mask)
           /\ register' = SetRegister(register, t.at, g.r)
    /\ Do(<<>>)
    /\ UNCHANGED <<expr, phase, machine>>

AssignOperands ==
    /\ Assigning("assign") /\ Head(agenda).e.op # "leaf"
    /\ LET t == Head(agenda)
           operands == IF t.e.op = "call" THEN CallTasks(t) ELSE BinaryTasks(t)
       IN  Do(operands \o <<Cleanup(t.at, Len(rs.temps)),
                            Todo("result", t.at, t.e, OwnMask(t))>>)
    /\ UNCHANGED <<expr, phase, rs, register, machine>>

AssignVacate ==
    /\ Assigning("vacate")
    /\ rs' = clobberSomeRegisters(rs, Head(agenda).at, LongMask)
    /\ Do(<<>>)
    /\ UNCHANGED <<expr, phase, register, machine>>

AssignReserve ==
    /\ Assigning("reserve")
    /\ LET t == Head(agenda)
       IN  /\ rs' = makeTemp(rs, t.at, RDX, {RDX})
           /\ register' = SetRegister(register, t.at, RDX)
    /\ Do(<<>>)
    /\ UNCHANGED <<expr, phase, machine>>

(* ensureRegisterPlacement() and transfer(): the count of a shift that is  *)
(* not in RCX after all is moved there.                                    *)
ensureInRCX(st, where, n) ==
    IF latestResult(st, register, n) = RCX THEN st
    ELSE [AddSpill(st, Spill("MOVE", where, RCX, n, <<>>)) EXCEPT
            !.failed = @ \/ RCX \notin st.free]

(* The register a node leaves its value in, once its operands are released.*)
ResultOf(t) ==
    LET Fixed(r) == [st |-> rs, r |-> r]
        left   == latestResult(rs, register, Kid(t, 1))
        placed == ensureInRCX(rs, t.at, Kid(t, 2))
    IN  CASE t.e.op = "add" -> Fixed(left)
          [] t.e.op = "shift" -> [st |-> placed,
                                  r |-> latestResult(placed, register, Kid(t, 1))]
          [] t.e.op \in {"bytediv", "div"} -> Fixed(RAX)
          [] t.e.op = "rem" -> Fixed(RDX)
          [] t.e.op = "call" -> getreg(rs, t.at, {RAX}, {RAX})
          [] t.e.op = "subscript" -> getreg(rs, t.at, LongMask, t.mask)

AssignResult ==
    /\ Assigning("result")
    /\ LET t == Head(agenda)
           g == ResultOf(t)
       IN  /\ rs' = IF g.r = NO_REG THEN [g.st EXCEPT !.failed = TRUE]
                    ELSE makeTemp(g.st, t.at, g.r, t.mask)
           /\ register' = SetRegister(register, t.at, g.r)
    /\ Do(<<>>)
    /\ UNCHANGED <<expr, phase, machine>>

-----------------------------------------------------------------------------
(* cleanupTemps(): bring the temporaries above `depth' into the registers  *)
(* they are desired in (cleanupOperands), then release them.  The task at  *)
(* the head of the agenda holds its local variables: the stage, the loop   *)
(* index i, doesFit, anyPushed and didAnything.                            *)

Cleaning(stage) == Assigning("cleanup") /\ Head(agenda).stage = stage

Top == Len(rs.temps)

Continue(c) == agenda' = <<c>> \o Tail(agenda)
GoTo(stage, i) == [Head(agenda) EXCEPT !.stage = stage, !.i = i, !.did = FALSE]

Fits(tm) == tm.current \in tm.desired

CleanupScan ==
    /\ Cleaning("scan")
    /\ LET c      == Head(agenda)
           live   == c.depth + 1 .. Top
           fit    == {i \in live : Fits(rs.temps[i])}
           pushed == {i \in live : rs.temps[i].current = NO_REG}
           in     == [rs EXCEPT !.tempRegisters = RegistersOf(rs, c.depth + 1, Top)]
           loop   == [c EXCEPT !.stage = "move", !.i = c.depth + 1,
                               !.fit = Cardinality(fit), !.pushed = Cardinality(pushed)]
       IN  \/ /\ fit = live
              /\ rs' = IF live = {} THEN rs ELSE in
              /\ Continue(GoTo("release", 0))
           \/ /\ fit # live /\ Cardinality(live) = 1
              /\ rs' = cleanupTemp(in, register, c.at, Top)
              /\ Continue(GoTo("release", 0))
           \/ /\ fit # live /\ Cardinality(live) > 1
              /\ rs' = in
              /\ Continue(IF pushed = live THEN GoTo("pop", Top) ELSE loop)
    /\ UNCHANGED <<expr, phase, register, machine>>

(* One temporary of the pass that moves those whose place nobody is in.    *)
CleanupMove ==
    /\ Cleaning("move") /\ Head(agenda).i <= Top
    /\ LET c  == Head(agenda)
           tm == rs.temps[c.i]
           st == cleanupTemp(rs, register, c.at, c.i)
           next == [c EXCEPT !.i = @ + 1]
       IN  IF tm.current # NO_REG /\ ~Fits(tm) /\ tm.desired \cap rs.tempRegisters = {}
           THEN /\ rs' = IF st.failed THEN st
                         ELSE [st EXCEPT !.temps[c.i].desired = {st.temps[c.i].current}]
                /\ Continue([next EXCEPT !.fit = @ + 1, !.did = TRUE])
           ELSE rs' = rs /\ Continue(next)
    /\ UNCHANGED <<expr, phase, register, machine>>

Resolved(c) == c.fit = Top - c.depth - c.pushed

CleanupPassEnds ==
    /\ Cleaning("move") /\ Head(agenda).i > Top
    /\ LET c == Head(agenda)
       IN  CASE Resolved(c)           -> Continue(GoTo("pop", Top))
             [] ~Resolved(c) /\ c.did -> Continue(GoTo("move", c.depth + 1))
             [] OTHER                 -> Continue(GoTo("swap", 0))
    /\ UNCHANGED <<expr, phase, rs, register, machine>>

(* Defect: the second temporary of an exchange is not counted as fitting.  *)
SwapGainsOne(ra, rb, desired) == 1

(* By how much an exchange raises doesFit: ra moves to the temporary that  *)
(* desires `desired'; the code asks whether rb fits that mask, too.        *)
SwapGain(ra, rb, desired) == IF ra \in desired /\ rb \notin desired THEN 2 ELSE 1

(* Exchange the first temporary that does not fit, pushed or not, with the *)
(* first one that wants its register, or with the last one.                *)
CleanupSwap ==
    /\ Cleaning("swap")
    /\ LET c      == Head(agenda)
           live   == c.depth + 1 .. Top
           misfit == {i \in live : ~Fits(rs.temps[i])}
           a      == Min(misfit)
           wants  == {j \in live : rs.temps[a].current \in rs.temps[j].desired}
           b      == IF wants = {} THEN Top ELSE Min(wants)
           ra     == rs.temps[a].current
           rb     == rs.temps[b].current
           st     == SetCurrent(SetCurrent(rs, b, ra), a, rb)
           after  == [c EXCEPT !.fit = @ + SwapGain(ra, rb, rs.temps[b].desired)]
       IN  IF misfit = {}
           THEN /\ rs' = rs
                /\ Continue(GoTo("move", c.depth + 1))
           ELSE /\ rs' = AddSpill(st, Spill("XCHG", c.at, rb,
                                            rs.temps[a].node, rs.temps[b].node))
                /\ Continue([after EXCEPT !.stage = IF Resolved(after) THEN "pop" ELSE "move",
                                          !.i = IF Resolved(after) THEN Top ELSE c.depth + 1])
    /\ UNCHANGED <<expr, phase, register, machine>>

CleanupPop ==
    /\ Cleaning("pop")
    /\ LET c == Head(agenda)
       IN  IF c.i > c.depth
           THEN /\ rs' = cleanupTemp(rs, register, c.at, c.i)
                /\ Continue([c EXCEPT !.i = @ - 1])
           ELSE rs' = rs /\ Continue(GoTo("release", 0))
    /\ UNCHANGED <<expr, phase, register, machine>>

CleanupRelease ==
    /\ Cleaning("release")
    /\ LET depth == Head(agenda).depth
       IN  rs' = [freeRegs(rs, RegistersOf(rs, depth + 1, Top)) EXCEPT
                    !.temps  = SubSeq(@, 1, depth),
                    !.oldest = Min({@, depth})]
    /\ Do(<<>>)
    /\ UNCHANGED <<expr, phase, register, machine>>

-----------------------------------------------------------------------------
(* The generate phase: generate(), which emits every node's instruction,   *)
(* and generateSpills(), executed on the machine.                          *)

Generating(do) == phase = "generate" /\ agenda # <<>> /\ Head(agenda).do = do

Gen(at, e)    == Todo("generate", at, e, {})
Spills(at, e) == Todo("spills", at, e, {})

Junk == <<>>        \* the content of a register no node's value is in
Content(r) == IF r \in LongMask THEN machine.regs[r] ELSE Junk
Load(m, r, v) == IF r \in LongMask THEN [m EXCEPT !.regs[r] = v] ELSE m

Return == [op |-> "return", kids |-> <<expr>>, sethi |-> 0]

StartGenerate ==
    /\ phase = "assign" /\ ~rs.failed /\ agenda = <<>>
    /\ phase' = "generate"
    /\ agenda' = <<Gen(Root, expr), Spills(<<>>, Return), Todo("execute", <<>>, Return, {})>>
    /\ UNCHANGED <<expr, rs, register, machine>>

(* A leaf is loaded without generateSpills being called for it.            *)
GenerateLeaf ==
    /\ Generating("generate") /\ Head(agenda).e.op = "leaf"
    /\ LET n == Head(agenda).at
       IN  machine' = Load(machine, RegisterOf(register, n), n)
    /\ Do(<<>>)
    /\ UNCHANGED <<expr, phase, rs, register>>

(* Defect: VACATE_ARGUMENT_REGISTERS emits nothing.                        *)
VacateEmitsNothing(n, e) == <<>>

(* The spills emitted before the operands of node n.                       *)
EmittedFirst(n, e) == IF e.op = "call" THEN <<Spills(VacateNode(n), e)>> ELSE <<>>

GenerateOperands ==
    /\ Generating("generate") /\ Head(agenda).e.op # "leaf"
    /\ LET t == Head(agenda)
           Kids(order) == [i \in DOMAIN order |-> Gen(Kid(t, order[i]), t.e.kids[order[i]])]
           operands ==
             CASE t.e.op = "call" -> Kids([i \in DOMAIN t.e.kids |-> i])
               [] t.e.op # "call" /\ LeftFirst(t.e) -> Kids(<<1, 2>>)
               [] OTHER -> Kids(<<2, 1>>)
       IN  Do(EmittedFirst(t.at, t.e) \o operands \o
              <<Spills(t.at, t.e), Todo("execute", t.at, t.e, {})>>)
    /\ UNCHANGED <<expr, phase, rs, register, machine>>

Queued(n) == rs.spills # <<>> /\ Head(rs.spills).where = n

(* Emit the spill at the head of the queue if it was queued for this node. *)
GenerateSpill ==
    /\ Generating("spills") /\ Queued(Head(agenda).at)
    /\ LET s   == Head(rs.spills)
           old == RegisterOf(register, s.affected)
           oth == RegisterOf(register, s.other)
           stack == machine.pushed
       IN  /\ \/ /\ s.kind = "PUSH"
                 /\ machine' = [machine EXCEPT !.pushed = Append(@, Content(old))]
                 /\ register' = SetRegister(register, s.affected, NO_REG)
              \/ /\ s.kind = "POP"
                 /\ machine' = IF stack = <<>> THEN Load(machine, s.newRegister, Junk)
                               ELSE [Load(machine, s.newRegister, Last(stack)) EXCEPT
                                       !.pushed = Front(@)]
                 /\ register' = SetRegister(register, s.affected, s.newRegister)
              \/ /\ s.kind = "MOVE"
                 /\ machine' = Load(machine, s.newRegister, Content(old))
                 /\ register' = SetRegister(register, s.affected, s.newRegister)
              \/ /\ s.kind = "XCHG"
                 /\ machine' = Load(Load(machine, old, Content(oth)), oth, Content(old))
                 /\ register' = SetRegister(SetRegister(register, s.affected, oth), s.other, old)
           /\ rs' = [rs EXCEPT !.spills = Tail(@)]
    /\ UNCHANGED <<expr, phase, agenda>>

GenerateSpillsEnds ==
    /\ Generating("spills") /\ ~Queued(Head(agenda).at)
    /\ Do(<<>>)
    /\ UNCHANGED <<expr, phase, rs, register, machine>>

(* What the instruction of node n leaves in the machine.                   *)
Effect(n, e) ==
    LET own  == RegisterOf(register, n)
        left == RegisterOf(register, Append(n, 1))
        wiped == [machine EXCEPT !.regs = [r \in LongMask |-> Junk]]
    IN  CASE e.op = "return" -> machine
          [] e.op = "add" -> Load(machine, left, n)
          [] e.op = "shift" -> Load(Load(machine, left, n), own, n)
          [] e.op = "bytediv" -> Load(Load(machine, RAX, n), own, n)
          [] e.op = "div" -> Load(Load(Load(machine, RDX, Junk), RAX, n), own, n)
          [] e.op = "rem" -> Load(Load(Load(machine, RAX, Junk), RDX, n), own, n)
          [] e.op = "subscript" -> Load(machine, own, n)
          [] e.op = "call" -> Load(wiped, RAX, n)

Execute ==
    /\ Generating("execute")
    /\ machine' = Effect(Head(agenda).at, Head(agenda).e)
    /\ phase' = IF Head(agenda).at = <<>> THEN "done" ELSE phase
    /\ Do(<<>>)
    /\ UNCHANGED <<expr, rs, register>>

-----------------------------------------------------------------------------
Init ==
    /\ expr \in Exprs
    /\ phase = "assign"
    /\ rs = NewRegisterState
    /\ agenda = <<Todo("assign", Root, expr, {RAX}),
                 Cleanup(<<>>, 0)>>
    /\ register = [n \in {} |-> NO_REG]
    /\ machine = [regs |-> [r \in LongMask |-> Junk], pushed |-> <<>>]

Assign ==
    \/ AssignLeaf \/ AssignOperands \/ AssignVacate \/ AssignReserve \/ AssignResult
    \/ CleanupScan \/ CleanupMove \/ CleanupPassEnds \/ CleanupSwap
    \/ CleanupPop \/ CleanupRelease

Generate ==
    \/ StartGenerate \/ GenerateLeaf \/ GenerateOperands
    \/ GenerateSpill \/ GenerateSpillsEnds \/ Execute

Next == Assign \/ Generate

(* The compiler runs this code to its end: one thread, no waiting.         *)
Spec == Init /\ [][Next]_vars /\ WF_vars(Next)

=============================================================================
