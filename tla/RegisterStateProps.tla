------------------------- MODULE RegisterStateProps -------------------------
(***************************************************************************)
(* What the register allocator promises: every instruction finds its       *)
(* operands where it looks for them.                                       *)
(***************************************************************************)
EXTENDS RegisterState

Registers == LongMask \cup {NO_REG}
Paths == Seq(0 .. 4)

(* Types of the allocator's state, of the nodes' registers and of the      *)
(* machine (RegisterState, Temporary, Spill, Node.register).               *)
TypeOK ==
    /\ expr \in Exprs
    /\ phase \in {"assign", "generate", "done"}
    /\ \A t \in ToSet(agenda) :
         /\ t.do \in {"assign", "vacate", "reserve", "cleanup", "result",
                      "generate", "spills", "execute"}
         /\ t.at \in Paths
    /\ \A tm \in ToSet(rs.temps) :
         /\ tm.node \in Paths /\ tm.current \in Registers
         /\ tm.desired \subseteq LongMask /\ tm.desired # {}
    /\ rs.oldest \in 0 .. Len(rs.temps)
    /\ rs.free \subseteq LongMask /\ rs.used \subseteq LongMask
    /\ rs.tempRegisters \subseteq LongMask
    /\ rs.failed \in BOOLEAN
    /\ \A s \in ToSet(rs.spills) :
         /\ s.kind \in {"PUSH", "POP", "MOVE", "XCHG"}
         /\ {s.where, s.affected, s.other} \subseteq Paths
         /\ s.newRegister \in Registers
    /\ DOMAIN register \subseteq Paths
    /\ \A n \in DOMAIN register : register[n] \in Registers
    /\ machine.regs \in [LongMask -> Paths] /\ machine.pushed \in Seq(Paths)

-----------------------------------------------------------------------------
(* The register operands of node n: an operand that stays in memory has    *)
(* none of its own, an addressed subscript has its two parts.              *)
RegisterOperands(n, e) ==
    LET Of(i) == IF ~AddressMode(e, i) THEN {Append(n, i)}
                 ELSE IF e.kids[i].op = "leaf" THEN {}
                 ELSE {n \o <<i, 1>>, n \o <<i, 2>>}
    IN  UNION {Of(i) : i \in DOMAIN e.kids}

(* The registers the instruction can take operand i from.                  *)
Accepts(e, i) ==
    CASE e.op = "call" -> {fastArgs[i]}
      [] e.op = "return" -> {RAX}
      [] e.op = "shift" -> IF i = 2 THEN {RCX} ELSE LongMask \ {RCX}
      [] e.op \in {"div", "rem"} -> IF i = 1 THEN {RAX} ELSE LongMask \ {RAX, RDX}
      [] e.op = "bytediv" /\ i = 2 -> LongMask \ {RAX}
      [] OTHER -> LongMask

IsAddress(n) == n # <<>> /\ RegisterOf(register, n) = NO_REG

(* When an instruction is about to execute, each of its operands is in a   *)
(* register the instruction takes it from and that register holds the      *)
(* value the operand computed, whatever was pushed, popped, moved,         *)
(* exchanged or called in between: cleanupTemps() gets "the temporaries    *)
(* into proper registers" (x86_allocTemp.p:209).                           *)
OperandsInPlace ==
    Generating("execute") =>
        LET n == Head(agenda).at
            e == Head(agenda).e
        IN  IsAddress(n) \/
            \A m \in RegisterOperands(n, e) :
                /\ RegisterOf(register, m) \in Accepts(e, m[Len(n) + 1])
                /\ Content(RegisterOf(register, m)) = m

(* While registers are assigned, the free registers are exactly those no   *)
(* live temporary is in, and no two live temporaries are in one register   *)
(* (_freeRegisters, _usedRegisters and Temporary.currentReg agree); and at  *)
(* all times everything has its type.                                      *)
RegistersAccounted ==
    /\ TypeOK
    /\ phase = "assign" /\ ~rs.failed =>
         LET live == {i \in 1 .. Top : rs.temps[i].current # NO_REG}
         IN  /\ rs.used = RegistersOf(rs, 1, Top)
             /\ rs.free = LongMask \ rs.used
             /\ \A i, j \in live : rs.temps[i].current = rs.temps[j].current => i = j

(* The nodes whose pushed value the queued spills leave on the machine     *)
(* stack; a pop that is not of the value on top leaves its own node there. *)
Outstanding ==
    LET Step(stack, s) ==
          CASE s.kind = "PUSH" -> Append(stack, s.affected)
            [] s.kind = "POP" -> IF stack # <<>> /\ s.affected = Last(stack) THEN Front(stack)
                                 ELSE Append(stack, s.affected)
            [] OTHER -> stack
    IN  FoldLeft(Step, <<>>, rs.spills)

(* "All temporaries within an expression have properly nested lifetimes"   *)
(* (x86_allocTemp.p:154): the values the queued spills leave pushed are    *)
(* those of the spilled temporaries, the oldest deepest.                   *)
SpillsNest ==
    phase = "assign" /\ ~rs.failed =>
        LET InMemory(tm) == tm.current = NO_REG
            spilled == SelectSeq(rs.temps, InMemory)
        IN  Outstanding = [i \in DOMAIN spilled |-> spilled[i].node]

(* Every queued spill is emitted, in the function it was queued in, and    *)
(* the statement leaves nothing on the machine stack.                      *)
SpillsEmitted == phase = "done" => rs.spills = <<>> /\ machine.pushed = <<>>

(* No assert of the allocator fails: a pushed temporary finds a register   *)
(* it desires free (assert at x86_allocTemp.p:376), a spill a temporary to *)
(* spill (asserts at x86_allocTemp.p:522 and 548).                         *)
NoAssertFails == ~rs.failed

(* No assert of the allocator fails, no cleanup loops for ever, and the    *)
(* code of the statement is generated to its end.                          *)
Completes == <>(phase = "done")

=============================================================================
