----------------------------- MODULE Interpreter -----------------------------
(* The byte code interpreter of src/runtime/Parasol/runtime.cc:             *)
(* ExecutionContext::run() and the stack it works on, for one run of one     *)
(* program.                                                                  *)
(*                                                                           *)
(* Memory is a function from word addresses to words: addresses below        *)
(* FirstValid stand for those below 0x10000, then come static objects, the   *)
(* heap, and the stack, which grows down.  A word has as many bits as        *)
(* Bits["long"] says and is kept as a signed number; the narrower loads and  *)
(* stores use the low bits of the word at an address.  Offsets and sizes     *)
(* count words, which stands for the rounding to words in the code.  A code  *)
(* object is a sequence of instructions, each an opcode and its operands; the *)
(* instruction pointer counts them from 0.                                   *)
EXTENDS Integers, Sequences, FiniteSets

LOCAL INSTANCE Bitwise

CONSTANTS
  Bits,        \* the number of bits of a "byte", "short", "int" and "long"
  FirstValid,  \* the lowest address MEM_VALID accepts
  HeapLow, HeapEnd,    \* the heap: HeapLow .. HeapEnd - 1
  StackLow, StackTop,  \* the stack: StackLow .. StackTop - 1
  Programs,    \* what may be run: the text of object 0, the starting object
  Library      \* the objects from 1 on: at an address, with a text or data

ASSUME InterpreterAssumption ==
  /\ Bits["byte"] < Bits["short"] /\ Bits["short"] < Bits["int"] /\ Bits["int"] < Bits["long"]
  /\ 0 < FirstValid /\ FirstValid <= HeapLow /\ HeapLow <= HeapEnd
  /\ HeapEnd <= StackLow /\ StackLow < StackTop /\ StackTop < 2 ^ (Bits["long"] - 1)

VARIABLES
  program,  \* the program that is run
  m,        \* _active.code, .ip, .fp; _sp; the memory; the live heap blocks
  lastIp,   \* _lastIp
  status,   \* "loaded", "running", "returned" or "failed", then "stopped"
  result    \* what the caller of run(int) pops, or NoResult

vars == <<program, m, lastIp, status, result>>

NoResult == "none"
\* The address of the string array the arguments are in; there are none.
Arguments == 0
FrameSize == 3

-----------------------------------------------------------------------------
(* Words.                                                                    *)

Signed(v, w) == ((v + 2 ^ (Bits[w] - 1)) % 2 ^ Bits[w]) - 2 ^ (Bits[w] - 1)
Unsigned(v, w) == v % 2 ^ Bits[w]
Word(v) == Signed(v, "long")
Truth(b) == IF b THEN 1 ELSE 0

Magnitude(v) == IF v < 0 THEN -v ELSE v
Quotient(l, r) ==
  LET q == Magnitude(l) \div Magnitude(r) IN IF (l < 0) = (r < 0) THEN q ELSE -q

\* Binary arithmetic is done on whole words whatever the operands' type is.
Binary(op, l, r) ==
  LET ul == Unsigned(l, "long")  ur == Unsigned(r, "long")
  IN  Word(CASE op = "MUL" -> l * r
             [] op = "DIV" -> Quotient(l, r)
             [] op = "REM" -> l - r * Quotient(l, r)
             [] op = "ADD" -> l + r
             [] op = "SUB" -> l - r
             [] op = "LSH" -> l * 2 ^ r
             [] op = "RSH" -> l \div 2 ^ r
             [] op = "URS" -> ul \div 2 ^ r
             [] op = "OR"  -> ul | ur
             [] op = "AND" -> ul & ur
             [] op = "XOR" -> ul ^^ ur)

Unary(op, v) == CASE op = "NEG" -> Word(-v)
                  [] op = "BCM" -> -v - 1
                  [] op = "NOT" -> Truth(v = 0)

\* A comparison looks at the low bits of its operands, as an int or an
\* unsigned int, or at the whole words.
IntRelations == {"EQI", "NEI", "GTI", "GEI", "LTI", "LEI"}
UnsignedRelations == {"GTU", "GEU", "LTU", "LEU"}
LongRelations == {"EQL", "NEL", "GTL", "GEL", "LTL", "LEL"}
Compared(op, v) == IF op \in IntRelations THEN Signed(v, "int")
                   ELSE IF op \in UnsignedRelations THEN Unsigned(v, "int") ELSE v
Relation(op, l, r) ==
  LET x == Compared(op, l)  y == Compared(op, r)
  IN  CASE op \in {"EQI", "EQL"} -> x = y
        [] op \in {"NEI", "NEL"} -> x # y
        [] op \in {"GTI", "GTU", "GTL"} -> x > y
        [] op \in {"GEI", "GEU", "GEL"} -> x >= y
        [] op \in {"LTI", "LTU", "LTL"} -> x < y
        [] op \in {"LEI", "LEU", "LEL"} -> x <= y

Widen(op, v) == CASE op = "CVTBI" -> Unsigned(v, "byte") [] op = "CVTCI" -> Unsigned(v, "short")
                  [] op = "CVTIL" -> Signed(v, "int")    [] op = "CVTUL" -> Unsigned(v, "int")

-----------------------------------------------------------------------------
(* Objects and the machine.                                                  *)

\* Object 0 lies at FirstValid.
ObjectCount == Len(Library) + 1
ValueAddress(i) == IF i = 0 THEN FirstValid ELSE Library[i].at
Text == IF m.code = FirstValid THEN program.text
        ELSE Library[CHOOSE i \in 1 .. Len(Library) : Library[i].at = m.code].text
Op == Text[m.ip + 1][1]
Arg(k) == Text[m.ip + 1][1 + k]

MemValid(a) == Unsigned(a, "long") >= FirstValid

\* The machine when the opcode and its operands have been read.
After == [m EXCEPT !.ip = @ + 1]

\* A push onto a full stack does nothing; no caller looks at its result.
Push(x, v) == IF x.sp - 1 < StackLow THEN x
              ELSE [x EXCEPT !.sp = @ - 1, !.mem[x.sp - 1] = v]
Drop(x, n) == [x EXCEPT !.sp = @ + n]
St(x, i) == x.mem[x.sp + i]
\* Defect: every load zero-extends.
LoadUnsigned(x, a, w, signed) == Unsigned(x.mem[a], w)
Load(x, a, w, signed) == IF signed THEN Signed(x.mem[a], w) ELSE Unsigned(x.mem[a], w)
Store(x, a, w, v) ==
  [x EXCEPT !.mem[a] = Word(Unsigned(@, "long") - Unsigned(@, w) + Unsigned(v, w))]
Copy(x, to, from, n) ==
  [x EXCEPT !.mem = [a \in DOMAIN @ |-> IF a \in to .. to + n - 1 THEN @[from + (a - to)] ELSE @[a]]]
Clear(x, at, n) ==
  [x EXCEPT !.mem = [a \in DOMAIN @ |-> IF a \in at .. at + n - 1 THEN 0 ELSE @[a]]]

\* A copy of the n words at an address onto the stack.
PushObject(x, from, n) == Copy(Drop(x, -n), x.sp - n, from, n)

Invoke(x, code) ==
  LET y == Push(Push(Push(x, x.ip), x.code), x.fp)
  IN  [y EXCEPT !.code = code, !.fp = y.sp, !.ip = 0]

Blocks(n) == {a \in HeapLow .. HeapEnd - n :
                \A b \in m.blocks : a + n <= b[1] \/ b[1] + b[2] <= a}
Allocated(x, a, n) == [Clear(x, a, n) EXCEPT !.blocks = @ \cup {<<a, n>>}]
Released(x, a) == [x EXCEPT !.blocks = {b \in @ : b[1] # a}]

Continue(x) == m' = x /\ lastIp' = m.ip /\ UNCHANGED <<program, status, result>>
Fail(x) == m' = x /\ lastIp' = m.ip /\ status' = "failed" /\ UNCHANGED <<program, result>>
Return(x) == m' = x /\ lastIp' = m.ip /\ status' = "returned" /\ UNCHANGED <<program, result>>

-----------------------------------------------------------------------------
(* The instructions: one action for each group of opcodes of the switch.     *)

PushConstant ==
  \/ Op \in {"INT", "LONG"} /\ Continue(Push(After, Arg(1)))
  \/ Op = "STRING" /\ Continue(Push(After, m.mem[ValueAddress(Arg(1))]))
  \/ Op \in {"ADDR", "ASTRING", "VALUE"} /\ Continue(Push(After, ValueAddress(Arg(1))))

\* A string is its length and its characters, here one to a word.
CharAt ==
  /\ Op = "CHAR_AT"
  /\ LET at == St(m, 1) + 1 + St(m, 0)  x == Drop(After, 2)
     IN  IF MemValid(at) THEN Continue(Push(x, Load(x, at, "byte", TRUE))) ELSE Fail(x)

StoreStatic ==
  \/ \E w \in {"byte", "short", "int"} :
       /\ Op \in CASE w = "byte" -> {"STSB"} [] w = "short" -> {"STSC", "STSS"}
                   [] w = "int" -> {"STSA", "STSI"}
       /\ Continue(Store(After, ValueAddress(Arg(1)), w, St(m, 0)))
  \/ Op = "STSO" /\ Continue(Copy(After, ValueAddress(Arg(1)), m.sp, Arg(2)))

LoadStatic ==
  /\ Op \in {"LDSA", "LDSI", "LDSU", "LDSB", "LDSC", "LDSS"}
  /\ LET at == ValueAddress(Arg(1))
         v  == CASE Op = "LDSA" -> Load(m, at, "long", TRUE)
                 [] Op = "LDSI" -> Load(m, at, "int", TRUE)
                 [] Op = "LDSU" -> Load(m, at, "int", FALSE)
                 [] Op = "LDSB" -> Load(m, at, "byte", FALSE)
                 [] Op = "LDSC" -> Load(m, at, "short", FALSE)
                 [] Op = "LDSS" -> Load(m, at, "short", TRUE)
     IN  Continue(Push(After, v))

New ==
  /\ Op = "NEW"
  /\ IF Blocks(Arg(1)) = {} THEN Continue(Push(After, 0))
     ELSE LET a == CHOOSE b \in Blocks(Arg(1)) : \A c \in Blocks(Arg(1)) : b <= c
          IN  Continue(Push(Allocated(After, a, Arg(1)), a))

Delete == Op = "DELETE" /\ Continue(Released(Drop(After, 1), St(m, 0)))

CheckStack ==
  /\ Op = "CHKSTK"
  /\ IF m.fp - m.sp = Arg(1) THEN Continue(After) ELSE Fail(After)

Call ==
  \/ Op = "CALL" /\ Continue(Invoke(After, ValueAddress(Arg(1))))
  \/ /\ Op = "ICALL"
     /\ IF MemValid(St(m, 0)) THEN Continue(Invoke(Drop(After, 1), St(m, 0)))
        ELSE Fail(Drop(After, 1))

\* The object's first word is the address of its vtable, whose slots hold the
\* indices of code objects, or a negative number when they are abstract.
VirtualCall ==
  /\ Op = "VCALL"
  /\ IF ~MemValid(St(m, 0)) THEN Fail(After)
     ELSE LET slot == m.mem[m.mem[St(m, 0)] + Arg(1)]
          IN  IF slot < 0 THEN Fail(After)
              ELSE Continue(Invoke(After, ValueAddress(slot)))

LoadTypeRef ==
  /\ Op = "LDTR"
  /\ IF ~MemValid(St(m, 0)) THEN Fail(Drop(After, 1))
     ELSE Continue(Push(Drop(After, 1), Signed(m.mem[ValueAddress(m.mem[m.mem[St(m, 0)]])], "int")))

\* The entries of builtInFunctionMap that a program of the runs calls.  What
\* the operating system answers is any of the values the runs tell apart.
BuiltIns == << [name |-> "print",         args |-> 1, returns |-> 1],
               [name |-> "assert",        args |-> 1, returns |-> 0],
               [name |-> "allocz",        args |-> 1, returns |-> 1],
               [name |-> "free",          args |-> 1, returns |-> 0],
               [name |-> "memcpy",        args |-> 3, returns |-> 1],
               [name |-> "memset",        args |-> 3, returns |-> 1],
               [name |-> "fopen",         args |-> 2, returns |-> 1],
               [name |-> "fread",         args |-> 4, returns |-> 1],
               [name |-> "supportedTarget", args |-> 1, returns |-> 1],
               [name |-> "runningTarget", args |-> 0, returns |-> 1] >>
BYTE_CODES == 2
X86_64 == 3

Halted(x) == [x EXCEPT !.ip = -1]
BuiltInAssert(x) == IF Unsigned(St(x, 0), "byte") = 0 THEN Halted(x) ELSE x
Allocz(x) == {<<Allocated(x, a, St(x, 0)), a>> : a \in Blocks(St(x, 0))} \cup {<<x, 0>>}
Memcpy(x) == Copy(x, St(x, 0), St(x, 1), St(x, 2))
Memset(x) ==
  LET to == St(x, 0) .. St(x, 0) + St(x, 2) - 1
  IN  [x EXCEPT !.mem = [a \in DOMAIN @ |-> IF a \in to THEN St(x, 1) ELSE @[a]]]
SupportedTarget(index) == CASE index = 0 -> X86_64 [] index = 1 -> BYTE_CODES [] OTHER -> -1
RunningTarget == BYTE_CODES

\* The machine when the function has returned, its arguments still on the
\* stack, and the value returned; an assertion that fails halts.
BuiltIn(f, x) ==
  CASE f.name = "assert" -> {<<BuiltInAssert(x), 0>>}
    [] f.name = "allocz" -> Allocz(x)
    [] f.name = "free" -> {<<Released(x, St(x, 0)), 0>>}
    [] f.name = "memcpy" -> {<<Memcpy(x), St(x, 0)>>}
    [] f.name = "memset" -> {<<Memset(x), St(x, 0)>>}
    [] f.name = "supportedTarget" -> {<<x, SupportedTarget(Signed(St(x, 0), "int"))>>}
    [] f.name = "runningTarget" -> {<<x, RunningTarget>>}
    [] OTHER -> {<<x, 0>>, <<x, 1>>}

ExternalCall ==
  /\ Op = "XCALL"
  /\ LET f == BuiltIns[Arg(1) + 1]
     IN  \E r \in BuiltIn(f, After) :
           IF r[1].ip = -1 THEN Fail(r[1])
           ELSE Continue(IF f.returns > 0 THEN Push(Drop(r[1], f.args), r[2]) ELSE Drop(r[1], f.args))

\* Room for locals and for variable arguments, and its removal.
Locals == Op = "LOCALS" /\ Continue(Clear(Drop(After, -Arg(1)), m.sp - Arg(1), Arg(1)))

VariableArguments ==
  \/ /\ Op = "SP"
     /\ Continue(Push(Clear(Drop(After, -Arg(1)), m.sp - Arg(1), Arg(1)), m.sp - Arg(1)))
  \/ Op = "VARG" /\ Continue(Drop(After, Arg(1)))
  \/ Op = "VARG1" /\ Continue(Push(Drop(After, 1 + Arg(1)), St(m, 0)))

\* The caller's frame, read from the callee's; the frame itself is dropped.
CallerOf(x) == [x EXCEPT !.fp = x.mem[x.fp], !.code = x.mem[x.fp + 1],
                         !.ip = x.mem[x.fp + 2], !.sp = x.fp + FrameSize]

Ret ==
  /\ Op = "RET"
  /\ LET x == CallerOf(m) IN IF x.ip = -1 THEN Fail(x) ELSE Continue(Drop(x, Arg(1)))

\* Defect: the arguments stay on the stack.
Ret1KeepsArguments ==
  /\ Op = "RET1"
  /\ LET x == CallerOf(m)
     IN  IF x.fp = 0 THEN Return(Push(x, St(m, 0))) ELSE Continue(Push(x, St(m, 0)))

Ret1 ==
  /\ Op = "RET1"
  /\ LET x == CallerOf(m)
     IN  IF x.fp = 0 THEN Return(Push(x, St(m, 0)))
         ELSE IF x.ip = -1 THEN Fail(x)
         ELSE Continue(Push(Drop(x, Arg(1)), St(m, 0)))

\* From the outermost frame only its fp is taken off the stack.
RetN ==
  /\ Op = "RETN"
  /\ LET n == Arg(1)  x == CallerOf(m)
         Payload(y) == Copy(Drop(y, -n), y.sp - n, m.sp, n)
     IN  IF x.fp = 0 THEN Return(Payload([m EXCEPT !.fp = 0, !.sp = m.fp + 1, !.ip = @ + 1]))
         ELSE IF ~MemValid(x.code) \/ x.ip = -1 THEN Fail(x)
         ELSE Continue(Payload(Drop(x, Arg(2))))

StackOperation ==
  \/ Op = "POP" /\ Continue(Drop(After, 1))
  \/ Op = "POPN" /\ Continue(Drop(After, Arg(1)))
  \/ Op = "SWAP" /\ Continue(Push(Push(Drop(After, 2), St(m, 0)), St(m, 1)))
  \/ Op = "DUP" /\ Continue(Push(After, St(m, 0)))

UnaryOps == {"NEG", "BCM", "NOT"}
BinaryOps == {"MUL", "DIV", "REM", "ADD", "SUB", "LSH", "RSH", "URS", "OR", "AND", "XOR"}
Arithmetic ==
  \/ Op \in UnaryOps /\ Continue(Push(Drop(After, 1), Unary(Op, St(m, 0))))
  \/ Op \in BinaryOps /\ Continue(Push(Drop(After, 2), Binary(Op, St(m, 1), St(m, 0))))

Compare ==
  /\ Op \in IntRelations \cup UnsignedRelations \cup LongRelations
  /\ Continue(Push(Drop(After, 2), Truth(Relation(Op, St(m, 1), St(m, 0)))))

-----------------------------------------------------------------------------
(* Variants: two words, the kind (at the lower address) and the value.       *)

\* varCompare: the sign of the difference, which wraps around, or INT_MIN
\* when the kinds differ.
VarCompare(lk, lv, rk, rv) ==
  IF lk # rk THEN -2
  ELSE LET d == Word(lv - rv) IN IF d < 0 THEN -1 ELSE Truth(d > 0)

VariantRelation(op, c) ==
  CASE op \in {"EQV", "NLGV"} -> c = 0
    [] op \in {"NEV", "LGV"}  -> c # 0
    [] op \in {"GTV", "NLEV"} -> c > 0
    [] op \in {"GEV", "NLV"}  -> c >= 0
    [] op \in {"LTV", "NGEV"} -> c < 0
    [] op \in {"LEV", "NGV"}  -> c <= 0
VariantRelations == {"EQV", "NLGV", "NEV", "LGV", "GTV", "NLEV", "GEV", "NLV", "LTV", "NGEV", "LEV", "NGV"}

CompareVariants ==
  /\ Op \in VariantRelations
  /\ Continue(Push(Drop(After, 4),
       Truth(VariantRelation(Op, VarCompare(St(m, 2), St(m, 3), St(m, 0), St(m, 1))))))

\* The left operand keeps its kind and takes the result.
VariantOps == [o \in {"ADDV", "SUBV", "MULV", "DIVV", "REMV", "RSHV", "LSHV", "URSV", "ANDV", "ORV", "XORV"} |->
  CASE o = "ADDV" -> "ADD" [] o = "SUBV" -> "SUB" [] o = "MULV" -> "MUL" [] o = "DIVV" -> "DIV"
    [] o = "REMV" -> "REM" [] o = "RSHV" -> "RSH" [] o = "LSHV" -> "LSH" [] o = "URSV" -> "URS"
    [] o = "ANDV" -> "AND" [] o = "ORV" -> "OR" [] o = "XORV" -> "XOR"]
VariantArithmetic ==
  /\ Op \in DOMAIN VariantOps
  /\ Continue(Drop([After EXCEPT !.mem[m.sp + 3] = Binary(VariantOps[Op], St(m, 3), St(m, 1))], 2))

Convert ==
  \/ /\ Op \in {"CVTBI", "CVTCI", "CVTIL", "CVTUL"}
     /\ Continue(Push(Drop(After, 1), Widen(Op, St(m, 0))))
  \/ /\ Op \in {"CVTIV", "CVTLV", "CVTAV", "CVTSV"}
     /\ Continue(Push(Push(Drop(After, 2), St(m, 1)), St(m, 0)))
  \/ Op = "CLASSV" /\ Continue(Push(Drop(After, 2), St(m, 0)))
  \/ Op \in {"CVTVI", "CVTVA", "CVTVS"} /\ Continue(Push(Drop(After, 2), St(m, 1)))

-----------------------------------------------------------------------------

Jump ==
  \/ Op = "JMP" /\ Continue([m EXCEPT !.ip = Arg(1)])
  \/ /\ Op \in {"JZ", "JNZ"}
     /\ Continue(Drop(IF (St(m, 0) = 0) = (Op = "JZ") THEN [m EXCEPT !.ip = Arg(1)] ELSE After, 1))

\* The first case whose value is that of the operand: all of its word is
\* compared.  An enumeration's cases are addresses within an object.
Switch ==
  /\ Op \in {"SWITCHI", "SWITCHE"}
  /\ LET width == IF Op = "SWITCHI" THEN 2 ELSE 3
         Cell(c, j) == Arg(2 + (c - 1) * width + j)
         Value(c) == IF Op = "SWITCHI" THEN Cell(c, 1) ELSE ValueAddress(Cell(c, 1)) + Cell(c, 2)
         hits == {c \in 1 .. Arg(1) : Value(c) = St(m, 0)}
         target == IF hits = {} THEN Arg(2)
                   ELSE Cell(CHOOSE c \in hits : \A d \in hits : c <= d, width)
     IN  Continue(Drop([m EXCEPT !.ip = target], 1))

\* Locals at fp + i, variable arguments at fp - i, parameters above the frame.
FrameAddress(op, i) ==
  IF op \in {"STVA", "STVB", "STVS", "STVI", "STVO", "STVV", "AVARG"} THEN m.fp - i ELSE m.fp + i
ParameterAddress(i) == m.fp + FrameSize + i

LoadLocal ==
  \/ /\ Op \in {"LDAB", "LDAC", "LDAI", "LDAU", "LDAA"}
     /\ LET at == m.fp + Arg(1)
            v  == CASE Op = "LDAB" -> Load(m, at, "byte", FALSE) [] Op = "LDAC" -> Load(m, at, "short", FALSE)
                    [] Op = "LDAI" -> Load(m, at, "int", TRUE) [] Op = "LDAU" -> Load(m, at, "int", FALSE)
                    [] Op = "LDAA" -> Load(m, at, "long", TRUE)
        IN  Continue(Push(After, v))
  \/ Op = "LDAO" /\ Continue(PushObject(After, m.fp + Arg(1), Arg(2)))

StoreLocal ==
  \/ \E w \in DOMAIN Bits :
       /\ Op \in CASE w = "byte" -> {"STAB", "STVB"} [] w = "short" -> {"STAS", "STVS"}
                   [] w = "int" -> {"STAI", "STVI"}  [] w = "long" -> {"STAA", "STVA"}
       /\ Continue(Store(After, FrameAddress(Op, Arg(1)), w, St(m, 0)))
  \/ Op \in {"STAO", "STVO"} /\ Continue(Copy(After, FrameAddress(Op, Arg(1)), m.sp, Arg(2)))
  \/ Op \in {"STAV", "STVV"} /\ Continue(Copy(After, FrameAddress(Op, Arg(1)), m.sp, 2))

LoadParameter ==
  \/ /\ Op \in {"LDPB", "LDPC", "LDPS", "LDPI", "LDPU", "LDPL", "LDPA"}
     /\ LET at == ParameterAddress(Arg(1))
            v  == CASE Op = "LDPB" -> Load(m, at, "byte", FALSE) [] Op = "LDPC" -> Load(m, at, "short", FALSE)
                    [] Op = "LDPS" -> Load(m, at, "short", TRUE) [] Op = "LDPI" -> Load(m, at, "int", TRUE)
                    [] Op = "LDPU" -> Load(m, at, "int", FALSE)
                    [] Op \in {"LDPL", "LDPA"} -> Load(m, at, "long", TRUE)
        IN  Continue(Push(After, v))
  \/ Op = "LDPO" /\ Continue(PushObject(After, ParameterAddress(Arg(1)), Arg(2)))

StoreParameter ==
  \/ \E w \in DOMAIN Bits :
       /\ Op \in CASE w = "byte" -> {"STPB"} [] w = "short" -> {"STPS"}
                   [] w = "int" -> {"STPI"} [] w = "long" -> {"STPL", "STPA"}
       /\ Continue(Store(After, ParameterAddress(Arg(1)), w, St(m, 0)))
  \/ Op = "STPO" /\ Continue(Copy(After, ParameterAddress(Arg(1)), m.sp, Arg(2)))

AddressOf ==
  \/ Op \in {"AUTO", "AVARG"} /\ Continue(Push(After, FrameAddress(Op, Arg(1))))
  \/ Op = "PARAMS" /\ Continue(Push(After, ParameterAddress(Arg(1))))

Zero ==
  \/ Op = "ZERO_A" /\ Continue(Clear(After, m.fp + Arg(1), Arg(2)))
  \/ /\ Op = "ZERO_I"
     /\ IF MemValid(St(m, 0)) THEN Continue(Clear(Drop(After, 1), St(m, 0), Arg(1)))
        ELSE Fail(Drop(After, 1))

LoadIndirect ==
  \/ /\ Op \in {"LDIA", "LDIL", "LDII", "LDIU", "LDIB", "LDIC"}
     /\ LET at == St(m, 0)  x == Drop(After, 1)
            v  == CASE Op \in {"LDIA", "LDIL"} -> Load(m, at, "long", TRUE)
                    [] Op = "LDII" -> Load(m, at, "int", TRUE) [] Op = "LDIU" -> Load(m, at, "int", FALSE)
                    [] Op = "LDIB" -> Load(m, at, "byte", FALSE) [] Op = "LDIC" -> Load(m, at, "short", FALSE)
        IN  IF MemValid(at) THEN Continue(Push(x, v)) ELSE Fail(x)
  \/ /\ Op \in {"LDIV", "LDIO"}
     /\ LET x == Drop(After, 1)
        IN  IF MemValid(St(m, 0)) THEN Continue(PushObject(x, St(m, 0), IF Op = "LDIO" THEN Arg(1) ELSE 2))
            ELSE Fail(x)

\* The address is popped and the value stays; POPIA pops the value and the
\* address stays.
StoreIndirect ==
  \/ \E w \in DOMAIN Bits :
       /\ Op \in CASE w = "byte" -> {"STIB"} [] w = "short" -> {"STIC"}
                   [] w = "int" -> {"STII"} [] w = "long" -> {"STIL", "STIA"}
       /\ LET x == Drop(After, 1)
          IN  IF MemValid(St(m, 0)) THEN Continue(Store(x, St(m, 0), w, St(m, 1))) ELSE Fail(x)
  \/ /\ Op \in {"STIV", "STIO"}
     /\ LET x == Drop(After, 1)
        IN  IF MemValid(St(m, 0))
            THEN Continue(Copy(x, St(m, 0), x.sp, IF Op = "STIO" THEN Arg(1) ELSE 2))
            ELSE Fail(x)
  \/ /\ Op = "POPIA"
     /\ LET x == Drop(After, 1)
        IN  IF MemValid(St(m, 1)) THEN Continue(Store(x, St(m, 1), "int", St(m, 0))) ELSE Fail(x)

\* The default of the switch: opcodes that ByteCodeMap names, and that the
\* generator emits, among them the comparisons of pointers.
NotExecuted == {"GTA", "GEA", "LTA", "LEA", "INVOKE", "THROW", "LDAS"}
CouldNotExecute == Op \in NotExecuted /\ Fail(After)

-----------------------------------------------------------------------------
(* disassemble(), which shows each instruction before it is executed when a    *)
(* run is traced: the operands it reads, and the address in the frame it shows.  *)

FrameOps == {"LDAA", "STAA", "LDAB", "STAB", "LDAC", "LDAS", "STAS", "STAV", "LDAI", "LDAU", "STAI", "AUTO",
             "ZERO_A", "STAO", "LDAO"}
BelowFrameOps == {"STVA", "STVB", "STVI", "STVS", "STVV", "AVARG", "STVO"}
ParameterOps == {"LDPA", "STPA", "LDPC", "LDPS", "STPS", "LDPB", "STPB", "LDPI", "LDPL", "LDPU", "STPI", "STPL",
                 "PARAMS", "LDPO", "STPO"}
ObjectOps == {"STSA", "STSB", "STSC", "STSI", "STSS", "LDSA", "LDSB", "LDSC", "LDSI", "LDSU", "LDSS", "VALUE",
              "CALL", "STRING", "ASTRING", "ADDR", "STSO"}
NumberOps == {"NEW", "INT", "RET", "RET1", "VARG", "VARG1", "CHKSTK", "LDIO", "STIO", "POPN", "INVOKE", "ZERO_I",
              "LONG", "RETN", "JMP", "JZ", "JNZ", "LOCALS", "SP", "XCALL", "VCALL"}
TwoOperands == {"RETN", "ZERO_A", "STAO", "LDAO", "STVO", "LDPO", "STPO", "VCALL", "STSO"}

OperandsShown ==
  CASE Op = "SWITCHI" -> 2 + 2 * Arg(1)
    [] Op = "SWITCHE" -> 2 + 3 * Arg(1)
    [] Op \in TwoOperands -> 2
    [] Op \in FrameOps \cup BelowFrameOps \cup ParameterOps \cup ObjectOps \cup NumberOps -> 1
    [] OTHER -> 0
\* Defect: variable arguments are shown above the frame pointer.
AddressShownAbove == m.fp + Arg(1)

AddressShown == IF Op \in FrameOps THEN m.fp + Arg(1) ELSE m.fp - Arg(1)

\* valueIndex(): the first object at the address, -1 where there is none.
ValueIndex(a) ==
  LET at == {i \in 0 .. ObjectCount - 1 : ValueAddress(i) = a}
  IN  IF at = {} THEN -1 ELSE CHOOSE i \in at : \A j \in at : i <= j

\* What is said of a run that failed: where it did, and, by dumpStack(), where
\* the calls go on that it was in, up to a frame that has no way back.
CollectIp(code, ip) == [object |-> ValueIndex(code), ip |-> ip]
DumpIp == CollectIp(m.code, lastIp)
DumpStack ==
  LET Walk[fp \in StackLow .. StackTop - FrameSize] ==
        IF m.mem[fp + 2] <= 0 THEN <<>>
        ELSE <<CollectIp(m.mem[fp + 1], m.mem[fp + 2])>> \o Walk[m.mem[fp]]
  IN  IF m.fp = 0 THEN <<>> ELSE Walk[m.fp]

-----------------------------------------------------------------------------
(* The run.                                                                  *)

LoadedMemory ==
  [a \in FirstValid .. StackTop - 1 |->
     LET hit == {i \in 1 .. Len(Library) : a - Library[i].at \in 0 .. Len(Library[i].data) - 1}
     IN  IF hit = {} THEN 0 ELSE LET i == CHOOSE i \in hit : TRUE IN Library[i].data[a - Library[i].at + 1]]

\* A new context has the static objects in memory and an empty stack, on
\* which the caller has pushed the address and length of the arguments.
Init ==
  /\ program \in Programs
  /\ m = [code |-> 0, ip |-> 0, fp |-> 0, sp |-> StackTop, blocks |-> {}, mem |-> LoadedMemory]
  /\ lastIp = 0 /\ status = "loaded" /\ result = NoResult

\* ByteCodeSection::run pushes the arguments, unloadFrame() clears the frame
\* and run(int) invokes the starting object unless its index is out of range.
Start ==
  /\ status = "loaded"
  /\ LET x == Push(Push(m, Arguments), 0)
     IN  IF program.start \in 0 .. ObjectCount - 1
         THEN m' = Invoke(x, ValueAddress(program.start)) /\ status' = "running"
         ELSE m' = x /\ status' = "failed"
  /\ lastIp' = 0 /\ UNCHANGED <<program, result>>

Instruction ==
  /\ status = "running"
  /\ \/ PushConstant \/ CharAt \/ StoreStatic \/ LoadStatic \/ New \/ Delete
     \/ CheckStack \/ Call \/ VirtualCall \/ LoadTypeRef \/ ExternalCall
     \/ Locals \/ VariableArguments \/ Ret \/ Ret1 \/ RetN \/ StackOperation
     \/ Arithmetic \/ Compare \/ CompareVariants \/ VariantArithmetic \/ Convert
     \/ Jump \/ Switch \/ LoadLocal \/ StoreLocal \/ LoadParameter \/ StoreParameter
     \/ AddressOf \/ Zero \/ LoadIndirect \/ StoreIndirect \/ CouldNotExecute

\* The caller pops the result as a word and returns it as an int.
TakeResult ==
  /\ status = "returned"
  /\ result' = Signed(St(m, 0), "int") /\ m' = Drop(m, 1) /\ status' = "stopped"
  /\ UNCHANGED <<program, lastIp>>

Stopped == status \in {"failed", "stopped"} /\ UNCHANGED vars

Next == Start \/ Instruction \/ TakeResult \/ Stopped

Spec == Init /\ [][Next]_vars

=============================================================================
