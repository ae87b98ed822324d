---------------------------- MODULE MCInterpreter ----------------------------
(* Programs for the interpreter: every tree of two levels, compiled, and one  *)
(* routine for each way a value can be stored, loaded, converted, compared or *)
(* passed, with the outcome each must have.                                   *)
EXTENDS InterpreterProps

MCBits == [byte |-> 2, short |-> 3, int |-> 4, long |-> 8]

Target == INSTANCE ByteCodesTarget WITH IntBits <- Bits["int"]

-----------------------------------------------------------------------------
(* The objects of every program, by index from 1: code, then data.            *)

Code(text, at, args, results) == [at |-> at, data |-> <<>>, text |-> text, args |-> args, results |-> results]
Data(cells, at) == [at |-> at, data |-> cells]

Static == 7  Instance == 8  VTable == 9  TypeOf == 10  Chars == 11  Literal == 12  Cases == 13
Abstract == 14  AbstractTable == 15  ThisGet == 5  Pair == 4  Nothing == 6
Reads == 16  CallsReads == 17

MCLibrary == <<
  \* Compiled: an argument and one, and the difference of two arguments.
  Code(<<<<"LOCALS", 0>>, <<"CHKSTK", 0>>, <<"CHKSTK", 0>>, <<"CHKSTK", 0>>, <<"LDPI", 0>>, <<"CHKSTK", 1>>, <<"INT", 1>>, <<"ADD">>, <<"RET1", 1>>>>, 11, 1, 1),
  Code(<<<<"LOCALS", 0>>, <<"CHKSTK", 0>>, <<"CHKSTK", 0>>, <<"CHKSTK", 0>>, <<"LDPI", 0>>, <<"CHKSTK", 1>>, <<"LDPI", 1>>, <<"SUB">>, <<"RET1", 2>>>>, 12, 2, 1),
  \* The last of a variable number of arguments, taken from the first.
  Code(<<<<"LOCALS", 0>>, <<"LDPI", 0>>, <<"LDPA", 2>>, <<"LDPI", 1>>, <<"INT", 1>>, <<"SUB">>, <<"ADD">>, <<"LDII">>, <<"SUB">>, <<"RET1", 3>>>>, 13, 3, 1),
  \* Two results, the first on top.
  Code(<<<<"LOCALS", 1>>, <<"LDPI", 0>>, <<"INT", 7>>, <<"SWAP">>, <<"RETN", 2, 1>>>>, 14, 1, 2),
  \* A method: the field after the vtable.
  Code(<<<<"LOCALS", 0>>, <<"LDPA", 0>>, <<"INT", 1>>, <<"ADD">>, <<"LDII">>, <<"RET1", 1>>>>, 15, 1, 1),
  \* A function without a result, which clobbers what it can: its own frame.
  Code(<<<<"LOCALS", 2>>, <<"INT", 7>>, <<"STAI", -1>>, <<"STAI", -2>>, <<"STPI", 0>>, <<"POP">>, <<"RET", 1>>>>, 16, 1, 0),
  Data(<<0, 3, 0>>, 20),                  \* Static, one word, and what is beside it
  Data(<<27, 6>>, 24),                    \* Instance: vtable, field
  Data(<<10, 5>>, 27),                    \* VTable: the class, the method
  Data(<<2>>, 29),                        \* TypeOf
  Data(<<3, 1, 0, 0 - 1>>, 30),           \* Chars: a length and characters
  Data(<<30>>, 34),                       \* Literal: a string
  Data(<<0, 0, 0>>, 35),                  \* Cases: an enumeration's instances
  Data(<<39>>, 38),                       \* Abstract: an object whose method is abstract
  Data(<<10, 0 - 1>>, 39),                \* AbstractTable
  \* What is at an address, and one more than that.
  Code(<<<<"LOCALS", 0>>, <<"LDPA", 0>>, <<"LDII">>, <<"RET1", 1>>>>, 17, 1, 1),
  Code(<<<<"LOCALS", 1>>, <<"LDPA", 0>>, <<"CALL", Reads>>, <<"INT", 1>>, <<"ADD">>, <<"RET1", 1>>>>, 18, 1, 1) >>

ASSUME CompiledLibrary ==
  LET Param(i) == [op |-> "PARAM", at |-> i]
  IN  /\ MCLibrary[1].text =
           Target!generateFunction([op |-> "ADD", l |-> Param(0), r |-> [op |-> "INT", value |-> 1]], 0, 1)
      /\ MCLibrary[2].text = Target!generateFunction([op |-> "SUB", l |-> Param(0), r |-> Param(1)], 0, 2)

Program(text, start, outcomes) == [text |-> text, start |-> start, outcomes |-> outcomes]

-----------------------------------------------------------------------------
(* Compiled trees.                                                           *)

T2(o, x, y) == [op |-> o, l |-> x, r |-> y]
Leaves == {[op |-> "INT", value |-> 3], [op |-> "INT", value |-> -2], [op |-> "AUTO", at |-> 1],
           [op |-> "ASSIGN", at |-> 1, l |-> [op |-> "INT", value |-> 2]]}
BinaryTrees(L, R) == {T2(o, x, y) : o \in Target!Arithmetics \cup Target!Comparisons \cup
                                           {"LOGICAL_AND", "LOGICAL_OR", "SEQUENCE"}, x \in L, y \in R}
CallTrees(L, R) ==
  {[op |-> "CALL", f |-> "first", args |-> <<x>>] : x \in L} \cup
  {[op |-> "CALL", f |-> "second", args |-> <<x, y>>] : x \in L, y \in R} \cup
  {[op |-> "CALL", f |-> "last", args |-> <<x, y>>] : x \in R, y \in L} \cup
  {[op |-> "CALL", f |-> "last", args |-> <<x, y, x>>] : x \in R, y \in L}
Trees(L, R) ==
  BinaryTrees(L, R) \cup CallTrees(L, R) \cup
  {[op |-> o, l |-> x] : o \in {"NEG", "NOT"}, x \in L} \cup
  {[op |-> "ASSIGN", at |-> 1, l |-> x] : x \in L} \cup
  {[op |-> "CONDITIONAL", test |-> x, l |-> y, r |-> x] : x \in L, y \in R}

Compiled(trees) ==
  {Program(Target!generateFunction(t, 1, 0), 0, {Target!Eval(t, <<0>>).value}) :
     t \in {u \in trees : Target!Eval(u, <<0>>).fits}}

Level1 == Trees(Leaves, Leaves)
Level2 == Trees({t \in Level1 : t.op = "LOGICAL_AND" \/ (t.op = "CALL" /\ t.f = "last")}, {[op |-> "AUTO", at |-> 1]})

-----------------------------------------------------------------------------
(* Routines.  Each leaves one word, which must be the given one: the outcome  *)
(* is 1.                                                                      *)

Wide == {-77, -3, 5, 30}
Leaving(text, w) == Program(text \o <<<<"LONG", w>>, <<"EQL">>, <<"RET1", 0>>>>, 0, {1})
Failing(text) == Program(text \o <<<<"RET1", 0>>>>, 0, {})
Narrow(v, w, signed) == IF w = "long" THEN v ELSE IF signed THEN Signed(v, w) ELSE Unsigned(v, w)

Through == {
  <<"STAB", "LDAB", "byte", FALSE>>, <<"STAS", "LDAC", "short", FALSE>>, <<"STAI", "LDAI", "int", TRUE>>,
  <<"STAI", "LDAU", "int", FALSE>>, <<"STAA", "LDAA", "long", TRUE>>}
ThroughParameter == {
  <<"STPB", "LDPB", "byte", FALSE>>, <<"STPS", "LDPC", "short", FALSE>>, <<"STPS", "LDPS", "short", TRUE>>,
  <<"STPI", "LDPI", "int", TRUE>>, <<"STPI", "LDPU", "int", FALSE>>, <<"STPL", "LDPL", "long", TRUE>>,
  <<"STPA", "LDPA", "long", TRUE>>}
ThroughStatic == {
  <<"STSB", "LDSB", "byte", FALSE>>, <<"STSC", "LDSC", "short", FALSE>>, <<"STSS", "LDSS", "short", TRUE>>,
  <<"STSI", "LDSI", "int", TRUE>>, <<"STSI", "LDSU", "int", FALSE>>}
Indirect == {
  <<"STIB", "LDIB", "byte", FALSE>>, <<"STIC", "LDIC", "short", FALSE>>, <<"STII", "LDII", "int", TRUE>>,
  <<"STII", "LDIU", "int", FALSE>>, <<"STIL", "LDIL", "long", TRUE>>, <<"STIA", "LDIA", "long", TRUE>>}
Variable == {
  <<"STVB", "LDIB", "byte", FALSE>>, <<"STVS", "LDIC", "short", FALSE>>, <<"STVI", "LDII", "int", TRUE>>,
  <<"STVA", "LDIA", "long", TRUE>>}

Stores == UNION {
  {Leaving(<<<<"LOCALS", 3>>, <<"LONG", v>>, <<s[1], -2>>, <<"POP">>, <<s[2], -2>>>>, Narrow(v, s[3], s[4])) : s \in Through, v \in Wide},
  {Leaving(<<<<"LOCALS", 0>>, <<"LONG", v>>, <<s[1], 1>>, <<"POP">>, <<s[2], 1>>>>, Narrow(v, s[3], s[4])) : s \in ThroughParameter, v \in Wide},
  {Leaving(<<<<"LOCALS", 0>>, <<"LONG", v>>, <<s[1], Static>>, <<"POP">>, <<s[2], Static>>>>, Narrow(v, s[3], s[4])) : s \in ThroughStatic, v \in Wide},
  {Leaving(<<<<"LOCALS", 3>>, <<"LONG", v>>, <<"AUTO", -2>>, <<s[1]>>, <<"POP">>, <<"AUTO", -2>>, <<s[2]>>>>, Narrow(v, s[3], s[4])) : s \in Indirect, v \in Wide},
  {Leaving(<<<<"LOCALS", 0>>, <<"SP", 2>>, <<"LONG", v>>, <<s[1], 2>>, <<"POP">>, <<s[2]>>, <<"VARG1", 2>>>>, Narrow(v, s[3], s[4])) : s \in Variable, v \in Wide}}

\* The word beside the one stored is as it was.
Beside == UNION {
  {Leaving(<<<<"LOCALS", 0>>, <<"LONG", 5>>, <<"STSA", Static>>, <<"POP">>, <<"LDSA", Static>>>>, 5)},
  {Leaving(<<<<"LOCALS", 3>>, <<"LONG", v>>, <<s[1], -2>>, <<"POP">>, <<"LDAA", i>>>>, 0) : s \in Through, v \in {-77}, i \in {-1, -3}},
  {Leaving(<<<<"LOCALS", 3>>, <<"LONG", v>>, <<"AUTO", -2>>, <<s[1]>>, <<"POP">>, <<"LDAA", i>>>>, 0) : s \in Indirect, v \in {-77}, i \in {-1, -3}},
  {Leaving(<<<<"LOCALS", 0>>, <<"LONG", v>>, <<s[1], Static>>, <<"POP">>, <<"ADDR", Static>>, <<"INT", 1>>, <<"ADD">>, <<"LDIA">>>>, 3) : s \in ThroughStatic, v \in {-77}}}

\* Objects of two words, 3 and 5, by every way there is to move them.
PairOnStack == <<<<"LONG", 5>>, <<"LONG", 3>>>>
Objects ==
  {Leaving(<<<<"LOCALS", 5>>>> \o PairOnStack \o way \o <<<<"SUB">>>>, 2) : way \in {
     <<<<"STAO", -4, 2>>, <<"POPN", 2>>, <<"LDAO", -4, 2>>>>,
     <<<<"STPO", 0, 2>>, <<"POPN", 2>>, <<"LDPO", 0, 2>>>>,
     <<<<"STSO", Static, 2>>, <<"POPN", 2>>, <<"ADDR", Static>>, <<"LDIO", 2>>>>,
     <<<<"AUTO", -4>>, <<"STIO", 2>>, <<"POPN", 2>>, <<"LDAO", -4, 2>>>>,
     <<<<"STVO", 5, 2>>, <<"POPN", 2>>, <<"AVARG", 5>>, <<"LDIO", 2>>>>,
     <<<<"STPO", 0, 2>>, <<"POPN", 2>>, <<"PARAMS", 0>>, <<"LDIO", 2>>>>,
     <<<<"STAO", -4, 2>>, <<"ZERO_A", -3, 1>>, <<"LDPA", 1>>, <<"POP">>, <<"POPN", 2>>, <<"LDAO", -4, 2>>, <<"POPN", 2>>>> \o PairOnStack,
     <<<<"SWAP">>, <<"SWAP">>>>}} \cup
  {Leaving(<<<<"LOCALS", 5>>>> \o PairOnStack \o <<<<"STAO", -4, 2>>, <<"POPN", 2>>>> \o zero \o <<<<"LDAO", -4, 2>>, <<"SUB">>>>, -3) :
     zero \in {<<<<"ZERO_A", -3, 1>>>>, <<<<"AUTO", -3>>, <<"ZERO_I", 1>>>>}}
PopThrough == {Leaving(<<<<"LOCALS", 2>>, <<"AUTO", -1>>, <<"INT", v>>, <<"POPIA">>, <<"POP">>, <<"LDAI", -1>>>>, v) : v \in {-3, 5}}

\* Laws of arithmetic on whole words.
With2(x, y, text) == Leaving(<<<<"LOCALS", 2>>, <<"LONG", x>>, <<"STAA", -1>>, <<"POP">>, <<"LONG", y>>, <<"STAA", -2>>, <<"POP">>>> \o text, 0)
X == <<<<"LDAA", -1>>>>  Y == <<<<"LDAA", -2>>>>
Laws == {With2(x, y, text) : x \in Wide, y \in {-3, 5}, text \in {
  X \o Y \o <<<<"DIV">>>> \o Y \o <<<<"MUL">>>> \o X \o Y \o <<<<"REM">>, <<"ADD">>>> \o X \o <<<<"SUB">>>>,
  X \o Y \o <<<<"OR">>>> \o X \o Y \o <<<<"AND">>, <<"ADD">>>> \o X \o Y \o <<<<"ADD">>, <<"SUB">>>>,
  X \o Y \o <<<<"OR">>>> \o X \o Y \o <<<<"AND">>, <<"SUB">>>> \o X \o Y \o <<<<"XOR">>, <<"SUB">>>>,
  X \o <<<<"BCM">>, <<"INT", 1>>, <<"ADD">>>> \o X \o <<<<"ADD">>>>,
  X \o <<<<"NEG">>>> \o X \o <<<<"ADD">>>>,
  X \o <<<<"NOT">>, <<"NOT">>>> \o X \o <<<<"INT", 0>>, <<"NEL">>, <<"SUB">>>> }} \cup
  {With2(x, y, X \o Y \o <<<<op>>, <<"DUP">>>> \o X \o <<<<"EQL">>, <<"NOT">>, <<"AND">>>> ) : x \in {0}, y \in {1}, op \in {"MUL"}} \cup
  {With2(x, y, X \o Y \o <<<<"LSH">>>> \o Y \o <<<<op>>>> \o X \o <<<<"SUB">>>>) : x \in {5, 3}, y \in {2}, op \in {"RSH", "URS"}} \cup
  {With2(x, 2, X \o Y \o <<<<"RSH">>>> \o Y \o <<<<"LSH">>>> \o X \o <<<<"SUB">>, <<"INT", 0>>, <<"GTL">>>>) : x \in Wide}

\* Of every two values one is less, or they are equal; unsigned ints too.
Families == {<<"GTI", "GEI", "LTI", "LEI", "EQI", "NEI">>, <<"GTU", "GEU", "LTU", "LEU", "EQI", "NEI">>,
             <<"GTL", "GEL", "LTL", "LEL", "EQL", "NEL">>}
Order == {With2(x, y, text) : x \in Wide, y \in {-77, 5}, text \in UNION {{
  X \o Y \o <<<<f[1]>>>> \o X \o Y \o <<<<f[5]>>, <<"ADD">>>> \o X \o Y \o <<<<f[3]>>, <<"ADD">>, <<"INT", 1>>, <<"SUB">>>>,
  X \o Y \o <<<<f[2]>>>> \o X \o Y \o <<<<f[3]>>, <<"ADD">>, <<"INT", 1>>, <<"SUB">>>>,
  X \o Y \o <<<<f[4]>>>> \o X \o Y \o <<<<f[1]>>, <<"ADD">>, <<"INT", 1>>, <<"SUB">>>>,
  X \o Y \o <<<<f[6]>>>> \o X \o Y \o <<<<f[5]>>, <<"ADD">>, <<"INT", 1>>, <<"SUB">>>>,
  X \o Y \o <<<<f[1]>>>> \o Y \o X \o <<<<f[3]>>, <<"SUB">>>> } : f \in Families}}
Conversions == {Leaving(<<<<"LOCALS", 0>>, <<"LONG", v>>, <<c[1]>>>>, Narrow(v, c[2], c[3])) : v \in Wide,
  c \in {<<"CVTBI", "byte", FALSE>>, <<"CVTCI", "short", FALSE>>, <<"CVTIL", "int", TRUE>>, <<"CVTUL", "int", FALSE>>}}
Less == {Leaving(<<<<"LOCALS", 0>>, <<"LONG", -1>>, <<"LONG", 5>>, <<op[1]>>>>, op[2]) :
           op \in {<<"LTI", 1>>, <<"LTL", 1>>, <<"LTU", 0>>, <<"GTU", 1>>}}

-----------------------------------------------------------------------------
(* Variants, jumps, calls, the heap, functions of the runtime.               *)

V(v) == <<<<"LONG", v>>, <<"LONG", 2>>, <<"CVTLV">>>>
OtherKind(v) == <<<<"LONG", v>>, <<"VALUE", TypeOf>>, <<"CVTAV">>>>
Variants ==
  {Leaving(<<<<"LOCALS", 5>>>> \o V(5) \o way, 5) : way \in {
     <<<<"STAV", -4>>, <<"POPN", 2>>, <<"AUTO", -4>>, <<"LDIV">>, <<"CVTVI">>>>,
     <<<<"AUTO", -4>>, <<"STIV">>, <<"POPN", 2>>, <<"LDAO", -4, 2>>, <<"CVTVA">>>>,
     <<<<"STVV", 4>>, <<"POPN", 2>>, <<"AVARG", 4>>, <<"LDIV">>, <<"CVTVS">>>>} } \cup
  {Leaving(<<<<"LOCALS", 0>>>> \o V(5) \o <<<<"CLASSV">>>>, 2)} \cup
  {Leaving(<<<<"LOCALS", 0>>>> \o V(14) \o V(3) \o <<<<op[1]>>, <<"CVTVI">>>>, op[2]) : op \in {
     <<"ADDV", 17>>, <<"SUBV", 11>>, <<"MULV", 42>>, <<"DIVV", 4>>, <<"REMV", 2>>, <<"LSHV", 112>>,
     <<"RSHV", 1>>, <<"URSV", 1>>, <<"ANDV", 2>>, <<"ORV", 15>>, <<"XORV", 13>>}} \cup
  {Leaving(<<<<"LOCALS", 0>>>> \o V(x) \o V(y) \o <<<<op>>>>, Truth(
      CASE op \in {"EQV", "NLGV"} -> x = y [] op \in {"NEV", "LGV"} -> x # y
        [] op \in {"GTV", "NLEV"} -> x > y [] op \in {"GEV", "NLV"} -> x >= y
        [] op \in {"LTV", "NGEV"} -> x < y [] op \in {"LEV", "NGV"} -> x <= y)) :
      op \in VariantRelations, x \in {-3, 5}, y \in {-3, 5}} \cup
  {Leaving(<<<<"LOCALS", 0>>>> \o V(5) \o OtherKind(5) \o <<<<op[1]>>>>, op[2]) : op \in {<<"EQV", 0>>, <<"NEV", 1>>}}

\* A sum down from 3; switches; each case leaves its number.
Jumps ==
  {Leaving(<<<<"LOCALS", 2>>, <<"INT", 3>>, <<"STAI", -1>>, <<"POP">>, <<"LDAI", -1>>, <<"JZ", 17>>, <<"LDAI", -2>>, <<"LDAI", -1>>, <<"ADD">>, <<"STAI", -2>>, <<"POP">>, <<"LDAI", -1>>, <<"INT", 1>>, <<"SUB">>, <<"STAI", -1>>, <<"POP">>, <<"JMP", 4>>, <<"LDAI", -2>>>>, 6)} \cup
  {Leaving(<<<<"LOCALS", 0>>, <<"INT", v>>, <<"SWITCHI", 2, 7, 3, 3, -2, 5>>,
             <<"INT", 1>>, <<"JMP", 8>>, <<"INT", 2>>, <<"JMP", 8>>, <<"INT", 0>>>>,
           CASE v = 3 -> 1 [] v = -2 -> 2 [] OTHER -> 0) : v \in {3, -2, 5}} \cup
  {Leaving(<<<<"LOCALS", 0>>, <<"ADDR", Cases>>, <<"INT", v>>, <<"ADD">>, <<"SWITCHE", 2, 9, Cases, 0, 5, Cases, 2, 7>>,
             <<"INT", 1>>, <<"JMP", 10>>, <<"INT", 2>>, <<"JMP", 10>>, <<"INT", 0>>>>,
           CASE v = 0 -> 1 [] v = 2 -> 2 [] OTHER -> 0) : v \in {0, 1, 2}}

Calls1 ==
  {Leaving(<<<<"LOCALS", 1>>, <<"INT", 2>>, <<"STAI", -1>>, <<"POP">>, <<"INT", 5>>, <<"CALL", Pair>>, <<"SUB">>, <<"LDAI", -1>>, <<"ADD">>>>, 4),
   Leaving(<<<<"LOCALS", 0>>, <<"INT", 5>>, <<"VALUE", 1>>, <<"ICALL">>>>, 6),
   Leaving(<<<<"LOCALS", 0>>, <<"ADDR", Instance>>, <<"VCALL", 1, -1>>>>, 6),
   Leaving(<<<<"LOCALS", 0>>, <<"ADDR", Instance>>, <<"LDTR">>>>, 2),
   Leaving(<<<<"LOCALS", 1>>, <<"INT", 4>>, <<"STAI", -1>>, <<"CALL", Nothing>>, <<"LDAI", -1>>>>, 4),
   Program(<<<<"LOCALS", 0>>, <<"INT", 4>>, <<"INT", 3>>, <<"RETN", 2, 0>>>>, 0, {3}),
   Program(<<<<"LOCALS", 0>>>>, -1, {}), Program(<<<<"LOCALS", 0>>>>, 18, {}),
   Leaving(<<<<"LOCALS", 0>>, <<"ADDR", Instance>>, <<"INT", 1>>, <<"ADD">>, <<"CALL", CallsReads>>>>, 7)}

BuiltInNumber(name) == CHOOSE i \in 0 .. Len(BuiltIns) - 1 : BuiltIns[i + 1].name = name
X1(name) == <<<<"XCALL", BuiltInNumber(name)>>>>
Library1 ==
  {Leaving(<<<<"LOCALS", 0>>, <<"NEW", 2>>, <<"NEW", 2>>, <<"NEL">>>>, 1),
   Leaving(<<<<"LOCALS", 0>>, <<"NEW", 2>>, <<"POP">>, <<"NEW", 4>>>>, 0),
   Leaving(<<<<"LOCALS", 1>>, <<"NEW", 3>>, <<"DUP">>, <<"STAA", -1>>, <<"DELETE">>, <<"NEW", 4>>, <<"SUB">>>>, 0),
   Leaving(<<<<"LOCALS", 1>>, <<"INT", 1>>>> \o X1("assert") \o <<<<"INT", 5>>>>, 5),
   Failing(<<<<"LOCALS", 1>>, <<"INT", 4>>>> \o X1("assert")),
   Leaving(<<<<"LOCALS", 0>>, <<"INT", 1>>>> \o X1("supportedTarget") \o X1("runningTarget") \o <<<<"SUB">>>>, 0),
   Leaving(<<<<"LOCALS", 0>>, <<"INT", 7>>, <<"INT", 2>>>> \o X1("supportedTarget") \o <<<<"ADD">>>>, 6),
   Leaving(<<<<"LOCALS", 2>>, <<"INT", 7>>, <<"INT", 1>>, <<"AUTO", -2>>>> \o X1("print") \o <<<<"POP">>, <<"POP">>>>, 7),
   Leaving(<<<<"LOCALS", 0>>, <<"INT", 7>>, <<"INT", 1>>, <<"INT", 2>>>> \o X1("fopen") \o <<<<"POP">>>>, 7),
   Leaving(<<<<"LOCALS", 0>>, <<"INT", 7>>, <<"INT", 1>>, <<"INT", 1>>, <<"INT", 1>>, <<"INT", 2>>>> \o X1("fread") \o <<<<"POP">>>>, 7),
   Program(<<<<"LOCALS", 1>>, <<"INT", 2>>>> \o X1("allocz") \o <<<<"DUP">>, <<"STAA", -1>>, <<"JZ", 14>>, <<"INT", 1>>, <<"INT", 6>>, <<"LDAA", -1>>>> \o X1("memset") \o <<<<"LDII">>, <<"LDAA", -1>>>> \o X1("free") \o <<<<"RET1", 0>>, <<"INT", 3>>, <<"RET1", 0>>>>, 0, {6, 3}),
   Leaving(<<<<"LOCALS", 2>>, <<"LONG", 5>>, <<"STAA", -1>>, <<"POP">>, <<"INT", 1>>, <<"AUTO", -1>>, <<"AUTO", -2>>>> \o X1("memcpy") \o <<<<"LDIA">>>>, 5),
   Leaving(<<<<"LOCALS", 0>>, <<"STRING", Literal>>, <<"INT", 0>>, <<"CHAR_AT">>>>, 1),
   Leaving(<<<<"LOCALS", 0>>, <<"ASTRING", Chars>>, <<"INT", 2>>, <<"CHAR_AT">>>>, -1),
   Leaving(<<<<"LOCALS", 0>>, <<"LDSA", Literal>>, <<"INT", 0>>, <<"CHAR_AT">>>>, 1)}

Bad == <<<<"LOCALS", 2>>, <<"INT", 0>>>>
Failures ==
  {Failing(<<<<"LOCALS", 1>>, <<"INT", 3>>, <<"INT", 0>>, <<"CALL", CallsReads>>>>),
   Failing(<<<<"LOCALS", 0>>, <<"INT", 0>>, <<"VALUE", Reads>>, <<"ICALL">>>>)} \cup
  {Failing(Bad \o x) : x \in {<<<<"LDII">>>>, <<<<"LDIU">>>>, <<<<"LDIV">>>>, <<<<"LDIO", 2>>>>, <<<<"INT", 0>>, <<"STII">>>>, <<<<"INT", 3>>, <<"STIB">>>>,
     <<<<"DUP">>, <<"STIO", 1>>>>, <<<<"DUP">>, <<"STIV">>>>, <<<<"INT", 1>>, <<"POPIA">>>>, <<<<"ICALL">>>>, <<<<"VCALL", 1, -1>>>>, <<<<"LDTR">>>>, <<<<"ZERO_I", 1>>>>,
     <<<<"INT", 0>>, <<"CHAR_AT">>>>, <<<<"CHKSTK", 2>>>>, <<<<"INT", 4>>>> \o X1("assert")}} \cup
  {Failing(<<<<"LOCALS", 0>>, <<"INT", 1>>, <<"INT", 1>>, IF op \in {"INVOKE", "LDAS"} THEN <<op, 1>> ELSE <<op>>>>) :
     op \in NotExecuted} \cup
  {Failing(<<<<"LOCALS", 0>>, <<"ADDR", Abstract>>, <<"VCALL", 1, -1>>>>)}

MCPrograms == Compiled(Level1) \cup Compiled(Level2) \cup Stores \cup Beside \cup Objects \cup PopThrough
              \cup Laws \cup Order \cup Conversions \cup Less \cup Variants \cup Jumps \cup Calls1 \cup Library1 \cup Failures

\* A pointer through a static variable.
StaticPointers == {Leaving(<<<<"LOCALS", 0>>, <<"LONG", v>>, <<"STSA", Static>>, <<"POP">>, <<"LDSA", Static>>>>, v) : v \in Wide}

=============================================================================
