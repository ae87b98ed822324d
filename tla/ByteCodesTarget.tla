--------------------------- MODULE ByteCodesTarget ---------------------------
(* The code that src/src/lib/byteCodes.p generates for expressions over ints, *)
(* local variables, parameters and calls, and what those expressions mean.     *)
(*                                                                           *)
(* A tree is a record with an operator "op" and its operands.  Jump labels    *)
(* are instruction numbers in the function, and stack depths count words from     *)
(* the frame pointer: the locals are counted in from the start, as the fixups   *)
(* of the source have it once a function is complete.                           *)
EXTENDS Integers, Sequences

CONSTANT IntBits  \* the number of bits of an int

\* The object index of a function, and the words its arguments occupy.
Index(f) == CASE f = "main" -> 0 [] f = "first" -> 1 [] f = "second" -> 2 [] f = "last" -> 3
ArgumentWords(f) == CASE f = "first" -> 1 [] f = "second" -> 2 [] f = "last" -> 3

Comparisons == {"LTI", "EQI"}
Arithmetics == {"ADD", "SUB", "MUL"}

checkStack(d) == <<<<"CHKSTK", d>>>>

\* A value was pushed at depth d and is dropped.
clearStack(d) == <<<<"POP">>>> \o checkStack(d)

-----------------------------------------------------------------------------

\* generate(t, at, d): the instructions for t when its first has number at and d
\* words are on the stack.  They leave one word more.
RECURSIVE generate(_, _, _)

\* generateArguments for fixed parameters: the last is generated first.
RECURSIVE fixedArguments(_, _, _)
fixedArguments(args, at, d) ==
  IF args = <<>> THEN <<>>
  ELSE LET rest == fixedArguments(Tail(args), at, d)
       IN  rest \o generate(Head(args), at + Len(rest), d + Len(args) - 1)

\* generateArguments for an ellipsis: room for all, the address of that room,
\* then each value is stored into it from its lowest address up, and the count.
RECURSIVE storeArguments(_, _, _, _)
storeArguments(args, at, d, offset) ==
  IF args = <<>> THEN <<>>
  ELSE LET value == generate(Head(args), at, d)
           store == value \o <<<<"STVI", offset>>>> \o clearStack(d)
       IN  store \o storeArguments(Tail(args), at + Len(store), d, offset - 1)
variableArguments(args, at, d) ==
  LET n == Len(args)
      room == <<<<"SP", n>>>>
  IN  room \o storeArguments(args, at + 1, d + n + 1, d + n) \o <<<<"LONG", n>>>>

\* A call of "last" passes its first argument after the ellipsis' ones.
generateCall(t, at, d) ==
  IF t.f = "last"
  THEN LET more == variableArguments(Tail(t.args), at, d)
           n == Len(t.args) - 1
           all == more \o generate(Head(t.args), at + Len(more), d + n + 2)
       IN  all \o checkStack(d + n + 3) \o <<<<"CALL", Index(t.f)>>, <<"VARG1", n>>>> \o checkStack(d + 1)
  ELSE fixedArguments(t.args, at, d) \o checkStack(d + Len(t.args))
         \o <<<<"CALL", Index(t.f)>>>> \o checkStack(d + 1)

\* The body of generate's switch, for each kind of tree.
generateBinary(t, at, d) ==
  LET l == generate(t.l, at, d)
      both == l \o generate(t.r, at + Len(l), d + 1)
  IN  IF t.op \in Comparisons THEN both \o checkStack(d + 2) \o <<<<t.op>>>> \o checkStack(d + 1)
      ELSE both \o <<<<t.op>>>>

generateLogical(t, at, d) ==
  LET l == generate(t.l, at, d)
      second == at + Len(l) + 3
      r == generate(t.r, second, d)
  IN  l \o <<<<IF t.op = "LOGICAL_AND" THEN "JNZ" ELSE "JZ", second>>,
             <<"INT", IF t.op = "LOGICAL_AND" THEN 0 ELSE 1>>,
             <<"JMP", second + Len(r)>>>> \o r

generateConditional(t, at, d) ==
  LET test == generate(t.test, at, d)
      middle == generate(t.l, at + Len(test) + 1, d)
      false == at + Len(test) + Len(middle) + 2
      right == generate(t.r, false, d)
  IN  test \o <<<<"JZ", false>>>> \o middle \o <<<<"JMP", false + Len(right)>>>> \o right

generateSequence(t, at, d) ==
  LET l == generate(t.l, at, d) \o clearStack(d)
  IN  l \o generate(t.r, at + Len(l), d)

generate(t, at, d) ==
  checkStack(d) \o
  CASE t.op = "INT"   -> <<<<"INT", t.value>>>>
    [] t.op = "AUTO"  -> <<<<"LDAI", -t.at>>>>
    [] t.op = "PARAM" -> <<<<"LDPI", t.at>>>>
    [] t.op \in Arithmetics \cup Comparisons -> generateBinary(t, at + 1, d)
    [] t.op \in {"NEG", "NOT"} -> generate(t.l, at + 1, d) \o <<<<t.op>>>>
    [] t.op \in {"LOGICAL_AND", "LOGICAL_OR"} -> generateLogical(t, at + 1, d)
    [] t.op = "CONDITIONAL" -> generateConditional(t, at + 1, d)
    [] t.op = "ASSIGN" -> generate(t.l, at + 1, d) \o <<<<"STAI", -t.at>>>>
    [] t.op = "SEQUENCE" -> generateSequence(t, at + 1, d)
    [] t.op = "CALL" -> generateCall(t, at + 1, d)

\* A function: its locals, its RETURN statement and the words it drops.  The
\* starting unit is in-line code and drops none.
generateFunction(t, locals, args) ==
  <<<<"LOCALS", locals>>>> \o checkStack(locals) \o generate(t, 2, locals) \o <<<<"RET1", args>>>>

-----------------------------------------------------------------------------
(* What the trees mean, with e the values of the local variables.              *)

Fits(v) == v \in -(2 ^ (IntBits - 1)) .. 2 ^ (IntBits - 1) - 1

\* What a tree gives: its value, the local variables it leaves, and whether
\* every operator in it yields an int that fits.  The byte codes compute whole
\* words, and differ from ints where one does not.
Gives(v, e) == [value |-> v, locals |-> e, fits |-> TRUE]
Checked(v, e) == [value |-> v, locals |-> e, fits |-> Fits(v)]
Then(x, F(_, _)) == IF x.fits THEN F(x.value, x.locals) ELSE x

Apply(op, l, r) == CASE op = "ADD" -> l + r [] op = "SUB" -> l - r [] op = "MUL" -> l * r
                     [] op = "LTI" -> IF l < r THEN 1 ELSE 0 [] op = "EQI" -> IF l = r THEN 1 ELSE 0
Called(f, args) == CASE f = "first" -> args[1] + 1 [] f = "second" -> args[1] - args[2]
                     [] f = "last" -> args[1] - args[Len(args)]

RECURSIVE Eval(_, _)

\* Fixed arguments are evaluated from the last to the first; an ellipsis' are
\* evaluated in order, and before the fixed ones.
RECURSIVE EvalAll(_, _)
EvalAll(args, e) ==
  IF args = <<>> THEN Gives(<<>>, e)
  ELSE Then(Eval(Head(args), e), LAMBDA v, f :
         Then(EvalAll(Tail(args), f), LAMBDA vs, g : Gives(<<v>> \o vs, g)))
Backward(s) == [i \in 1 .. Len(s) |-> s[Len(s) + 1 - i]]
EvalArguments(t, e) ==
  IF t.f = "last"
  THEN Then(EvalAll(Tail(t.args), e), LAMBDA vs, f :
         Then(Eval(Head(t.args), f), LAMBDA v, g : Gives(<<v>> \o vs, g)))
  ELSE Then(EvalAll(Backward(t.args), e), LAMBDA vs, f : Gives(Backward(vs), f))

EvalBoth(l, r, e, F(_, _)) ==
  Then(Eval(l, e), LAMBDA v, f : Then(Eval(r, f), LAMBDA w, g : Checked(F(v, w), g)))

Eval(t, e) ==
  CASE t.op = "INT"  -> Gives(t.value, e)
    [] t.op = "AUTO" -> Gives(e[t.at], e)
    [] t.op \in Arithmetics \cup Comparisons -> EvalBoth(t.l, t.r, e, LAMBDA v, w : Apply(t.op, v, w))
    [] t.op = "NEG"  -> Then(Eval(t.l, e), LAMBDA v, f : Checked(-v, f))
    [] t.op = "NOT"  -> Then(Eval(t.l, e), LAMBDA v, f : Gives(IF v = 0 THEN 1 ELSE 0, f))
    [] t.op = "LOGICAL_AND" -> Then(Eval(t.l, e), LAMBDA v, f : IF v = 0 THEN Gives(0, f) ELSE Eval(t.r, f))
    [] t.op = "LOGICAL_OR"  -> Then(Eval(t.l, e), LAMBDA v, f : IF v # 0 THEN Gives(1, f) ELSE Eval(t.r, f))
    [] t.op = "CONDITIONAL" -> Then(Eval(t.test, e), LAMBDA v, f : Eval(IF v # 0 THEN t.l ELSE t.r, f))
    [] t.op = "ASSIGN"   -> Then(Eval(t.l, e), LAMBDA v, f : Gives(v, [f EXCEPT ![t.at] = v]))
    [] t.op = "SEQUENCE" -> Then(Eval(t.l, e), LAMBDA v, f : Eval(t.r, f))
    [] t.op = "CALL" -> Then(EvalArguments(t, e), LAMBDA vs, f : Checked(Called(t.f, vs), f))

=============================================================================
