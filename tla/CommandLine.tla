----------------------------- MODULE CommandLine -----------------------------
(* Command of command_line.h, its two dictionaries and its vector, and main.cc,  *)
(* which defines its options, parses once and either prints the help, which ends *)
(* the program, or runs the image the first final argument names.  A word of the *)
(* command line is a sequence of symbols; a long name is one symbol, as is a      *)
(* letter.                                                                        *)
EXTENDS Dictionary, Vector

CONSTANTS
  Options,     \* [class, short, long] of the arguments that may be defined
  Code,        \* the order of names and of letters
  FinalMin,    \* _finalMin
  FinalMax,    \* _finalMax
  Texts,       \* bound: words given as values
  Finals,      \* bound: sequences of words given as final arguments
  MaxDefined,  \* bound: arguments defined
  MaxWords     \* bound: words on the command line

None == ""   \* a null long name, or no letter

VARIABLES
  arguments,     \* the arguments, by the order they were constructed in
  handles,       \* those the client got a pointer to
  shortOptions,  \* _shortOptions
  longOptions,   \* _longOptions
  allArguments,  \* _allArguments
  helpArgument,  \* _helpArgument
  phase,         \* "defining", "helped" or "running"
  final,         \* _finalArgv, its length is _finalArgc
  printed,       \* the arguments in the order the help lists them
  meant          \* what the user means by the words given to parse()

vars == <<arguments, handles, shortOptions, longOptions, allArguments, helpArgument,
          phase, final, printed, meant>>

Init ==
  /\ arguments = <<>> /\ handles = {}
  /\ shortOptions = Cleared /\ longOptions = Cleared
  /\ allArguments = NoElements /\ helpArgument = 0
  /\ phase = "defining" /\ final = <<>> /\ printed = <<>>
  /\ meant = [items |-> <<>>, unknown |-> FALSE, final |-> <<>>]

-----------------------------------------------------------------------------
(* stringArgument(), booleanArgument(), helpArgument()                         *)

Argument(option) ==
  [class |-> option.class, short |-> option.short, long |-> option.long,
   set |-> FALSE, value |-> IF option.class = "STRING" THEN <<>> ELSE FALSE]

(* The letter is looked up first; the long name of an argument whose letter is   *)
(* refused is never entered.                                                     *)
Define(option) ==
  LET id == Len(arguments) + 1
      newShort == option.short = None \/ ~Has(shortOptions, <<option.short>>)
      newLong == option.long = None \/ ~Has(longOptions, <<option.long>>)
      accepted == newShort /\ newLong
  IN  /\ phase = "defining" /\ id <= MaxDefined
      /\ option.class = "HELP" => helpArgument = 0
      /\ arguments' = Append(arguments, Argument(option))
      /\ allArguments' = PushBack(allArguments, id)
      /\ shortOptions' = IF option.short = None THEN shortOptions
                         ELSE Put(shortOptions, <<option.short>>, id)
      /\ longOptions' = IF option.long = None \/ ~newShort THEN longOptions
                        ELSE Put(longOptions, <<option.long>>, id)
      /\ handles' = IF accepted THEN handles \cup {id} ELSE handles
      /\ helpArgument' = IF accepted /\ option.class = "HELP" THEN id ELSE helpArgument
      /\ UNCHANGED <<phase, final, printed, meant>>

-----------------------------------------------------------------------------
(* parse() over the words argv[1], argv[2], ... with what it has found so far in *)
(* s: the arguments, the next word i, whether a name is unknown, whether it left *)
(* the loop.                                                                     *)

WithValue(argument, value) ==
  [argument EXCEPT !.set = TRUE,
                   !.value = IF argument.class = "STRING" THEN value
                             ELSE value # <<"false">>]

LongOption(s, word) ==
  LET body == SubSeq(word, 3, Len(word))
      equals == SelectInSeq(body, LAMBDA c : c = "=")
      key == IF equals = 0 THEN body ELSE SubSeq(body, 1, equals - 1)
      value == IF equals = 0 THEN <<>> ELSE SubSeq(body, equals + 1, Len(body))
      b == Get(longOptions, key)
  IN  IF b = 0 THEN [s EXCEPT !.unknown = TRUE]
      ELSE [s EXCEPT !.arguments[b] = WithValue(@, value), !.i = @ + 1]

(* Defect: the word taken as a value is read again as an argument.            *)
TakesNextAgain(c, n, argv) == FALSE

(* A letter of a string takes the rest of its word, or else the next word,      *)
(* whatever that is.                                                             *)
TakesNext(c, n, argv) == n = Len(argv[c.i]) /\ c.i < Len(argv)

Letter(c, n, argv) ==
  LET word == argv[c.i]
      b == Get(shortOptions, <<word[n]>>)
  IN  IF c.unknown \/ c.taken THEN c
      ELSE IF b = 0 THEN [c EXCEPT !.unknown = TRUE]
      ELSE IF arguments[b].class # "STRING" THEN [c EXCEPT !.arguments[b] = WithValue(@, <<>>)]
      ELSE IF TakesNext(c, n, argv) THEN
        [c EXCEPT !.taken = TRUE, !.arguments[b] = WithValue(@, argv[c.i + 1]), !.i = @ + 1]
      ELSE [c EXCEPT !.taken = TRUE,
                     !.arguments[b] = WithValue(@, SubSeq(word, n + 1, Len(word)))]

ShortOptions(s, argv) ==
  LET after[n \in 1 .. Len(argv[s.i])] == IF n = 1 THEN s ELSE Letter(after[n - 1], n, argv)
  IN  [after[Len(argv[s.i])] EXCEPT !.i = @ + 1, !.taken = FALSE]

Dashes(word) ==
  IF word = <<>> \/ word[1] # "-" THEN 0
  ELSE IF Len(word) > 1 /\ word[2] = "-" THEN 2 ELSE 1

Word(s, n, argv) ==
  IF s.unknown \/ s.ended \/ n # s.i THEN s
  ELSE IF Dashes(argv[n]) = 0 \/ argv[n] = <<"-", "-">> THEN [s EXCEPT !.ended = TRUE]
  ELSE IF Dashes(argv[n]) = 2 THEN LongOption(s, argv[n])
  ELSE ShortOptions(s, argv)

Parsed(argv) ==
  LET after[n \in 0 .. Len(argv)] ==
        IF n > 0 THEN Word(after[n - 1], n, argv)
        ELSE [arguments |-> arguments, i |-> 1, taken |-> FALSE, unknown |-> FALSE,
              ended |-> FALSE]
  IN  after[Len(argv)]

Compare(a, b) ==
  IF a.long # b.long THEN Code[a.long] - Code[b.long] ELSE Code[b.short] - Code[a.short]

(* help() sorts the vector, lists it and ends the program.                     *)
Help ==
  LET sorted == Sort(allArguments,
                     [a \in DOMAIN arguments |->
                        [b \in DOMAIN arguments |-> Compare(arguments[a], arguments[b])]])
  IN  /\ allArguments' = sorted /\ printed' = Elements(sorted)
      /\ phase' = "helped"

(* parse() and parseCommandLine() of main.cc, which gives up without a name of  *)
(* an image.                                                                     *)
Parse(argv, meaning) ==
  LET s == Parsed(argv)
      rest == SubSeq(argv, s.i, Len(argv))
      help == helpArgument # 0 /\ s.arguments[helpArgument].value
      counts == Len(rest) \in FinalMin .. FinalMax /\ Len(rest) # 0
  IN  /\ phase = "defining"
      /\ arguments' = s.arguments /\ meant' = meaning
      /\ final' = IF s.unknown THEN final ELSE rest
      /\ IF s.unknown \/ help \/ ~counts THEN Help
         ELSE phase' = "running" /\ UNCHANGED <<allArguments, printed>>
      /\ UNCHANGED <<handles, shortOptions, longOptions, helpArgument>>

-----------------------------------------------------------------------------
(* The user, who writes options the client has a pointer to, whose names no      *)
(* later argument has taken, each in one of the forms parse() knows.             *)

Names(id) == {arguments[id].short, arguments[id].long} \ {None}
Known == {id \in handles :
            \A other \in DOMAIN arguments : other > id => Names(id) \cap Names(other) = {}}

Item(id, form, value, words) == [id |-> id, form |-> form, value |-> value, words |-> words]

(* A letter is no dash, a long name no equals sign; the user gives texts that    *)
(* are not empty, and final arguments of which the first begins with no dash.    *)
ASSUME CommandLineAssumption ==
  /\ \A o \in Options :
       /\ o.class \in {"BOOLEAN", "STRING", "HELP"}
       /\ o.short \in STRING \ {"-", "z"} /\ o.long \in STRING \ {"=", "zz"}
  /\ \A symbol \in {o.short : o \in Options} \cup {o.long : o \in Options} \cup {"z", "zz"} :
       HashValue(<<symbol>>) \in Nat
  /\ FinalMin \in Int /\ FinalMax \in Int
  /\ \A t \in Texts : t \in Seq(STRING) \ {<<>>}
  /\ \A words \in Finals : words \in Seq(Seq(STRING)) /\ (words # <<>> => Dashes(words[1]) = 0)

(* strcmp() tells any two long names apart, and no name comes before each.       *)
ASSUME CodeAssumption ==
  /\ \A o \in Options : /\ Code[o.short] \in Int /\ Code[o.long] \in Int
                        /\ o.long # None => Code[None] < Code[o.long]
  /\ \A o, p \in Options : Code[o.long] = Code[p.long] => o.long = p.long

(* What may be meant by an option, and the words for it; a "joined" letter is   *)
(* added to the word before it.                                                  *)
Forms(id) ==
  LET a == arguments[id]
      long == <<"-", "-", a.long>>
      flags == IF a.class = "STRING" THEN {}
               ELSE {Item(id, "long", TRUE, <<long>>),
                     Item(id, "long", FALSE, <<long \o <<"=", "false">>>>),
                     Item(id, "short", TRUE, <<<<"-", a.short>>>>),
                     Item(id, "joined", TRUE, <<<<a.short>>>>)}
      values == IF a.class # "STRING" THEN {}
                ELSE {Item(id, "long", <<>>, <<long>>)}
                     \cup UNION {{Item(id, "long", t, <<long \o <<"=">> \o t>>),
                                  Item(id, "short", t, <<<<"-", a.short>>, t>>),
                                  Item(id, "joined", t, <<<<a.short>>, t>>),
                                  Item(id, "last", t, <<<<"-", a.short>> \o t>>)} : t \in Texts}
  IN  {item \in flags \cup values :
         IF item.form = "long" THEN a.long # None ELSE a.short # None}

(* A letter can be joined to a word of letters that are all flags.             *)
MayFollow(item, other) ==
  other.form = "joined" => /\ item.form \in {"short", "joined"}
                           /\ arguments[item.id].class # "STRING"

Items == UNION {Forms(id) : id \in Known}
Wishes == {<<>>} \cup {<<item>> : item \in {i \in Items : i.form # "joined"}}
          \cup {pair \in Items \X Items :
                  pair[1].form # "joined" /\ MayFollow(pair[1], pair[2])}

Written(items) ==
  IF items = <<>> THEN <<>>
  ELSE IF Len(items) = 1 THEN items[1].words
  ELSE IF items[2].form = "joined"
    THEN Front(items[1].words) \o <<Last(items[1].words) \o items[2].words[1]>>
                               \o Tail(items[2].words)
  ELSE items[1].words \o items[2].words

Unknowns == {<<>>, <<<<"-", "-", "zz">>>>, <<<<"-", "z">>>>}

UserParses ==
  /\ phase = "defining"
  /\ \E items \in Wishes, unknown \in Unknowns, dashes \in BOOLEAN, words \in Finals :
      LET end == (IF dashes THEN <<<<"-", "-">>>> ELSE <<>>) \o words
          argv == Written(items) \o unknown \o end
      IN  /\ Len(argv) <= MaxWords
          /\ Parse(argv, [items |-> items, unknown |-> unknown # <<>>, final |-> end])

Next ==
  \/ \E option \in Options : Define(option)
  \/ UserParses

Spec == Init /\ [][Next]_vars
=============================================================================
