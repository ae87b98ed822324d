--------------------------- MODULE CommandLineProps ---------------------------
(* What the options of the runtime's command line promise.                       *)
EXTENDS CommandLine

(* An argument enters its letter always, its long name unless its letter was    *)
(* taken.                                                                        *)
Enters(id, field, name) ==
  /\ arguments[id][field] = name
  /\ field = "long" => \A other \in 1 .. id - 1 :
                        arguments[other].short # arguments[id].short \/ arguments[id].short = None

Owner(field, name) == Max({0} \cup {id \in DOMAIN arguments : Enters(id, field, name)})

IsMap(d, field) ==
  LET names == {o[field] : o \in Options} \ {None}
  IN  /\ d.count < d.allocated
      /\ d.count = Cardinality({name \in names : Owner(field, name) # 0})
      /\ \A name \in names : Get(d, <<name>>) = Owner(field, name)

(* Through collisions, wrap-around and the doubling of a table a name leads to   *)
(* the argument that entered it last, a name nobody entered to null, and a slot  *)
(* stays free, without which a probe for an unknown name would never end.        *)
NamesFound == IsMap(shortOptions, "short") /\ IsMap(longOptions, "long")

(* parse() reads back what was written: each argument has the value that was     *)
(* meant last, the others are as they were constructed, and the image is run     *)
(* with exactly the words behind the options (the -- among them) unless help was *)
(* asked for, a name is unknown, or the number of words is wrong.                *)
ParseRight ==
  LET about(id) == {n \in DOMAIN meant.items : meant.items[n].id = id}
      wanted(id) == meant.items[Max(about(id))].value
      helps == helpArgument # 0 /\ about(helpArgument) # {} /\ wanted(helpArgument)
  IN  phase # "defining" =>
        /\ \A id \in DOMAIN arguments :
             /\ arguments[id].set <=> about(id) # {}
             /\ arguments[id].set => arguments[id].value = wanted(id)
        /\ phase = "running" <=> /\ ~meant.unknown /\ ~helps
                                 /\ Len(meant.final) \in (FinalMin .. FinalMax) \ {0}
        /\ phase = "running" => final = meant.final

(* The help lists every argument ever defined, those that were refused too,     *)
(* exactly once, by long name, those without one first and by letter downwards.  *)
HelpComplete ==
  LET Before(a, b) ==
        \/ Code[a.long] < Code[b.long]
        \/ a.long = b.long /\ Code[a.short] >= Code[b.short]
  IN  /\ Elements(allArguments) = printed \/ Elements(allArguments) = [i \in DOMAIN arguments |-> i]
      /\ phase = "helped" =>
           /\ Len(printed) = Len(arguments)
           /\ {printed[i] : i \in DOMAIN printed} = DOMAIN arguments
           /\ \A i \in 1 .. Len(printed) - 1 :
                Before(arguments[printed[i]], arguments[printed[i + 1]])
=============================================================================
