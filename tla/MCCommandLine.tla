---------------------------- MODULE MCCommandLine ----------------------------
EXTENDS CommandLineProps, TLC

(* As main.cc has them (-v, --trace, -? --help), and two strings, one of which   *)
(* has the letter of another argument.                                           *)
MCOptions ==
  {[class |-> "BOOLEAN", short |-> "v", long |-> ""],
   [class |-> "BOOLEAN", short |-> "", long |-> "trace"],
   [class |-> "HELP", short |-> "?", long |-> "help"],
   [class |-> "STRING", short |-> "o", long |-> "out"],
   [class |-> "STRING", short |-> "v", long |-> "tag"]}

MCCode == "" :> 0 @@ "?" :> 1 @@ "o" :> 2 @@ "v" :> 3 @@
          "help" :> 4 @@ "out" :> 5 @@ "tag" :> 6 @@ "trace" :> 7

(* Three long names begin at the last slot of a table of four.                 *)
MCHash(key) ==
  IF Len(key) # 1 THEN 2
  ELSE IF key[1] \in {"help", "out", "trace", "zz"} THEN 7
  ELSE IF key[1] \in {"?", "v"} THEN 3 ELSE 2

MCTexts == {<<"x">>, <<"-", "v">>}
MCFinals == {<<>>, <<<<"p">>>>, <<<<"p">>, <<"-", "v">>>>}
=============================================================================
