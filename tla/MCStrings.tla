------------------------------ MODULE MCStrings ------------------------------
EXTENDS StringsProps, TLC

MCCode == "." :> 1 @@ "/" :> 2 @@ "a" :> 3

MCLiterals == {<<>>, <<"/", "a">>, <<"a", ".", "a">>}

MCExtensions == {<<>>, <<"a">>, <<".", "a">>}

NamesAlike == Permutations(Names)
=============================================================================
