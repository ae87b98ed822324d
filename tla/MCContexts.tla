------------------------------ MODULE MCContexts ------------------------------
EXTENDS ContextsProps

Segment(function, length, handler) == [function |-> function, length |-> length, handler |-> handler]

\* A program without functions, one with a function, and one with two of them
\* and a static block of guarded segments, one of them empty.
MCImages ==
  {<<Segment("main", 2, 0), Segment("main", 3, 4), Segment("main", 2, 0), Segment("main", 2, 0)>>,
   <<Segment("f", 3, 0), Segment("main", 2, 0), Segment("main", 3, 5), Segment("main", 2, 0),
     Segment("main", 2, 0)>>,
   <<Segment("f", 3, 0), Segment("g", 2, 0), Segment("main", 1, 0), Segment("main", 0, 8),
     Segment("main", 3, 8), Segment("main", 2, 8), Segment("main", 2, 0), Segment("main", 2, 0)>>}

Byte(read) == [type |-> "byte", read |-> read]
X86 == [type |-> "x86", read |-> 2]
Other == [type |-> "other", read |-> 0]

MCFiles ==
  [sections : {<<Byte(4)>>, <<X86>>, <<Byte(4), X86>>, <<X86, Byte(4)>>, <<Byte(2)>>, <<Other>>, <<>>},
   readers : {<<"byte", "x86">>, <<"x86", "byte">>}]

=============================================================================
