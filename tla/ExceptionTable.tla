---------------------------- MODULE ExceptionTable ----------------------------
(* The table that maps machine code to exception handlers: how packFunction() *)
(* of x86_encode.p builds it, and how throwException() of executionContext.cc  *)
(* finds a handler with it by walking the frames of a stack.                   *)
(*                                                                           *)
(* An image is a sequence of code segments in the order in which they are      *)
(* packed, [function, length, handler].  A function that is called is generated *)
(* in the middle of its caller and packed before it, so the segments of the     *)
(* static block, which is generated first, come last; only it has a handler.    *)
(* "handler" is the segment an exception in this one goes to, or 0.             *)
EXTENDS Integers, FiniteSets, SequencesExt

MaxInt == 99  \* int.MAX_VALUE, past every location

Offset(image, s) ==
  LET end[n \in 0 .. Len(image)] == IF n = 0 THEN 0 ELSE end[n - 1] + image[n].length
  IN  end[s - 1]
FunctionStart(image, f) == Offset(image, CHOOSE s \in DOMAIN image :
                             image[s].function = f /\ \A r \in 1 .. s - 1 : image[r].function # f)

\* Nothing is emitted without a handler while the table is empty, nor for a
\* segment that has the handler of the entry before.
emitExceptionEntry(table, location, handler) ==
  IF (handler = 0 /\ table = <<>>) \/ (table # <<>> /\ Last(table).handler = handler) THEN table
  ELSE Append(table, [location |-> location, handler |-> handler])

\* Packing a function gives each entry made since its generation began the
\* location of its handler, reckoned from where that function is packed.  The
\* static block was begun before any entry and is packed last.
Table(image) ==
  LET after[s \in 0 .. Len(image)] ==
        IF s = 0 THEN <<>>
        ELSE emitExceptionEntry(after[s - 1], Offset(image, s), image[s].handler)
      emitted == after[Len(image)]
      Main == FunctionStart(image, Last(image).function)
      Located(h) == IF h = 0 THEN 0
                    ELSE Main + (Offset(image, h) - FunctionStart(image, image[h].function))
  IN  Append([i \in DOMAIN emitted |-> [emitted[i] EXCEPT !.handler = Located(@)]],
             [location |-> MaxInt, handler |-> 0])

-----------------------------------------------------------------------------

\* Defect: a range has its first location only when nothing precedes it.
ComparedBelow(table, i, location, first) ==
  /\ table[i].location < location
  /\ IF first THEN location < table[i + 1].location ELSE location <= table[i + 1].location

\* The two comparators: whether an entry is the one of the instruction that
\* raised (first) or of one that called.
Compared(table, i, location, first) ==
  /\ table[i].location <= location
  /\ IF first THEN location < table[i + 1].location ELSE location <= table[i + 1].location

\* bsearch() returns any entry that compares equal.  The one past every location is
\* searched as well: all locations compare below it before its successor is read.
Search(table, location, first) ==
  {i \in 1 .. Len(table) : Compared(table, i, location, first)}

\* throwException(): the frames from the innermost out, each the address of its
\* next instruction; one outside of the image is not a location of it.  The
\* results are the frames a handler was found for, with its location, which
\* is 0 where the program ends instead.
throwException(image, frames) ==
  LET table == Table(image)
      end == Offset(image, Len(image) + 1)
      Location(k) == IF k = 1 THEN frames[1] ELSE frames[k] - 1
      Hits(k) == IF Location(k) \in 0 .. end - 1 THEN Search(table, Location(k), k = 1) ELSE {}
      found == {k \in DOMAIN frames : Hits(k) # {}}
      first == CHOOSE k \in found : \A j \in found : k <= j
  IN  IF found = {} THEN {[frame |-> 0, handler |-> 0]}
      ELSE {[frame |-> first, handler |-> table[i].handler] : i \in Hits(first)}

=============================================================================
