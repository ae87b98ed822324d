------------------------------- MODULE Strings -------------------------------
(* The class string of runtime/common/string.h and string.cc: an object points  *)
(* to an allocation, a length and as many bytes as reserved_size() leaves, of    *)
(* which the one behind the length should be NUL; an empty string has none.      *)
EXTENDS Integers, Sequences

LOCAL INSTANCE SequencesExt
LOCAL INSTANCE FiniteSetsExt

CONSTANTS
  Names,     \* the string objects of a client
  Code,      \* the code of each character
  Header,    \* the size of the length in an allocation
  MinSize,   \* MIN_SIZE
  Literals,  \* the character arrays a client has
  MaxLength  \* bound: the length of a string object

NUL == "NUL"
Junk == "junk"   \* what malloc() leaves, or a byte beyond an allocation

ASSUME StringsAssumption ==
  /\ Header \in Nat \ {0} /\ MinSize > Header + 1
  /\ \A c \in DOMAIN Code : c \notin {NUL, Junk}

-----------------------------------------------------------------------------
(* Allocations.                                                              *)

NoContents == [length |-> 0, data |-> <<>>]

\* Defect: no room for the NUL.
ReservedWithoutNul(length) ==
  Min({n \in {MinSize * 2 ^ k : k \in 0 .. length} : n >= length + Header})

ReservedSize(length) ==
  Min({n \in {MinSize * 2 ^ k : k \in 0 .. length} : n >= length + Header + 1})

Allocation(length) ==
  [length |-> length,
   data |-> [i \in 1 .. ReservedSize(length) - Header |-> IF i = length + 1 THEN NUL ELSE Junk]]

\* memcpy() to and from the data, which may leave the allocation.
Bytes(b, from, n) ==
  [i \in 1 .. n |-> IF from + i \in DOMAIN b.data THEN b.data[from + i] ELSE Junk]

Written(b, at, bytes) ==
  LET size == Max({Len(b.data), at + Len(bytes)})
  IN  [b EXCEPT !.data = [i \in 1 .. size |-> IF i - at \in DOMAIN bytes THEN bytes[i - at] ELSE @[i]]]

\* A shorter string keeps its bytes, so nothing ends it.
Resize(b, length) ==
  IF b.length >= length THEN IF length = 0 THEN NoContents ELSE [b EXCEPT !.length = length]
  ELSE IF b.length # 0 /\ ReservedSize(b.length) = ReservedSize(length)
    THEN [b EXCEPT !.length = length]
  ELSE IF b.length = 0 THEN Allocation(length)
  ELSE Written(Allocation(length), 0, Bytes(b, 0, b.length + 1))

\* The characters from an offset on, as C reads them.
CString(b, from) ==
  LET rest == Bytes(b, from, Len(b.data) - from)
      end == SelectInSeq(rest, LAMBDA c : c = NUL)
  IN  IF end = 0 THEN rest \o <<Junk>> ELSE SubSeq(rest, 1, end - 1)

Value(b) == SubSeq(b.data, 1, b.length)

-----------------------------------------------------------------------------
(* Constructors and operations.                                              *)

FromText(text) ==
  IF text = <<>> THEN NoContents
  ELSE Written(Resize(NoContents, Len(text)), 0, text \o <<NUL>>)

\* The copy of a string, with the byte behind it.
Copied(b) ==
  IF b.length = 0 THEN NoContents
  ELSE Written(Resize(NoContents, b.length), 0, Bytes(b, 0, b.length + 1))

Appended(b, t) ==
  IF t.length = 0 THEN b
  ELSE Written(Resize(b, b.length + t.length), b.length, Bytes(t, 0, t.length + 1))

AppendText(b, text) == Written(Resize(b, b.length + Len(text)), b.length, text \o <<NUL>>)

PushBack(b, c) == Written(Resize(b, b.length + 1), b.length, <<c, NUL>>)

Plus(b, t) ==
  LET sum == Written(Resize(NoContents, b.length + t.length), 0, Bytes(b, 0, b.length))
  IN  IF t.length = 0 THEN sum ELSE Written(sum, b.length, Bytes(t, 0, t.length + 1))

npos == -1

\* A count that fits the string but not what is behind the offset is taken.
Substr(b, offset, count) ==
  LET o == Min({offset, b.length})
      n == IF count = npos \/ count > b.length THEN b.length - o ELSE count
  IN  IF n = 0 THEN NoContents
      ELSE Written(Resize(NoContents, n), 0, Bytes(b, o, n) \o <<NUL>>)

Find(b, c) == SelectInSeq(Value(b), LAMBDA d : d = c) - 1
RFind(b, c) == SelectLastInSeq(Value(b), LAMBDA d : d = c) - 1

Split(b, delimiter) ==
  LET cuts == <<0>> \o SetToSortSeq({i \in 1 .. b.length : b.data[i] = delimiter}, <)
                    \o <<b.length + 1>>
  IN  IF Len(cuts) = 2 THEN <<Copied(b)>>
      ELSE [k \in 1 .. Len(cuts) - 1 |-> FromText(SubSeq(b.data, cuts[k] + 1, cuts[k + 1] - 1))]

BeginsWith(b, prefix) ==
  prefix.length <= b.length /\ Bytes(b, 0, prefix.length) = Value(prefix)

\* No string ends with itself or with the empty string.
EndsWith(b, suffix) ==
  /\ suffix.length < b.length /\ suffix.length # 0
  /\ CString(suffix, 0) = CString(b, b.length - suffix.length)

Equal(b, t) == b.length = t.length /\ Bytes(b, 0, b.length) = Bytes(t, 0, b.length)

\* The sign of compare(), and less: the first difference counts, then the length.
Compare(b, t) ==
  LET n == Min({b.length, t.length})
      differ == {i \in 1 .. n : b.data[i] # t.data[i]}
  IN  IF differ = {} THEN b.length - t.length
      ELSE Code[b.data[Min(differ)]] - Code[t.data[Min(differ)]]
Less(b, t) == Compare(b, t) < 0

-----------------------------------------------------------------------------
(* A client, which appends no string to itself, and "" to none that is empty.  *)

VARIABLES
  strings,  \* the contents of each object
  meant,    \* (history) the characters it should have
  cut       \* (history) resize() made it, or what it was copied from, shorter

vars == <<strings, meant, cut>>

Init ==
  /\ strings = [s \in Names |-> NoContents]
  /\ meant = [s \in Names |-> <<>>]
  /\ cut = [s \in Names |-> FALSE]

Becomes(s, b, value, unended) ==
  /\ Len(value) <= MaxLength
  /\ strings' = [strings EXCEPT ![s] = b]
  /\ meant' = [meant EXCEPT ![s] = value]
  /\ cut' = [cut EXCEPT ![s] = unended]

Construct(s) == \E text \in Literals : Becomes(s, FromText(text), text, FALSE)

Clear(s) == Becomes(s, NoContents, <<>>, FALSE)

\* operator= and the copy constructor
Assign(s, t) == s # t /\ Becomes(s, Copied(strings[t]), meant[t], cut[t])

AppendString(s, t) ==
  /\ s # t
  /\ Becomes(s, Appended(strings[s], strings[t]), meant[s] \o meant[t],
             IF meant[t] = <<>> THEN cut[s] ELSE cut[t])

AppendLiteral(s) ==
  \E text \in Literals :
    /\ meant[s] # <<>> \/ text # <<>>
    /\ Becomes(s, AppendText(strings[s], text), meant[s] \o text, FALSE)

PushCharacter(s) ==
  \E c \in DOMAIN Code : Becomes(s, PushBack(strings[s], c), meant[s] \o <<c>>, FALSE)

Concatenate(s, t, u) ==
  Becomes(s, Copied(Plus(strings[t], strings[u])), meant[t] \o meant[u],
          meant[u] # <<>> /\ cut[u])

TakePart(s, t) ==
  \E o \in 0 .. Len(meant[t]) : \E n \in 0 .. Len(meant[t]) - o :
    Becomes(s, Copied(Substr(strings[t], o, n)), SubSeq(meant[t], o + 1, o + n), FALSE)

Shorten(s) ==
  \E n \in 0 .. Len(meant[s]) - 1 :
    Becomes(s, Resize(strings[s], n), SubSeq(meant[s], 1, n), n # 0)

Next ==
  \E s \in Names :
    \/ Construct(s) \/ Clear(s) \/ AppendLiteral(s) \/ PushCharacter(s) \/ Shorten(s)
    \/ \E t \in Names :
         \/ Assign(s, t) \/ AppendString(s, t) \/ TakePart(s, t)
         \/ \E u \in Names : Concatenate(s, t, u)

Spec == Init /\ [][Next]_vars
=============================================================================
