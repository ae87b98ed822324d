----------------------------- MODULE StringsProps -----------------------------
(* What the strings and the paths of the C++ runtime promise.                    *)
EXTENDS Paths, FiniteSets

LOCAL INSTANCE SequencesExt

CONSTANT Extensions  \* the extensions a path is constructed with

Join(tokens, delimiter) ==
  FoldLeft(LAMBDA joined, token : joined \o <<delimiter>> \o Value(token),
           Value(Head(tokens)), Tail(tokens))

(* Whatever is appended, copied, cut and joined, a string has the characters it  *)
(* should have, nothing was ever written behind its allocation, and C reads it   *)
(* to its end unless resize() made it shorter and no character was put behind it *)
(* since: an allocation is exactly full, NUL included, before it is replaced.    *)
(* The comparisons are an order, and split() takes a string apart into what,     *)
(* joined, is the string, with a token more than there are delimiters.           *)
StringsRight ==
  /\ \A s \in Names :
       LET b == strings[s]  tokens == Split(b, "/")
       IN  /\ Value(b) = meant[s]
           /\ b.length = 0 <=> b.data = <<>>
           /\ \/ b.length = 0
              \/ Len(b.data) + Header \in {MinSize * 2 ^ k : k \in 0 .. MaxLength}
           /\ ~cut[s] => CString(b, 0) = meant[s] \/ b.length = 0
           /\ Join(tokens, "/") = meant[s]
           /\ Len(tokens) = 1 + Cardinality({i \in DOMAIN meant[s] : meant[s][i] = "/"})
  /\ \A s \in Names : \A t \in Names \ {s} :
       LET b == strings[s]  c == strings[t]
       IN  /\ Equal(b, c) <=> meant[s] = meant[t]
           /\ Equal(b, c) <=> ~Less(b, c) /\ ~Less(c, b)
           /\ BeginsWith(c, b) <=> IsPrefix(meant[s], meant[t])
           /\ BeginsWith(c, b) => Equal(b, c) \/ Less(b, c)
           /\ ~cut[s] /\ ~cut[t] =>
                (EndsWith(c, b) <=> /\ ~Equal(b, c) /\ meant[s] # <<>>
                                    /\ IsSuffix(meant[s], meant[t]))

Dotted(extension) == IF extension[1] = "." THEN extension ELSE <<".">> \o extension

Trimmed(path) ==
  IF Len(path) > 1 /\ path[Len(path)] \in Slashes THEN SubSeq(path, 1, Len(path) - 1) ELSE path

Plain(path) == \A i \in 1 .. Len(path) - 1 : path[i] = "/" => path[i + 1] # "/"

(* constructPath() makes a path in the directory, with the extension, of the     *)
(* name up to the extension it had; a dot in the directory is no extension.  A    *)
(* path is the one constructed from its directory and its base name.  A relative  *)
(* path is taken to the directory of the other path, relative when that is.       *)
PathsRight ==
  \A s \in Names : \A t \in Names \ {s} :
    LET d == meant[s]  b == meant[t]
        name(path) == IF Extension(path) = <<>> THEN Value(path)
                      ELSE SubSeq(Value(path), 1, path.length - Len(Extension(path)))
        f == strings[s]  to == PathRelativeTo(strings[t], f)
    IN  /\ (\A i \in DOMAIN b : b[i] \notin Slashes) =>
             \A e \in Extensions :
               LET path == ConstructPath(strings[s], strings[t], FromText(e))
               IN  /\ d # <<>> /\ Plain(d) => Trimmed(Value(Directory(path))) = Trimmed(d)
                   /\ e = <<>> => Value(Basename(path)) = b
                   /\ e # <<>> /\ ~cut[t] =>
                        /\ Extension(path) = Dotted(e)
                        /\ name(Basename(path)) = name(strings[t])
        /\ LastSlash(f) # 0 /\ Plain(d) =>
             Value(ConstructPath(Directory(f), Basename(f), NoContents)) = d
        /\ IsRelativePath(strings[t]) =>
             /\ Value(Basename(to)) = Value(Basename(strings[t]))
             /\ IsRelativePath(to) <=> IsRelativePath(f) \/ f.length = 0
        /\ ~IsRelativePath(strings[t]) => Value(to) = b
=============================================================================
