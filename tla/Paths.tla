-------------------------------- MODULE Paths --------------------------------
(* The functions on paths of runtime/common/file_system.cc, in terms of the      *)
(* strings they are made of.                                                     *)
EXTENDS Strings

LOCAL INSTANCE SequencesExt

Slashes == {"/", "\\"}

LastSlash(b) == SelectLastInSeq(Value(b), LAMBDA c : c \in Slashes)

Directory(b) ==
  CASE LastSlash(b) = 0 -> FromText(<<".">>)
    [] LastSlash(b) = 1 -> FromText(<<"/">>)
    [] OTHER -> Substr(b, 0, LastSlash(b) - 1)

Basename(b) == IF LastSlash(b) = 0 THEN Copied(b) ELSE Substr(b, LastSlash(b), npos)

\* A pointer into the string, or to an empty one.
Extension(b) == IF RFind(b, ".") < LastSlash(b) THEN <<>> ELSE CString(b, RFind(b, "."))

\* Defect: an extension the name has stays.
ConstructKeepingExtension(directory, baseName, extension) ==
  LET slash == IF Value(directory)[directory.length] \in Slashes \cup {":"} THEN NoContents
               ELSE FromText(<<"/">>)
      base == IF directory.length = 0 THEN Copied(baseName)
              ELSE Plus(Plus(directory, slash), baseName)
      dotted == IF extension.data[1] = "." THEN base ELSE Plus(base, FromText(<<".">>))
  IN  IF extension.length = 0 THEN base ELSE Plus(dotted, extension)

ConstructPath(directory, baseName, extension) ==
  LET slash == IF Value(directory)[directory.length] \in Slashes \cup {":"} THEN NoContents
               ELSE FromText(<<"/">>)
      base == IF directory.length = 0 THEN Copied(baseName)
              ELSE Plus(Plus(directory, slash), baseName)
      b == Basename(base)
      bare == IF RFind(b, ".") = npos THEN base
              ELSE Resize(base, base.length - (b.length - RFind(b, ".")))
      dotted == IF extension.data[1] = "." THEN bare ELSE Plus(bare, FromText(<<".">>))
  IN  IF extension.length = 0 THEN base ELSE Plus(dotted, extension)

IsRelativePath(b) ==
  /\ b.length # 0 /\ b.data[1] \notin Slashes
  /\ Find(b, ":") = npos

PathRelativeTo(b, base) ==
  IF IsRelativePath(b) THEN Plus(Plus(Directory(base), FromText(<<"\\">>)), b) ELSE Copied(b)
=============================================================================
