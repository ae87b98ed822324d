\* Two strings of up to three of three characters: an allocation of four bytes
\* holds two of them, and the paths made of both need one of sixteen.
SPECIFICATION Spec
CONSTANTS
  Names = {s, t}
  Code <- MCCode
  Header = 1
  MinSize = 4
  Literals <- MCLiterals
  MaxLength = 3
  Extensions <- MCExtensions
SYMMETRY NamesAlike
INVARIANTS StringsRight PathsRight
