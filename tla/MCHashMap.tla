------------------------------ MODULE MCHashMap ------------------------------
EXTENDS HashMapProps, TLC

(* 1, 2 and 3 collide in a table of 4 slots, 1 and 2 in one of 8; the      *)
(* probes of the keys wrap around.                                         *)
HashOfKey == <<3, 11, 7, 6>>

(* The map stores values and never looks at them.                          *)
ValuesAlike == Permutations(Value)

=============================================================================
