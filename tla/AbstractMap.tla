----------------------------- MODULE AbstractMap -----------------------------
(***************************************************************************)
(* What a map promises its callers: a finite function from keys to values, *)
(* and the answer of each operation.                                       *)
(***************************************************************************)
CONSTANTS
    Key,
    Value,
    NoValue     \* V(null): the answer for a key the map does not contain

VARIABLES
    contents,   \* the value of every key, NoValue when it is absent
    answer      \* what the last operation returned

Answers == Value \cup {NoValue, "inserted", "refused"}

Init ==
    /\ contents = [k \in Key |-> NoValue]
    /\ answer = NoValue

(* The answer of each operation for key k when its value is old.           *)
Answer(op, old) ==
    CASE op = "insert" -> IF old = NoValue THEN "inserted" ELSE "refused"
      [] op \in {"get", "replace"} -> old
      [] op = "set" -> NoValue

Get(k) ==
    /\ answer' = Answer("get", contents[k])
    /\ UNCHANGED contents

(* An insert leaves a key that is there alone; replace and set store.      *)
Write(op, k, v) ==
    /\ answer' = Answer(op, contents[k])
    /\ contents' = IF op = "insert" /\ contents[k] # NoValue THEN contents
                   ELSE [contents EXCEPT ![k] = v]

(* A store through the address of the value of a key.                      *)
Store(k, v) ==
    /\ contents[k] # NoValue
    /\ contents' = [contents EXCEPT ![k] = v]
    /\ UNCHANGED answer

Next ==
    \E k \in Key :
        \/ Get(k)
        \/ \E v \in Value :
             \/ \E op \in {"insert", "replace", "set"} : Write(op, k, v)
             \/ Store(k, v)

Spec == Init /\ [][Next]_<<contents, answer>>

=============================================================================
