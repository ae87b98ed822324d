-------------------------- MODULE MCRegisterState --------------------------
(***************************************************************************)
(* Expressions for the runs of the register allocator.                     *)
(***************************************************************************)
EXTENDS RegisterStateProps

CONSTANTS
    Ops,        \* the binary operators used
    MaxNodes,   \* the largest number of nodes
    MaxArgs,    \* the largest number of arguments of a call, 0 for no calls
    Kept(_)     \* which expressions and subexpressions are kept

(* From the expressions, and the argument lists, of each smaller size,     *)
(* those of size n.                                                        *)
Larger(smaller, n) ==
    LET Trees(k) == smaller[k].trees
        Lists(k) == smaller[k].lists
        Binaries(k) == {Binary(op, l, r) : op \in Ops, l \in Trees(k), r \in Trees(n - 1 - k)}
        calls  == {Call(a) : a \in Lists(n - 1)}
        trees  == IF n = 1 THEN {Leaf}
                  ELSE {e \in calls \cup UNION {Binaries(k) : k \in 1 .. n - 2} : Kept(e)}
        longer == UNION {{Append(a, e) : a \in {b \in Lists(k) : Len(b) < MaxArgs},
                                         e \in Trees(n - k)} : k \in 1 .. n - 1}
        lists  == IF MaxArgs = 0 THEN {} ELSE {<<e>> : e \in trees} \cup longer
    IN  Append(smaller, [trees |-> trees, lists |-> lists])

AllExprs ==
    LET sizes == FoldLeft(Larger, <<>>, [n \in 1 .. MaxNodes |-> n])
    IN  UNION {sizes[n].trees : n \in 1 .. MaxNodes}

(* These, and a wide division or remainder, of operands that need no    *)
(* particular register, as the whole expression.                           *)
Simple == {Leaf} \cup {Binary(op, Leaf, Leaf) : op \in Ops \ {"bytediv"}}

DivisionOnTop == AllExprs \cup {Binary(op, l, r) : op \in {"div", "rem"}, l, r \in Simple}

(* Every expression: the base of a subscript is a pointer.                 *)
Everything(e) == e.op = "subscript" => e.kids[1].op \notin {"bytediv", "shift"}

(* The expressions the allocator handles: no shift is wanted in RCX, as    *)
(* the first argument of a call or as the count of a shift, and no call is *)
(* an operand of an operator that takes a subscript from memory.           *)
HasCall(e) == abs(e.sethi) >= CALL_REG_USE

Tame(e) ==
    CASE e.op = "call" -> e.kids[1].op # "shift"
      [] e.op = "shift" -> e.kids[2].op # "shift"
      [] e.op = "subscript" -> e.kids[1].op \notin {"bytediv", "shift"}
      [] AddressMode(e, 2) /\ e.kids[2].op = "subscript" -> ~HasCall(e)
      [] OTHER -> TRUE

=============================================================================
