----------------------------- MODULE MCLowering -----------------------------
(* Function bodies of statements nested two deep.  Atoms are numbered by   *)
(* their place in the tree (l), so no two of a body are equal.             *)
EXTENDS Lowering

Act(l) == [k |-> "act", id |-> l]
Ret(l) == [k |-> "ret", id |-> l]
Brk == [k |-> "brk"]
Cnt == [k |-> "cnt"]
If(c, s, e) == [k |-> "if", c |-> c, s |-> s, e |-> e]
While(c, s) == [k |-> "while", c |-> c, s |-> s]
Block(items) == [k |-> "block", items |-> items]

(* a, a || b, a && b, a && b || c, a || b && c, a || b || c, a && b && c    *)
Simple(l) == <<<<l + 1>>>>
Conds(l) == {Simple(l), <<<<l + 1>>, <<l + 2>>>>, <<<<l + 1, l + 2>>>>,
             <<<<l + 1, l + 2>>, <<l + 3>>>>, <<<<l + 1>>, <<l + 2, l + 3>>>>,
             <<<<l + 1>>, <<l + 2>>, <<l + 3>>>>, <<<<l + 1, l + 2, l + 3>>>>}

Leaf(l, loop) == {Act(l), Ret(l)} \cup IF loop THEN {Brk, Cnt} ELSE {}

Inner(l, loop) ==
    Leaf(l, loop)
    \cup {If(Simple(l), s, e) : s \in Leaf(l + 4, loop), e \in Leaf(l + 5, loop) \cup {None}}
    \cup {While(Simple(l), s) : s \in Leaf(l + 4, TRUE)}
    \cup {Block(<<x, y>>) : x \in Leaf(l + 4, loop), y \in {Act(l + 5)}}

Outer(l, loop) ==
    {If(Simple(l), s, e) : s \in Inner(l + 10, loop), e \in Inner(l + 20, loop) \cup {None}}
    \cup {If(c, Act(l + 4), None) : c \in Conds(l)}
    \cup {While(c, s) : c \in Conds(l), s \in {Cnt, Act(l + 4)}}
    \cup {While(Simple(l), s) : s \in Inner(l + 10, TRUE)}
    \cup {While(Simple(l), Block(<<x, y>>)) :
             x \in Inner(l + 10, TRUE), y \in Inner(l + 20, TRUE)}

MCAtoms == 0 .. 99

(* The statements of the bodies, and what stands in them.                  *)
MCStmts == [loop \in BOOLEAN |->
    UNION {Inner(l, loop) : l \in {10, 20}} \cup UNION {Leaf(l, loop) : l \in 0 .. 25}
    \cup IF loop THEN {Block(<<x, y>>) : x \in Inner(10, TRUE), y \in Inner(20, TRUE)}
         ELSE Outer(0, FALSE) \cup {Act(99)}]

MCBodies == {<<s, Act(99)>> : s \in Outer(0, FALSE)}

=============================================================================
