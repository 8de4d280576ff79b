------------------------------ MODULE MCCodeGen ------------------------------
(* Words of 10 bits, of which 6 are the short immediate: slots from -36 on   *)
(* and constants outside -32 .. 31 take the long forms, and a frame of 512   *)
(* bytes is too large for an int.                                            *)
EXTENDS CodeGen

I(op, ty, ops) == [op |-> op, ty |-> ty, ops |-> ops, area |-> 0]
Lbl(l) == I("label", "void", <<l>>)
Br(l) == I("br", "void", <<l>>)
Alloca(n) == [op |-> "alloca", ty |-> "ptr", ops |-> << >>, area |-> n]
Def(d) == <<"def", d>>
Const(n) == <<"const", n>>
Global == <<"global", 1>>
Bin(op, a, b) == I(op, "int", <<a, b>>)
Ret == I("ret", "void", << >>)

Two == <<"int", "int">>
Eight(ty) == [i \in 1 .. 8 |-> ty]
ArgLists ==
    {Two, <<"float", "int", "ptr", "int">>, <<"ptr", "int", "float", "int">>,
     Eight("float") \o <<"int">>, <<"int">> \o Eight("int"), Eight("float") \o <<"float">>,
     <<"float", "int">> \o Eight("ptr")}

(* The last instructions of the first block, and the frame they want: a     *)
(* return, a local array, one too large, a load of an int, a call, a jump   *)
(* over another block, to one that is never emitted.                        *)
Ends ==
    {<<Ret>>, <<Alloca(4), Ret>>, <<Alloca(24), I("gep", "ptr", << >>), Ret>>,
     <<I("cmp", "i1", << >>), I("zext", "int", << >>), I("call", "void", << >>), Ret>>,
     <<I("load", "int", <<Global>>), Alloca(448), Ret>>, <<Alloca(512), Ret>>,
     <<Br(3), Lbl(2), Ret, Lbl(3), Ret>>}

F(args, code) == [args |-> args, code |-> code]

(* Three instructions on constants of either form, arguments and each other.*)
Chains ==
    {F(Two, <<Lbl(1), Bin(op, x, y), Bin("add", Def(4), z)>> \o end) :
        op \in {"sub", "mul", "sdiv"}, x \in {Def(1), Const(31), Const(-33)},
        y \in {Def(2), Const(32), Const(-32)}, z \in {Def(1), Def(4), Const(-512)},
        end \in Ends}

WithArgs ==
    {F(args, <<Lbl(1), I("load", "float", <<Global>>)>> \o
             <<Bin("sub", Def(2), Const(511)), I("load", "float", <<Global>>)>> \o end) :
        args \in {a \in ArgLists : a[2] = "int"}, end \in Ends}
    \cup {F(args, <<Lbl(1)>> \o end) : args \in ArgLists, end \in Ends}

Jumps ==
    {F(Two, <<Lbl(1), Bin("add", Def(1), Def(2)), Br(l), Lbl(2), Bin(op, Def(4), Const(7)), Br(3),
              Lbl(3), Bin("sub", Def(4), Def(1))>> \o end) :
        l \in {2, 3}, op \in {"add", "srem"}, end \in Ends}

MCFunctions == Chains \cup WithArgs \cup Jumps
MCInputs ==
    {[int |-> [d \in 1 .. 10 |-> d * 3 - 16], float |-> [d \in 1 .. 10 |-> d + 100],
      ptr |-> [d \in 1 .. 10 |-> 5000 * d + 1]],
     [int |-> [d \in 1 .. 10 |-> IF d = 1 THEN 500 ELSE -512], float |-> [d \in 1 .. 10 |-> d - 400],
      ptr |-> [d \in 1 .. 10 |-> -5000 * d]]}
MCGlobals == <<77>>

=============================================================================
