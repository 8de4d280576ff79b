----------------------------- MODULE MCDeadCode -----------------------------
(* Modules of a library function (1), two functions (2, 3) that may call    *)
(* what is above them and themselves, and main (4).                         *)
EXTENDS DeadCode

Instruction(op, args, callee, ptr) == [op |-> op, args |-> args, callee |-> callee, ptr |-> ptr]
I(op, args) == Instruction(op, args, 0, op \in {"alloca", "gep"})
LoadPtr(a) == Instruction("load", <<a>>, 0, TRUE)
Call(f) == Instruction("call", << >>, f, FALSE)
CallWith(f, a) == Instruction("call", <<a>>, f, FALSE)
Returning(code, v) == Append(code, I("ret", <<v>>))

(* Bodies of functions: without effects, with a local array, with globals,  *)
(* with calls.                                                              *)
Bodies(f) ==
    {Returning(<<I("op", <<0, 0>>)>>, 1),
     Returning(<<I("alloca", << >>), I("gep", <<1, 0>>), I("store", <<0, 2>>),
                 I("load", <<2>>)>>, 4),
     Returning(<<I("alloca", << >>), I("gep", <<Outside, 0>>), I("store", <<1, 2>>)>>, 0),
     Returning(<<I("gep", <<Outside, 0>>), I("load", <<1>>)>>, 0),
     Returning(<<I("load", <<Outside>>)>>, 1)}
    \cup {Returning(<<Call(g)>>, v) : g \in 1 .. f, v \in {0, 1}}
    \cup {Returning(<<Call(g), Call(h)>>, 2) : g \in 1 .. f - 1, h \in (1 .. f) \ {2}}

(* main: a phi cycle, a chain through a pure or impure call, a store.       *)
MainBodies ==
    {Returning(<<I("phi", <<xz[1], 2>>), I("op", <<1, 0>>), CallWith(g, xz[2]), Call(3)>>, r) :
        xz \in {<<0, 1>>, <<3, 0>>, <<3, 1>>}, g \in 2 .. 3, r \in {0, 2}}
    \cup {<<Call(g), I("op", <<1, 0>>), I("op", <<2, 0>>), I("store", <<3, Outside>>),
            I("br", <<0>>), I("ret", <<0>>)>> : g \in 2 .. 3}

Module(a, f, g, m) == [declared |-> {1}, arrays |-> a, code |-> <<<< >>, f, g, m>>]

(* A function with an array parameter, used or kept in a variable.          *)
ArrayBodies ==
    {<<I("ret", <<0>>)>>,
     <<I("alloca", << >>), I("store", <<Outside, 1>>), LoadPtr(1), I("gep", <<3, 0>>),
       I("store", <<0, 4>>), I("ret", <<0>>)>>}

MCModules ==
    {Module({}, f, g, m) : f \in Bodies(2), g \in Bodies(3), m \in MainBodies}
    \cup {Module({2}, f, g, m) : f \in ArrayBodies, g \in Bodies(3), m \in MainBodies}

=============================================================================
