---------------------------- MODULE MCExprTypes ----------------------------
(* Statements over expressions two operators deep, conditions of up to     *)
(* three operands, left values with indices that hold left values.         *)
EXTENDS ExprTypes

Whole(n) == [k |-> "num", type |-> "i32", n |-> n]
Half(n) == [k |-> "num", type |-> "float", n |-> n]
LVal(id, idx) == [k |-> "lval", id |-> id, idx |-> idx]
Un(op, e) == [k |-> "un", op |-> op, arg |-> e]
Bin(op, l, r) == [k |-> "bin", op |-> op, l |-> l, r |-> r]
CallOf(id, e) == [k |-> "call", id |-> id, args |-> <<e>>]
Call2(id, e1, e2) == [k |-> "call", id |-> id, args |-> <<e1, e2>>]
Timer(id, line) == [k |-> "call", id |-> id, args |-> << >>, line |-> line]

MCMinInt == -1000
MCSymbols ==
    LET s(form, type, dims) == [form |-> form, type |-> type, dims |-> dims, at |-> << >>]
        p(type, dims, at) == [form |-> "param", type |-> type, dims |-> dims, at |-> at]
    IN  [x |-> s("var", "i32", << >>), y |-> s("var", "float", << >>),
         c |-> s("const", "i32", << >>), lo |-> s("const", "i32", << >>), d |-> s("const", "float", << >>),
         a |-> s("var", "i32", <<2>>), m |-> s("var", "float", <<2, 2>>),
         ca |-> s("const", "i32", <<2, 2>>), da |-> s("const", "float", <<2>>),
         p |-> p("i32", << >>, <<"a", 0>>), q |-> p("float", <<2>>, <<"m", 0>>),
         r |-> p("float", << >>, <<"m", 2>>)]
MCMemory ==
    [x |-> <<1>>, y |-> <<-5>>, c |-> <<3>>, lo |-> <<MCMinInt>>, d |-> <<1>>, a |-> <<0, 1>>,
     m |-> <<3, 4, 5, 7>>, ca |-> <<1, 0, 2, 5>>, da |-> <<3, 1>>]
MCFunctions ==
    [f |-> [params |-> <<"i32">>, ret |-> "i32"],
     g |-> [params |-> <<"float">>, ret |-> "float"],
     h |-> [params |-> <<"ptr i32">>, ret |-> "i32"],
     w |-> [params |-> <<"ptr float">>, ret |-> "float"],
     two |-> [params |-> <<"ptr i32", "float">>, ret |-> "i32"],
     back |-> [params |-> <<"i32", "ptr float">>, ret |-> "float"],
     none |-> [params |-> <<"i32">>, ret |-> "void"],
     starttime |-> [params |-> <<"i32">>, ret |-> "void"],
     stoptime |-> [params |-> <<"i32">>, ret |-> "void"]]

X == LVal("x", << >>)
Y == LVal("y", << >>)
Scalars == {Whole(0), Whole(7), Half(3), X, Y, LVal("c", << >>), LVal("d", << >>)}

Indices == {Whole(1), X, LVal("a", <<X>>), CallOf("h", LVal("a", << >>))}
Elements ==
    {LVal(id, <<i>>) : id \in {"a", "da", "p", "r"}, i \in Indices}
    \cup {LVal(id, <<i, j>>) : id \in {"m", "ca", "q"}, i \in Indices, j \in {Whole(0), X}}
Calls ==
    {CallOf(id, e) : id \in {"f", "g"}, e \in Scalars \cup {LVal("a", <<Whole(1)>>)}}
    \cup {CallOf("h", LVal("a", i)) : i \in {<< >>, <<X>>, <<CallOf("f", X)>>}}
    \cup {CallOf("w", LVal(id, i)) : id \in {"m", "q"}, i \in {<< >>, <<X>>, <<LVal("a", <<X>>)>>}}
    \cup {CallOf("h", LVal("p", << >>)), CallOf("w", LVal("r", << >>))}
    \cup {Call2("two", e, d) : e \in {LVal("a", << >>), LVal("p", << >>)},
                               d \in {X, Y, Whole(7), LVal("p", <<X>>), LVal("r", <<Whole(1)>>)}}
    \cup {Call2("back", d, e) : e \in {LVal("m", <<LVal("p", <<X>>)>>), LVal("r", << >>)},
                                d \in {X, Half(3), LVal("p", <<X>>)}}

Ariths == {"+", "-", "*", "/", "%"}
OnInts(e) == IsOp(e, {"%"}) => \A c \in {e.l, e.r} : Meaning(c).type = "i32"
Bins(ops, ls, rs) == {e \in {Bin(op, l, r) : op \in ops, l \in ls, r \in rs} : OnInts(e)}
Uns(es) == {Un(op, e) : op \in {"+", "-", "!"}, e \in es}

(* Expressions of the grammar: comparisons are only parts of conditions.   *)
One == Bins(Ariths, Scalars, Scalars) \cup Uns(Scalars) \cup Elements \cup Calls
Few == {Whole(7), Half(3), X, Y}
Two ==
    Bins(Ariths, Bins({"-", "/", "%"}, Few, Few) \cup Uns({Whole(7), X, Y, Half(3)}), Few)
    \cup Bins({"-", "/"}, Few, Bins({"-", "*"}, Few, Few) \cup Elements \cup Calls)
    \cup Uns(Uns(Few) \cup Bins({"-"}, Few, Few))
(* The smallest int, divided by -1 and by others.                          *)
Least == LVal("lo", << >>)
Limits == Bins({"/", "%"}, {Least, Bin("+", Least, Whole(0)), X},
               Uns({Whole(1), Half(2), LVal("c", << >>), X}))
Exps == Scalars \cup One \cup Two \cup Limits

Tests1 == Bins(Compares, Scalars, Scalars)
Tests2 == Bins({"<", "=="}, Bins({">", "!="}, Few, Few) \cup Uns(Few), Few)
          \cup Bins({"<"}, Few, Bins({"-"}, Few, Few) \cup Elements \cup Calls)
Simple == {X, Y, Whole(7), Bin("<", Whole(0), Whole(7)), Bin("<", X, Whole(7)), Un("!", X),
           Un("!", Whole(0)), Bin("==", X, Half(3))}
And(l, r) == Bin("&&", l, r)
Or(l, r) == Bin("||", l, r)
Conds ==
    Exps \cup Tests1 \cup Tests2
    \cup UNION {{And(p, q), Or(p, q)} : p \in Simple, q \in Simple}
    \cup UNION {{And(And(p, q), r), Or(Or(p, q), r), Or(And(p, q), r), Or(p, And(q, r))} :
                   p \in Simple, q \in Simple, r \in Simple}

MCStatements ==
    {[k |-> "assign", l |-> l, r |-> r] : l \in {X, Y}, r \in Exps}
    \cup {[k |-> "assign", l |-> l, r |-> r] : l \in {e \in Elements : Symbols[e.id].form # "const"}, r \in Scalars}
    \cup {[k |-> "return", type |-> t, e |-> e] : t \in {"i32", "float"}, e \in Exps}
    \cup {[k |-> "cond", e |-> e] : e \in Conds}
    \cup {[k |-> "exp", e |-> e] : e \in Calls \cup Elements \cup {CallOf("none", X), CallOf("none", Y),
                                      Timer("starttime", 12), Timer("stoptime", 15)}}

=============================================================================
