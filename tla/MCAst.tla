------------------------------- MODULE MCAst -------------------------------
(* Trees of the grammar: every production, lists of up to three elements,  *)
(* chains of up to three operators, statements in statements.              *)
EXTENDS Ast

N(name, children) == [name |-> name, children |-> children]
T(text) == N(text, << >>)

MCMaxInt == 127
LongName == "a_name_of_more_than_thirty_bytes"
LongNumbers ==                          \* legal, but for the third
    {"000000000000000000000000000010", "0x000000000000000000000000001F",
     "000000000000000000000000000200", "0.1250000000000000000000000000",
     "0x1.8000000000000000000000000p1"}
MCLongTokens == {LongName} \cup LongNumbers
MCLiterals ==
    LET int(hex, digits, means) ==
            [integer |-> TRUE, hex |-> hex, digits |-> digits, means |-> means,
             fits |-> means <= MCMaxInt]
        padded(n, digits) == [i \in 1 .. n |-> 0] \o digits
        float(fits) == [integer |-> FALSE, hex |-> FALSE, digits |-> << >>, means |-> 0,
                        fits |-> fits]
    IN  ("0" :> int(FALSE, <<0>>, 0)) @@ ("00" :> int(FALSE, <<0, 0>>, 0))
        @@ ("10" :> int(FALSE, <<1, 0>>, 10)) @@ ("010" :> int(FALSE, <<0, 1, 0>>, 8))
        @@ ("0x1F" :> int(TRUE, <<1, 15>>, 31)) @@ ("0x0" :> int(TRUE, <<0>>, 0))
        @@ ("127" :> int(FALSE, <<1, 2, 7>>, 127)) @@ ("0177" :> int(FALSE, <<0, 1, 7, 7>>, 127))
        @@ ("0x7F" :> int(TRUE, <<7, 15>>, 127)) @@ ("128" :> int(FALSE, <<1, 2, 8>>, 128))
        @@ ("0200" :> int(FALSE, <<0, 2, 0, 0>>, 128)) @@ ("0x80" :> int(TRUE, <<8, 0>>, 128))
        @@ ("1.5" :> float(TRUE)) @@ ("0x1.8p1" :> float(TRUE)) @@ ("1e99" :> float(FALSE))
        @@ ("00000000000000000000000000010" :> int(FALSE, padded(27, <<1, 0>>), 8))
        @@ ("000000000000000000000000000010" :> int(FALSE, padded(28, <<1, 0>>), 8))
        @@ ("0x000000000000000000000000001F" :> int(TRUE, padded(26, <<1, 15>>), 31))
        @@ ("000000000000000000000000000200" :> int(FALSE, padded(27, <<2, 0, 0>>), 128))
        @@ ("0.1250000000000000000000000000" :> float(TRUE))
        @@ ("0x1.8000000000000000000000000p1" :> float(TRUE))

-----------------------------------------------------------------------------
(* Lists as the grammar builds them, from the left.                        *)
Grow(name, xs, Step(_, _)) == FoldLeft(LAMBDA l, x : N(name, Step(l, x)), N(name, <<xs[1]>>), Tail(xs))
Commas(name, xs) == Grow(name, xs, LAMBDA l, x : <<l, T(","), x>>)
Row(name, xs) == Grow(name, xs, LAMBDA l, x : <<l, x>>)
Brackets(name, first, xs) ==
    FoldLeft(LAMBDA l, x : N(name, <<l, T("["), x, T("]")>>), first, xs)
Dimensions(name, xs) ==
    Brackets(name, N(name, <<T("["), xs[1], T("]")>>), Tail(xs))

Literal(t) ==
    N("Number", <<N(IF MCLiterals[t].integer THEN "Integer" ELSE "FloatPoint", <<T(t)>>)>>)
Prim(x) == N("UnaryExp", <<N("PrimaryExp", <<x>>)>>)
Mul(u) == N("MulExp", <<u>>)
Add(m) == N("AddExp", <<m>>)
Exp1(u) == N("Exp", <<Add(Mul(u))>>)
Const1(u) == N("ConstExp", <<Add(Mul(u))>>)
Lit(t) == Prim(Literal(t))
VarOf(id) == N("LVal", <<T(id)>>)
Var(id) == Prim(VarOf(id))
ElementOf(id, us) ==
    N("LVal", <<T(id), Dimensions("ArrayIdent", [i \in DOMAIN us |-> Exp1(us[i])])>>)
Paren(e) == N("UnaryExp", <<N("PrimaryExp", <<T("("), e, T(")")>>)>>)
Unary(op, u) == N("UnaryExp", <<N("UnaryOp", <<T(op)>>), u>>)
CallOf(id, us) ==
    N("UnaryExp",
      IF us = << >> THEN <<T(id), T("("), T(")")>>
      ELSE <<T(id), T("("), Commas("FuncRParams", [i \in DOMAIN us |-> Exp1(us[i])]), T(")")>>)

(* A level of binary operators over a sequence of operands.                *)
Chain(name, ops, xs) ==
    LET chain[i \in 1 .. Len(xs)] ==
            IF i = 1 THEN N(name, <<xs[1]>>) ELSE N(name, <<chain[i - 1], T(ops[i - 1]), xs[i]>>)
    IN  chain[Len(xs)]

MulOps == {"*", "/", "%"}
AddOps == {"+", "-"}
RelOps == {"<", ">", "<=", ">="}
EqOps == {"==", "!="}
UVars == <<Var("x"), Var("y"), Lit("10")>>
Chains(name, ops, xs) ==
    UNION {{Chain(name, o, SubSeq(xs, 1, n)) : o \in [1 .. n - 1 -> ops]} : n \in 1 .. 3}

Us ==
    {Lit(t) : t \in DOMAIN MCLiterals}
    \cup {Prim(ElementOf("a", us)) : us \in {<<Var("x")>>, <<Lit("010"), Var("y")>>, UVars}}
    \cup {CallOf("f", SubSeq(UVars, 1, n)) : n \in 0 .. 3}
    \cup {Unary(op, u) : op \in {"+", "-", "!"}, u \in {Var("x"), Unary("-", Lit("0x1F"))}}
    \cup {CallOf(id, us) : id \in {"PrimaryExp", "UnaryOp", "Exp", "Number", LongName},
                           us \in {<< >>, <<Var("x")>>}}
    \cup {Var(id) : id \in {"PrimaryExp", "UnaryOp", "LVal", LongName}}
Ms == {Mul(u) : u \in Us} \cup Chains("MulExp", MulOps, UVars)
As == {Add(m) : m \in Ms}
      \cup Chains("AddExp", AddOps, <<Mul(Var("x")), Chain("MulExp", <<"%", "*">>, UVars), Mul(Var("y"))>>)
Exps0 == {N("Exp", <<a>>) : a \in As}
Exps1 == Exps0 \cup {Exp1(Paren(e)) : e \in Exps0}

Rs == Chains("RelExp", RelOps, <<Chain("AddExp", <<"-">>, <<Mul(Var("x")), Mul(Var("y"))>>),
                                 Add(Mul(Lit("1.5"))), Add(Mul(Var("y")))>>)
R1 == N("RelExp", <<Add(Mul(Var("x")))>>)
R2 == N("RelExp", <<Add(Mul(Var("y")))>>)
Qs == {N("EqExp", <<r>>) : r \in Rs} \cup Chains("EqExp", EqOps, <<R1, R2, R1>>)
Q(id) == N("EqExp", <<N("RelExp", <<Add(Mul(Var(id)))>>)>>)
Ls == {N("LAndExp", <<q>>) : q \in Qs}
      \cup Chains("LAndExp", {"&&"}, <<Q("x"), Chain("EqExp", <<"==">>, <<R1, R2>>), Q("y")>>)
L(id) == N("LAndExp", <<Q(id)>>)
Conds == {N("Cond", <<N("LOrExp", <<l>>)>>) : l \in Ls}
         \cup {N("Cond", <<o>>) : o \in
                Chains("LOrExp", {"||"}, <<L("x"), Chain("LAndExp", <<"&&">>, <<Q("x"), Q("y")>>), L("y")>>)}
Cond1 == N("Cond", <<N("LOrExp", <<L("x")>>)>>)

-----------------------------------------------------------------------------
E1 == Exp1(Var("x"))
E2 == Exp1(Lit("10"))
Simple(x) == N("Stmt", <<x, T(";")>>)
Assign(l, e) == N("Stmt", <<l, T("="), e, T(";")>>)
Return(e) == N("Stmt", <<T("return"), e, T(";")>>)
If(c, st) == N("Stmt", <<T("if"), T("("), c, T(")"), st>>)
IfElse(c, st, el) == N("Stmt", <<T("if"), T("("), c, T(")"), st, T("else"), el>>)
While(c, st) == N("Stmt", <<T("while"), T("("), c, T(")"), st>>)
BlockOf(items) ==
    N("Block", IF items = << >> THEN <<T("{"), T("}")>>
               ELSE <<T("{"), Row("BlockItemList", [i \in DOMAIN items |-> N("BlockItem", <<items[i]>>)]),
                      T("}")>>)
BlockStmt(items) == N("Stmt", <<BlockOf(items)>>)

Plain ==
    {N("Stmt", <<T(";")>>), Simple(E1), Simple(T("break")), Simple(T("continue")),
     Simple(T("return")), Return(E2), Assign(VarOf("x"), E2),
     Assign(ElementOf("a", <<Var("x"), Lit("0")>>), E1)}

Type(t) == N("BType", <<T(t)>>)
Shape(us) == Dimensions("ConstArrayIdent", [i \in DOMAIN us |-> Const1(us[i])])
Shapes == {Shape(<<Lit("10")>>), Shape(<<Lit("10"), Lit("0x1F")>>)}

(* Initialisers: exp is Exp or ConstExp, val and list name the nonterminals. *)
Inits(val, list, e1, e2) ==
    LET leaf(e) == N(val, <<e>>)
        braces(xs) == N(val, IF xs = << >> THEN <<T("{"), T("}")>>
                             ELSE <<T("{"), Commas(list, xs), T("}")>>)
        inner == {<<leaf(e1)>>, <<leaf(e1), leaf(e2)>>, <<braces(<< >>), leaf(e2), leaf(e1)>>,
                  <<leaf(e1), braces(<<leaf(e2), leaf(e1)>>), leaf(e2)>>}
    IN  {leaf(e1), braces(<< >>)} \cup {braces(xs) : xs \in inner}

VarDefs ==
    {N("VarDef", <<T("v")>>), N("VarDef", <<T("v"), T("="), E2>>)}
    \cup {N("VarDef", <<T("v"), d>>) : d \in Shapes}
    \cup {N("VarDef", <<T("v"), d, T("="), i>>) :
            d \in Shapes, i \in Inits("InitVal", "InitValArrayList", E1, E2)}
ConstDefs ==
    {N("ConstDef", <<T("c"), T("="), N("ConstInitVal", <<Const1(Lit("10"))>>)>>)}
    \cup {N("ConstDef", <<T("c"), d, T("="), i>>) :
            d \in Shapes,
            i \in Inits("ConstInitVal", "ConstInitValArrayList", Const1(Lit("10")), Const1(Lit("010")))}
VarDeclOf(t, ds) == N("VarDecl", <<Type(t), Commas("VarDefList", ds), T(";")>>)
(* ConstDefList's nodes are named ConstDef.                                *)
ConstDeclOf(t, ds) == N("ConstDecl", <<T("const"), Type(t), Commas("ConstDef", ds), T(";")>>)
SomeDefs(ds) == {d \in ds : Len(d.children) # 4} 
    \cup {CHOOSE d \in ds : Len(d.children) = 4 /\ Len(d.children[4].children) = 2}
Decls ==
    {VarDeclOf("int", <<d>>) : d \in VarDefs} \cup {ConstDeclOf("float", <<d>>) : d \in ConstDefs}
    \cup {VarDeclOf("float", <<d, e>>) : d, e \in SomeDefs(VarDefs)}
    \cup {ConstDeclOf("int", <<d, e, d>>) : d, e \in SomeDefs(ConstDefs)}
SomeDecls == {VarDeclOf("int", <<N("VarDef", <<T("v")>>)>>),
              ConstDeclOf("int", <<CHOOSE d \in SomeDefs(ConstDefs) : Len(d.children) = 3>>)}

Nested ==
    Plain
    \cup {If(Cond1, st) : st \in Plain} \cup {While(Cond1, st) : st \in Plain}
    \cup {IfElse(Cond1, st, el) : st, el \in Plain}
    \cup {BlockStmt(<<x, y>>) : x, y \in Plain \cup SomeDecls} \cup {BlockStmt(<< >>)}
Statements ==
    Nested
    \cup {Return(e) : e \in Exps1} \cup {If(c, N("Stmt", <<T(";")>>)) : c \in Conds}
    \cup {If(Cond1, IfElse(Cond1, st, BlockStmt(<< >>))) : st \in Plain}
    \cup {IfElse(Cond1, BlockStmt(<<If(Cond1, st)>>), While(Cond1, st)) : st \in Plain}
    \cup {While(Cond1, BlockStmt(<<st, x, st>>)) : st \in Plain, x \in SomeDecls}

Param(t, id) == N("FuncFParam", <<Type(t), T(id)>>)
ArrayParam(t, id, es) ==
    N("FuncFParam", <<Type(t), T(id), T("["), T("]"),
                      Brackets("FuncArrayIdent", N("FuncArrayIdent", <<T("epsilon")>>), es)>>)
Params == {<<Param("int", "p")>>, <<ArrayParam("float", "q", << >>), Param("int", "p")>>,
           <<Param("int", "p"), ArrayParam("int", "q", <<E2>>), ArrayParam("float", "r", <<E2, E1>>)>>}
Returns(t) == IF t = "void" THEN T("void") ELSE Type(t)
Func(t, id, ps, items) ==
    N("FuncDef", <<Returns(t), T(id), T("(")>>
                 \o (IF ps = << >> THEN << >> ELSE <<Commas("FuncFParams", ps)>>)
                 \o <<T(")"), BlockOf(items)>>)

Top(x) == N("Decl", <<x>>)
File(xs) == [i \in DOMAIN xs |-> Top(xs[i])]
Tops == SomeDecls \cup {Func("void", "g", << >>, << >>)}
        \cup {Func("int", "main", << >>, <<Return(Exp1(CallOf("UnaryOp", << >>)))>>)}
Several == {File(xs) : xs \in [1 .. 2 -> Tops] \cup [1 .. 3 -> Tops]}
MCFiles ==
    {File(<<Func("int", "main", << >>, <<st>>)>>) : st \in Statements}
    \cup {File(<<d>>) : d \in Decls}
    \cup {File(<<Func(t, id, ps, << >>)>>) :
            t \in {"int", "float", "void"}, id \in {"f", "UnaryOp"}, ps \in Params \cup {<< >>}}
    \cup Several
    \cup {SubSeq(f, 1, i) \o <<Broken>> \o SubSeq(f, i + 1, Len(f)) : f \in Several, i \in 0 .. 2}
    \cup {<< >>}

=============================================================================
