---------------------------- MODULE MCArrayInit ----------------------------
(* All legal initialisers of up to eight tokens for arrays of one to three  *)
(* dimensions, each after one of a few earlier declarations.                *)
EXTENDS ArrayInit

Decl(form, global, type, dims, toks) ==
    [form |-> form, global |-> global, type |-> type, dims |-> dims, toks |-> toks]

(* Bracket sequences of n tokens around constants.                          *)
Balanced(s) ==
    LET count(t, k) == Cardinality({i \in 1 .. k : s[i] = t}) IN
    /\ \A k \in 1 .. Len(s) - 1 : count("open", k) > count("close", k)
    /\ count("open", Len(s)) = count("close", Len(s))
Lists(n) == {s \in [1 .. n -> {"open", "close", "const"}] : Balanced(s)}

Dims == {<<2>>, <<3>>, <<2, 2>>, <<3, 2>>, <<2, 2, 2>>}
Probe(dims, toks) == Decl("const", TRUE, "int", dims, toks)
Initialisers ==
    UNION {{<<dims, toks>> : toks \in {s \in UNION {Lists(n) : n \in 2 .. 8} :
                                          Legal(Probe(dims, s))}} : dims \in Dims}

(* The expressions of a local variable: every other one is not constant.    *)
Mixed(s) == [k \in DOMAIN s |-> IF s[k] = "const" /\ k % 2 = 0 THEN "expr" ELSE s[k]]

(* The first expression, or the second, is a !.                            *)
Negated(s, n) ==
    [k \in DOMAIN s |->
        IF s[k] = "const" /\ Cardinality({j \in 1 .. k : s[j] = "const"}) = n THEN "not" ELSE s[k]]
Nots ==
    {Decl(form, global, type, i[1], Negated(i[2], n)) :
        form \in {"const", "var"}, global \in BOOLEAN, type \in {"int", "float"},
        i \in {j \in Initialisers : Len(j[2]) <= 6}, n \in 1 .. 2}

Arrays ==
    {Decl(form, global, type, i[1],
          IF form = "var" /\ ~global THEN Mixed(i[2]) ELSE i[2]) :
        form \in {"const", "var"}, global \in BOOLEAN,
        type \in {"int", "float"}, i \in Initialisers}

Earlier ==
    {Decl("var", FALSE, "float", <<2, 2>>, <<"open", "expr", "const", "const", "close">>),
     Decl("const", TRUE, "int", <<3>>, <<"open", "const", "const", "const", "close">>),
     Decl("var", FALSE, "int", << >>, <<"expr">>),
     Decl("var", TRUE, "int", <<2>>, << >>),
     Decl("const", FALSE, "float", << >>, <<"const">>),
     Decl("var", TRUE, "int", <<2>>, <<"open", "const", "not", "close">>),
     Decl("var", TRUE, "int", << >>, <<"not">>)}

MCPrograms == {<<e, x>> : e \in Earlier, x \in Arrays}
              \cup {<<e, x>> : e \in Earlier, x \in Nots}
              \cup {<<e, x, y>> : e \in Earlier, x \in Earlier, y \in Earlier}

=============================================================================
