----------------------------- MODULE MCMem2Reg -----------------------------
(* Functions over two variables on five control-flow graphs, with at most  *)
(* one assignment or print per block, and a swap inside a loop.            *)
EXTENDS Mem2Reg

MCBlockList == <<1, 2, 3, 4, 5>>

Load(v) == [op |-> "load", var |-> v, arg |-> Prev]
Store(v, a) == [op |-> "store", var |-> v, arg |-> a]
Add == [op |-> "add", var |-> "", arg |-> Prev]
Show == [op |-> "print", var |-> "", arg |-> Prev]

Skip == << >>
Set(v, c) == <<Store(v, Const(c))>>
Copy(v, w) == <<Load(w), Store(v, Prev)>>
Inc(v) == <<Load(v), Add, Store(v, Prev)>>
PrintVar(v) == <<Load(v), Show>>

(* if / else with a join; while; while with a break; early return; an if   *)
(* without else inside another.                                            *)
Diamond == << <<2, 3>>, <<4>>, <<4>>, <<5>>, << >> >>
While   == << <<2>>, <<3, 5>>, <<4>>, <<2>>, << >> >>
Break   == << <<2>>, <<3, 5>>, <<4, 5>>, <<2>>, << >> >>
Return  == << <<2, 3>>, << >>, <<4, 5>>, <<5>>, << >> >>
Nested  == << <<2, 5>>, <<3, 4>>, <<4>>, <<5>>, << >> >>

MCGraphs == {Diamond, While, Break, Return, Nested}

First == {Skip, Set("x", 0)}
Body == {Skip, Set("x", 1), Inc("x"), Copy("y", "x"), Copy("x", "y")}
LastBlock == {PrintVar("x"), Inc("x") \o PrintVar("x"), PrintVar("y")}

Codes == {<<a \o Set("y", 2), b, c, d, e>> :
             a \in First, b \in {Skip, Set("x", 1), Copy("y", "x")},
             c \in Body, d \in Body, e \in LastBlock}

(* t = x; x = y; y = t in the body of a loop that prints x.                *)
Swap == [succ |-> While,
         code |-> <<Set("x", 0) \o Set("y", 1), PrintVar("x"),
                    Copy("t", "x") \o Copy("x", "y") \o Copy("y", "t"),
                    Skip, PrintVar("y")>>]

MCVars == {"x", "y", "t"}
MCPrograms == {Swap} \cup {[succ |-> g, code |-> c] : g \in MCGraphs, c \in Codes}

=============================================================================
