----------------------------- MODULE ExprTypes -----------------------------
(***************************************************************************)
(* Expressions of SysY (SysY_builder.cpp): operators, conversions between  *)
(* int and float, left values, calls, and the statements that use a value. *)
(* Every visit leaves a Value in context.cur_val, either a constant that   *)
(* the builder goes on folding with or the result of an instruction, whose *)
(* constructor asserts the types of its operands (Instruction.cpp).        *)
(*                                                                         *)
(* A value is [type, const, n, at].  n is the number it has at run time,   *)
(* with floats counted in halves; at is the element a pointer points to.   *)
(* The comparisons the builder folds are special: CONST_INT of a bool is   *)
(* an i1 constant, while an instruction's i1 is extended to i32 at once.   *)
(***************************************************************************)
EXTENDS Integers, Sequences, SequencesExt, FiniteSets

CONSTANTS
    Statements,  \* "assign" with l and r, "return" with type and e, "cond" and "exp" with e
    Symbols,     \* what scope.find returns: id -> [form, type, dims, at]; dims are the
                 \* bounds that are written, at is what the caller passed for a "param"
    Memory,      \* id -> the sequence of its elements at run time
    Functions,   \* id -> [params, ret]; a parameter is "i32", "float" or a pointer to one
    Timers,      \* starttime and stoptime
    MinInt       \* the smallest int, INT_MIN made small

VARIABLES
    stmt,
    work,        \* the recursion of the visitor: what is still to be done
    vals,        \* context.cur_val, and the results its callers keep
    needLvalue,  \* need_lvalue
    status,      \* "go", "done", "assert", "crash", "ub"
    tests,       \* the conditions branched on
    result       \* the value stored or returned

vars == <<stmt, work, vals, needLvalue, status, tests, result>>

Value(type, const, n) == [type |-> type, const |-> const, n |-> n, at |-> << >>]
Const(type, n) == Value(type, TRUE, n)
Instr(type, n) == Value(type, FALSE, n)
Ptr(type, id, off) == [type |-> "ptr " \o type, const |-> FALSE, n |-> 0, at |-> <<id, off>>]
Pointee(p) == IF p.type = "ptr i32" THEN "i32" ELSE "float"
Element(id, off) == IF off \in 0 .. Len(Memory[id]) - 1 THEN Memory[id][off + 1] ELSE 0

IsFloat(v) == v.type = "float"
IsInteger(v) == v.type \in {"i1", "i32"}
IsInt32(v) == v.type = "i32"

-----------------------------------------------------------------------------
(* C's operators: division truncates, a comparison is 0 or 1.              *)
Sign(n) == IF n < 0 THEN -1 ELSE 1
AbsOf(n) == n * Sign(n)
Quot(a, b) == IF b = 0 THEN 0 ELSE Sign(a) * Sign(b) * (AbsOf(a) \div AbsOf(b))
Bool(b) == IF b THEN 1 ELSE 0

Compares == {"<", ">", "<=", ">=", "==", "!="}
Compare(op, a, b) ==
    Bool(CASE op = "<" -> a < b [] op = ">" -> a > b [] op = "<=" -> a <= b
           [] op = ">=" -> a >= b [] op = "==" -> a = b [] op = "!=" -> a # b)
IntOp(op, a, b) ==
    CASE op = "+" -> a + b [] op = "-" -> a - b [] op = "*" -> a * b
      [] op = "/" -> Quot(a, b) [] op = "%" -> a - b * Quot(a, b)
FloatOp(op, a, b) ==
    CASE op = "+" -> a + b [] op = "-" -> a - b
      [] op = "*" -> Quot(a * b, 2) [] op = "/" -> Quot(2 * a, b)
Arith(type, op, a, b) == IF type = "float" THEN FloatOp(op, a, b) ELSE IntOp(op, a, b)

(* sitofp reads an i1 as a signed number of one bit.                       *)
SiToFp(v) == Instr("float", IF v.type = "i1" THEN -2 * v.n ELSE 2 * v.n)
FpToSi(v) == Instr("i32", Quot(v.n, 2))

ToFloat(v) == IF v.const THEN Const("float", 2 * v.n) ELSE SiToFp(v)
ToInt(v) == IF v.const THEN Const("i32", Quot(v.n, 2)) ELSE FpToSi(v)

-----------------------------------------------------------------------------
Visit(e) == [do |-> "visit", e |-> e]
Then(do, e) == [do |-> do, e |-> e]

Init ==
    /\ stmt \in Statements
    /\ work = <<Then("statement", stmt)>>
    /\ vals = << >> /\ needLvalue = FALSE /\ status = "go"
    /\ tests = << >> /\ result = Const("i32", 0)

At(do) == status = "go" /\ work # << >> /\ Head(work).do = do
AtNode(k) == At("visit") /\ Head(work).e.k = k
E == Head(work).e
Top == Last(vals)
Left == vals[Len(vals) - 1]

Replace(items) == work' = items \o Tail(work)

(* A visit or a continuation that turns the top n values into one, if the  *)
(* assertions of the instruction it creates hold.                          *)
Yield(n, ok, v) ==
    /\ work' = Tail(work)
    /\ IF ok
       THEN vals' = Append(SubSeq(vals, 1, Len(vals) - n), v) /\ UNCHANGED status
       ELSE status' = "assert" /\ UNCHANGED vals
    /\ UNCHANGED <<stmt, tests, result>>

Descend(items) == Replace(items) /\ UNCHANGED <<stmt, vals, status, tests, result>>

VisitNumber ==
    AtNode("num") /\ Yield(0, TRUE, Const(E.type, E.n)) /\ UNCHANGED needLvalue

VisitUnary ==
    AtNode("un") /\ Descend(<<Visit(E.arg), Then("un", E)>>) /\ UNCHANGED needLvalue

VisitBinary ==
    /\ AtNode("bin")
    /\ Descend(<<Visit(E.l), Visit(E.r),
                 Then(CASE E.op \in {"+", "-"} -> "add"
                        [] E.op \in {"*", "/", "%"} -> "mul"
                        [] E.op \in Compares -> "compare", E)>>)
    /\ UNCHANGED needLvalue

(* ASTUnaryExp.  A folded ! of an int is an i1, of a float a float.        *)
Unary ==
    /\ At("un")
    /\ LET v == Top
           not == Bool(v.n = 0)
           zero == Const(IF IsFloat(v) THEN "float" ELSE "i32", 0)
       IN  CASE E.op = "+" -> Yield(1, TRUE, v)
             [] E.op = "-" ->
                  Yield(1, v.const \/ IsFloat(v) \/ IsInt32(v),
                        Value(zero.type, v.const, -v.n))
             [] E.op = "!" /\ v.const ->
                  Yield(1, TRUE, IF IsFloat(v) THEN Const("float", 2 * not)
                                 ELSE Const("i1", not))
             [] E.op = "!" /\ ~v.const ->
                  Yield(1, IsFloat(v) \/ IsInt32(v), Instr("i32", not))
    /\ UNCHANGED needLvalue

(* What IBinaryInst and ICmpInst, FBinaryInst and FCmpInst assert.         *)
Typed(float, a, b) == IF float THEN IsFloat(a) /\ IsFloat(b) ELSE IsInt32(a) /\ IsInt32(b)

(* If one operand of + - * / is float, the other is made float.            *)
Mixed(l, r) == IsFloat(l) \/ IsFloat(r)
Widened(v, l, r) == IF Mixed(l, r) /\ IsInteger(v) THEN ToFloat(v) ELSE v

Binary(l, r) ==
    LET a == Widened(l, l, r)
        b == Widened(r, l, r)
        type == IF Mixed(l, r) THEN "float" ELSE "i32"
    IN  IF a.const /\ b.const
        THEN Yield(2, TRUE, Const(type, Arith(type, E.op, a.n, b.n)))
        ELSE Yield(2, Typed(Mixed(l, r), a, b),
                   Instr(type, Arith(type, E.op, a.n, b.n)))

Add == At("add") /\ Binary(Left, Top) /\ UNCHANGED needLvalue

(* The quotient of two ints is none, or is not an int.                     *)
NoQuotient(a, b) == b = 0 \/ (a = MinInt /\ b = -1)

(* The compiler divides constants itself.                                  *)
Mul ==
    /\ At("mul")
    /\ IF /\ E.op \in {"/", "%"} /\ ~Mixed(Left, Top) /\ Left.const /\ Top.const
          /\ NoQuotient(Left.n, Top.n)
       THEN status' = "ub" /\ UNCHANGED <<stmt, work, vals, tests, result>>
       ELSE IF E.op = "%" /\ Mixed(Left, Top)
       THEN Yield(2, FALSE, Top)
       ELSE Binary(Left, Top)
    /\ UNCHANGED needLvalue

(* ASTRelExp and ASTEqExp convert by an instruction, also a constant.      *)
Comparison ==
    /\ At("compare")
    /\ LET float == Mixed(Left, Top)
           a == IF float /\ IsInteger(Left) THEN SiToFp(Left) ELSE Left
           b == IF float /\ IsInteger(Top) THEN SiToFp(Top) ELSE Top
           n == Compare(E.op, a.n, b.n)
       IN  IF a.const /\ b.const
           THEN Yield(2, TRUE, Const("i1", n))
           ELSE Yield(2, Typed(float, a, b), Instr("i32", n))
    /\ UNCHANGED needLvalue

-----------------------------------------------------------------------------
(* Left values (ASTLVal).  The flag is read, and lowered, before the       *)
(* indices are visited.                                                    *)
Named(d) == Symbols[d.id]

(* A parameter int a[][3] is a pointer, kept in a variable of its own; its *)
(* sizes are those of an array whose first bound is 1 (array_bound).       *)
Dims(id) == IF Symbols[id].form = "param" THEN <<1>> \o Symbols[id].dims ELSE Symbols[id].dims

(* Where the elements start: for a parameter, what the load of it yields.  *)
Base(id) == IF Symbols[id].form = "param" THEN Symbols[id].at ELSE <<id, 0>>
AddressIn(type, id, offset) == Ptr(type, Base(id)[1], Base(id)[2] + offset)

VisitLValFlagKept ==                    \* Fault: the flag stays up for the indices
    /\ AtNode("lval")
    /\ Descend([i \in DOMAIN E.idx |-> Visit(E.idx[i])]
               \o <<Then("lval", [id |-> E.id, idx |-> E.idx, addr |-> needLvalue])>>)
    /\ needLvalue' = needLvalue

VisitLVal ==
    /\ AtNode("lval")
    /\ Descend([i \in DOMAIN E.idx |-> Visit(E.idx[i])]
               \o <<Then("lval", [id |-> E.id, idx |-> E.idx, addr |-> needLvalue])>>)
    /\ needLvalue' = FALSE

Load(p) == Instr(Pointee(p), Element(p.at[1], p.at[2]))

(* A name alone: a scalar constant, a scalar, or an array or a parameter   *)
(* for one whose address is wanted.                                        *)
Name ==
    /\ At("lval") /\ E.idx = << >>
    /\ LET s == Named(E)
           p == AddressIn(s.type, E.id, 0)
       IN  Yield(0, TRUE, IF s.form = "const" THEN Const(s.type, Element(E.id, 0))
                          ELSE IF E.addr THEN p ELSE Load(p))
    /\ UNCHANGED needLvalue

SizeAtFirst(dims, i) ==                 \* Fault: array_sizes is indexed from 0
    FoldLeft(LAMBDA a, b : a * b, 1, SubSeq(dims, i, Len(dims)))

(* The size of what index i steps over, array_sizes[i].                    *)
SizeAt(dims, i) == FoldLeft(LAMBDA a, b : a * b, 1, SubSeq(dims, i + 1, Len(dims)))

(* An element, or a row passed on as an argument.  A constant array read   *)
(* with constant indices is folded, as an int whatever its type is.        *)
Indexed ==
    /\ At("lval") /\ E.idx # << >>
    /\ LET s == Named(E)
           n == Len(E.idx)
           index == SubSeq(vals, Len(vals) - n + 1, Len(vals))
           offset == FoldLeft(LAMBDA a, i : a + index[i].n * SizeAt(Dims(E.id), i), 0,
                              [i \in 1 .. n |-> i])
           p == AddressIn(s.type, E.id, offset)
           folded == s.form = "const" /\ ~E.addr /\ \A i \in 1 .. n : index[i].const
           typed == /\ \A i \in 1 .. n : IsInteger(index[i])
                    /\ \A i \in 1 .. n : n > 1 \/ SizeAt(Dims(E.id), i) # 1 => IsInt32(index[i])
       IN  IF folded /\ s.type = "float"
           THEN status' = "crash" /\ UNCHANGED <<stmt, work, vals, tests, result>>
           ELSE IF folded THEN Yield(n, TRUE, Const("i32", Element(E.id, offset)))
           ELSE Yield(n, typed, IF E.addr THEN p ELSE Load(p))
    /\ UNCHANGED needLvalue

-----------------------------------------------------------------------------
(* Calls (ASTCall): each argument is visited with the flag its parameter   *)
(* asks for, and converted to the parameter's type.                        *)
VisitCall ==
    /\ AtNode("call") /\ E.id \notin Timers
    /\ Descend(FlattenSeq([i \in DOMAIN E.args |->
                   <<Then("argument", Functions[E.id].params[i]), Visit(E.args[i]),
                     Then("convert", Functions[E.id].params[i])>>])
               \o <<Then("call", E)>>)
    /\ UNCHANGED needLvalue

(* starttime and stoptime get the line of the call for an argument.        *)
VisitTimer ==
    /\ AtNode("call") /\ E.id \in Timers
    /\ Replace(<<Then("call", E)>>)
    /\ vals' = Append(vals, Const("i32", E.line))
    /\ UNCHANGED <<stmt, needLvalue, status, tests, result>>

Argument ==
    /\ At("argument")
    /\ Descend(<< >>)
    /\ needLvalue' = (E \notin {"i32", "float"})

Convert ==
    /\ At("convert")
    /\ Yield(1, TRUE, CASE E = "float" /\ IsInteger(Top) -> ToFloat(Top)
                        [] E = "i32" /\ IsFloat(Top) -> ToInt(Top)
                        [] OTHER -> Top)
    /\ needLvalue' = FALSE

(* A function of the model returns a sum that tells its arguments apart;   *)
(* of a pointer it reads the element.                                      *)
Combined(ns) == FoldLeft(LAMBDA a, i : a + i * ns[i], 0, [i \in DOMAIN ns |-> i])
Passed(v) == IF v.at # << >> THEN Element(v.at[1], v.at[2]) ELSE v.n

Call ==
    /\ At("call")
    /\ LET f == Functions[E.id]
           args == SubSeq(vals, Len(vals) - Len(f.params) + 1, Len(vals))
       IN  Yield(Len(args), \A i \in DOMAIN args : args[i].type = f.params[i],
                 Instr(f.ret, Combined([i \in DOMAIN args |-> Passed(args[i])])))
    /\ UNCHANGED needLvalue

-----------------------------------------------------------------------------
(* Conditions: the operands of && and || are tested by a branch each.  A   *)
(* visit that is not split extends an i1; the right operand of one that is *)
(* split stays as it is.                                                   *)
VisitCond(level, op, below) ==
    /\ At(level)
    /\ IF E.k = "bin" /\ E.op = op
       THEN Descend(<<Then(level, E.l), Then("test", E), Then(below, E.r)>>)
       ELSE Descend(<<Then(below, E), Then("extend", E)>>)
    /\ UNCHANGED needLvalue

VisitLOr == VisitCond("lor", "||", "land")
VisitLAnd == VisitCond("land", "&&", "visit")

ExtendNever ==                          \* Fault: no zext
    At("extend") /\ Yield(1, TRUE, Top) /\ UNCHANGED needLvalue

Extend ==
    /\ At("extend")
    /\ Yield(1, TRUE, IF Top.type = "i1" THEN Instr("i32", Top.n) ELSE Top)
    /\ UNCHANGED needLvalue

(* fcmp_ne or icmp_ne with 0, and the branch.                              *)
Test ==
    /\ At("test")
    /\ work' = Tail(work)
    /\ vals' = SubSeq(vals, 1, Len(vals) - 1)
    /\ IF IsFloat(Top) \/ IsInt32(Top)
       THEN tests' = Append(tests, Top.n # 0) /\ UNCHANGED status
       ELSE status' = "assert" /\ UNCHANGED tests
    /\ UNCHANGED <<stmt, needLvalue, result>>

-----------------------------------------------------------------------------
(* Statements: an assignment asks for an address first.                    *)
VisitStatement ==
    /\ At("statement")
    /\ CASE E.k = "assign" -> Descend(<<Visit(E.l), Visit(E.r), Then("assign", E)>>)
         [] E.k \in {"return", "exp"} -> Descend(<<Visit(E.e), Then(E.k, E)>>)
         [] E.k = "cond" -> Descend(<<Then("lor", E.e), Then("test", E), Then("end", E)>>)
    /\ needLvalue' = (needLvalue \/ E.k = "assign")

Finish(ok, v) ==
    /\ status' = IF ok THEN "done" ELSE "assert"
    /\ result' = v
    /\ work' = << >>
    /\ UNCHANGED <<stmt, vals, needLvalue, tests>>

(* Whatever differs from the variable's type and is not float is made      *)
(* float.                                                                  *)
Assign ==
    /\ At("assign")
    /\ LET v == IF Top.type = Pointee(Left) THEN Top
                ELSE IF IsFloat(Top) THEN ToInt(Top) ELSE ToFloat(Top)
       IN  Finish(v.type = Pointee(Left), v)

Return ==
    /\ At("return")
    /\ IF Top.type = E.type THEN Finish(TRUE, Top)
       ELSE IF E.type = "float" THEN Finish(IsInteger(Top), SiToFp(Top))
       ELSE Finish(IsFloat(Top), FpToSi(Top))

EndExp == At("exp") /\ Finish(TRUE, Top)

EndCond == At("end") /\ Finish(TRUE, result)

Next ==
    \/ VisitStatement \/ VisitNumber \/ VisitUnary \/ VisitBinary \/ VisitLVal \/ VisitCall
    \/ Unary \/ Add \/ Mul \/ Comparison \/ Name \/ Indexed
    \/ VisitTimer \/ Argument \/ Convert \/ Call
    \/ VisitLOr \/ VisitLAnd \/ Extend \/ Test
    \/ Assign \/ Return \/ EndExp \/ EndCond
    \/ status # "go" /\ UNCHANGED vars

Spec == Init /\ [][Next]_vars

-----------------------------------------------------------------------------
(* What an expression means in C: its type and value.                      *)
Num(type, n) == [type |-> type, n |-> n]
AsFloat(m) == IF m.type = "float" THEN m.n ELSE 2 * m.n
AsInt(m) == IF m.type = "float" THEN Quot(m.n, 2) ELSE m.n
As(type, m) == Num(type, IF type = "float" THEN AsFloat(m) ELSE AsInt(m))

RECURSIVE Meaning(_)
Meaning(e) ==
    LET index(i) == IF i > Len(e.idx) THEN 0 ELSE Meaning(e.idx[i]).n
        dims == Dims(e.id)
        offset == FoldLeft(LAMBDA a, i : a * dims[i] + index(i), 0, [i \in DOMAIN dims |-> i])
        l == Meaning(e.l) r == Meaning(e.r)
        float == "float" \in {l.type, r.type}
        param(i) == Functions[e.id].params[i]
        passed(i) == IF param(i) \in {"i32", "float"} THEN As(param(i), Meaning(e.args[i])).n
                     ELSE Meaning(e.args[i]).n
    IN CASE e.k = "num" -> Num(e.type, e.n)
         [] e.k = "lval" -> Num(Symbols[e.id].type, Element(Base(e.id)[1], Base(e.id)[2] + offset))
         [] e.k = "un" ->
              LET m == Meaning(e.arg)
              IN  IF e.op = "!" THEN Num("i32", Bool(m.n = 0))
                  ELSE Num(m.type, IF e.op = "-" THEN -m.n ELSE m.n)
         [] e.k = "bin" /\ e.op \in Compares ->
              Num("i32", IF float THEN Compare(e.op, AsFloat(l), AsFloat(r))
                         ELSE Compare(e.op, l.n, r.n))
         [] e.k = "bin" /\ e.op \notin Compares ->
              IF float THEN Num("float", FloatOp(e.op, AsFloat(l), AsFloat(r)))
              ELSE Num("i32", IntOp(e.op, l.n, r.n))
         [] e.k = "call" ->
              Num(Functions[e.id].ret,
                  IF e.id \in Timers THEN e.line
                  ELSE Combined([i \in DOMAIN e.args |-> passed(i)]))

RECURSIVE Subexps(_)
Children(e) ==
    CASE e.k = "num" -> << >> [] e.k = "lval" -> e.idx [] e.k = "un" -> <<e.arg>>
      [] e.k = "bin" -> <<e.l, e.r>> [] e.k = "call" -> e.args
      [] e.k = "assign" -> <<e.l, e.r>> [] e.k \in {"return", "cond", "exp"} -> <<e.e>>
Subexps(e) == {e} \cup UNION {Subexps(c) : c \in ToSet(Children(e))}
IsOp(e, ops) == e.k \in {"un", "bin"} /\ e.op \in ops

(* The operands of && and || of a condition, in the order they are tested. *)
RECURSIVE Operands(_)
Operands(e) == IF IsOp(e, {"&&", "||"}) THEN Operands(e.l) \o Operands(e.r) ELSE <<e>>

(* What the builder has a constant for.                                    *)
RECURSIVE Folds(_)
Folds(e) ==
    /\ \A c \in ToSet(Children(e)) : Folds(c)
    /\ e.k = "lval" => Symbols[e.id].form = "const"
    /\ e.k # "call"
    /\ e.k = "bin" /\ e.op \in Compares => Meaning(e.l).type = Meaning(e.r).type

FoldedTest(e) == IsOp(e, Compares \cup {"!"}) /\ Folds(e)
Undefined(e) ==
    /\ IsOp(e, {"/", "%"})
    /\ IF "float" \in {Meaning(e.l).type, Meaning(e.r).type} THEN Meaning(e.r).n = 0
       ELSE NoQuotient(Meaning(e.l).n, Meaning(e.r).n)

(* A comparison or ! of constants whose value is used for anything but to  *)
(* be tested, or which ends an && that another && goes on, or that is the  *)
(* right operand of ||.                                                    *)
TestIsValue ==
    LET tested == IF stmt.k = "cond" THEN ToSet(Operands(stmt.e)) ELSE {}
        ended(e) == IsOp(e, {"&&"}) /\ FoldedTest(e.r)
    IN  \E e \in Subexps(stmt) :
            \/ \E c \in ToSet(Children(e)) : FoldedTest(c) /\ c \notin tested
            \/ IsOp(e, {"&&"}) /\ ended(e.l)
            \/ IsOp(e, {"||"}) /\ ended(e.r)

-----------------------------------------------------------------------------
(* The flag is up only while the left value it was raised for is the next  *)
(* to be visited, and an address is what every left value ends as that     *)
(* needs one, and no other: the target of the assignment and an argument   *)
(* for a pointer, not the indices inside them.                             *)
AddressesWhereWanted ==
    LET assigned(i) == stmt.k = "assign" /\ i = Len(work) - 2 /\ work[i + 1] = Visit(stmt.r)
        passed(i) == i < Len(work) /\ work[i + 1].do = "convert"
                     /\ work[i + 1].e \notin {"i32", "float"}
    IN  status = "go" =>
            /\ needLvalue => AtNode("lval") /\ (assigned(1) \/ passed(1))
            /\ \A i \in DOMAIN work :
                   work[i].do = "lval" => (work[i].e.addr <=> (assigned(i) \/ passed(i)))

(* The compiler gives up on no statement but on those three kinds: a       *)
(* folded test used as a value, an element of a constant float array, a    *)
(* division of constant ints by zero or of the smallest one by -1.         *)
FailsOnlyOnConstants ==
    /\ status = "assert" => TestIsValue
    /\ status = "crash" => \E e \in Subexps(stmt) :
                               e.k = "lval" /\ Folds(e) /\ Symbols[e.id].type = "float"
    /\ status = "ub" => \E e \in Subexps(stmt) :
                            IsOp(e, {"/", "%"}) /\ Folds(e) /\ Meaning(e).type = "i32" /\ Undefined(e)

(* Everything else means what it means in C, whichever parts are folded    *)
(* and whichever are instructions: the value stored or returned, in the    *)
(* type of the variable or function, and the outcome of each branch.       *)
SameValue ==
    status = "done" /\ ~TestIsValue /\ (\A e \in Subexps(stmt) : ~Undefined(e)) =>
        CASE stmt.k = "assign" ->
               As(Symbols[stmt.l.id].type, Meaning(stmt.r)) = Num(result.type, result.n)
          [] stmt.k = "return" -> As(stmt.type, Meaning(stmt.e)) = Num(result.type, result.n)
          [] stmt.k = "exp" -> result.n = Meaning(stmt.e).n
          [] stmt.k = "cond" ->
               tests = [i \in DOMAIN Operands(stmt.e) |-> Meaning(Operands(stmt.e)[i]).n # 0]

=============================================================================
