------------------------------- MODULE Scope -------------------------------
(***************************************************************************)
(* The symbol table of SysYBuilder: class Scope keeps one stack of maps    *)
(* for variables, one for functions, one for the dimensions of arrays and  *)
(* one for the initialisers of constant arrays.  An array expression is    *)
(* lowered from three independent look-ups, which have to speak of the     *)
(* same declaration (visit(ASTLVal)).                                      *)
(*                                                                         *)
(* A map takes names to the number of the declaration that made the entry; *)
(* `env` is the source program's view: the declarations in force, with the *)
(* order they were made in and the depth of their scope.                   *)
(***************************************************************************)
EXTENDS Integers, Sequences, FiniteSets, SequencesExt, FiniteSetsExt

CONSTANTS
    Names,
    MaxDepth,   \* bound: scopes open at once, the global one included
    MaxDecls    \* bound: declarations made in a run

ASSUME BoundsAssumption == MaxDepth \in Nat /\ MaxDecls \in Nat

VARIABLES
    vars_,      \* Variableinner
    funcs,      \* Functioninner
    params,     \* array_param
    consts,     \* Constinner
    made,       \* declarations made so far
    env

tables == <<vars_, funcs, params, consts>>
vars == <<tables, made, env>>

None == 0
Kinds == {"scalar", "array", "constArray"}
Empty == [n \in {} |-> None]
Depth == Len(vars_)

(* The parameters have a scope of their own, the body is a Block in it.    *)
ParamDepth == 2
BodyDepth == 3

(* SysYBuilder's constructor enters the global scope.                      *)
Init ==
    /\ vars_ = <<Empty>> /\ funcs = <<Empty>>
    /\ params = <<Empty>> /\ consts = <<Empty>>
    /\ made = 0 /\ env = {}

(* Block, and each branch of if and while, in a function.                  *)
Enter ==
    /\ Depth >= ParamDepth /\ Depth < MaxDepth
    /\ vars_' = Append(vars_, Empty) /\ funcs' = Append(funcs, Empty)
    /\ params' = Append(params, Empty) /\ consts' = Append(consts, Empty)
    /\ UNCHANGED <<made, env>>

InForce(d) == {e \in env : e.depth <= d}

Exit ==
    /\ Depth > BodyDepth
    /\ vars_' = Front(vars_) /\ funcs' = Front(funcs)
    /\ params' = Front(params) /\ consts' = Front(consts)
    /\ env' = InForce(Depth - 1)
    /\ UNCHANGED made

(* push and its siblings: std::map::insert in the innermost map.           *)
Push(stack, n, id) ==
    LET top == Last(stack) IN
    IF n \in DOMAIN top THEN stack
    ELSE Append(Front(stack), [m \in DOMAIN top \cup {n} |-> IF m = n THEN id ELSE top[m]])

IsFunction(e) == e.kind = "function"
Entry(n, kind) == [name |-> n, kind |-> kind, depth |-> Depth, id |-> made + 1]
Declared(n, isFunction) ==
    \E e \in env : e.name = n /\ e.depth = Depth /\ (IsFunction(e) <=> isFunction)

(* A variable in the innermost scope; no scope declares a name twice.      *)
Bind(n, kind) ==
    LET id == made + 1 IN
    /\ made < MaxDecls
    /\ ~Declared(n, FALSE)
    /\ vars_' = Push(vars_, n, id)
    /\ params' = IF kind \in {"array", "constArray"} THEN Push(params, n, id) ELSE params
    /\ consts' = IF kind = "constArray" THEN Push(consts, n, id) ELSE consts
    /\ made' = id
    /\ env' = env \cup {Entry(n, kind)}
    /\ UNCHANGED funcs

(* ConstDef and VarDef                                                     *)
Declare(n, kind) == Depth # ParamDepth /\ Bind(n, kind)

(* FuncDef: the function goes into the outermost scope and opens one for   *)
(* its parameters.                                                         *)
DefineFunction(n) ==
    /\ Depth = 1 /\ made < MaxDecls
    /\ ~Declared(n, TRUE)
    /\ vars_' = Append(vars_, Empty)
    /\ funcs' = Append(Push(funcs, n, made + 1), Empty)
    /\ params' = Append(params, Empty) /\ consts' = Append(consts, Empty)
    /\ made' = made + 1
    /\ env' = env \cup {Entry(n, "function")}

(* One round of its loop over the parameters; array bounds are evaluated   *)
(* in between.                                                             *)
DeclareParameter(n, kind) == Depth = ParamDepth /\ Bind(n, kind)

(* The end of the body, and of FuncDef.                                    *)
FinishFunction ==
    /\ Depth = BodyDepth
    /\ vars_' = Front(Front(vars_)) /\ funcs' = Front(Front(funcs))
    /\ params' = Front(Front(params)) /\ consts' = Front(Front(consts))
    /\ env' = InForce(1)
    /\ UNCHANGED made

EndOfProgram == Depth = 1 /\ UNCHANGED vars

Next ==
    \/ EndOfProgram \/ Enter \/ Exit \/ FinishFunction
    \/ \E n \in Names, kind \in Kinds : Declare(n, kind)
    \/ \E n \in Names : DefineFunction(n)
    \/ \E n \in Names, kind \in {"scalar", "array"} : DeclareParameter(n, kind)

Spec == Init /\ [][Next]_vars

-----------------------------------------------------------------------------
(* Fault: the maps are searched from the outermost scope inwards.          *)
FindOutermost(stack, n) ==
    LET at == {i \in DOMAIN stack : n \in DOMAIN stack[i]}
    IN  IF at = {} THEN None ELSE stack[Min(at)][n]

(* find, find_func, find_const, find_params: from the innermost outwards.  *)
Find(stack, n) ==
    LET at == {i \in DOMAIN stack : n \in DOMAIN stack[i]}
    IN  IF at = {} THEN None ELSE stack[Max(at)][n]

(* The declaration a use of the name refers to in the source: the latest   *)
(* one in force.                                                           *)
Refers(n, isFunction) ==
    {e \in env : e.name = n /\ (IsFunction(e) <=> isFunction)}
Latest(n, isFunction) ==
    CHOOSE e \in Refers(n, isFunction) : \A d \in Refers(n, isFunction) : d.id <= e.id

(* Every look-up finds the declaration the source refers to, after any     *)
(* nesting of scopes and shadowing: the variable or function itself, the   *)
(* dimensions if it is an array, the initialiser if it is a constant one.  *)
LookupIsLexical ==
    \A n \in Names :
        /\ LET id == IF Refers(n, TRUE) = {} THEN None ELSE Latest(n, TRUE).id
           IN  Find(funcs, n) = id
        /\ IF Refers(n, FALSE) = {}
           THEN Find(vars_, n) = None /\ Find(params, n) = None /\ Find(consts, n) = None
           ELSE LET e == Latest(n, FALSE) IN
                /\ Find(vars_, n) = e.id
                /\ e.kind \in {"array", "constArray"} => Find(params, n) = e.id
                /\ e.kind = "constArray" => Find(consts, n) = e.id

(* SysY_builder.cpp:37: "find and return the value bound to the name".  A  *)
(* constant initialiser found for an array, whose elements visit(ASTLVal)  *)
(* then folds, is that of the declaration the name is bound to.            *)
ConstantIsBound ==
    \A n \in Names :
        Refers(n, FALSE) # {} /\ Latest(n, FALSE).kind = "array" => Find(consts, n) = None

=============================================================================
