-------------------------------- MODULE Ast --------------------------------
(***************************************************************************)
(* The parser's CompUnit, and its tree turned into the abstract syntax     *)
(* tree (ast.cpp).                                                         *)
(*                                                                         *)
(* A node of the parser is [name, children]; a token is a node without     *)
(* children, named by its text, so identifiers, keywords and nonterminals  *)
(* are told apart by nothing but their names.  Lists are left-recursive    *)
(* in the grammar and vectors in the AST: every one is walked from its     *)
(* last element to its first, on a stack.                                  *)
(*                                                                         *)
(* A node of the AST is a record whose k names its class and whose other   *)
(* fields are those of the class in ast.hpp; a pointer that is null is a   *)
(* field that is absent.                                                   *)
(***************************************************************************)
EXTENDS Integers, Sequences, SequencesExt, TLC

CONSTANTS
    Files,      \* source files: sequences of Decl trees, and of Broken
    Literals,   \* number tokens: text -> [integer, hex, digits, means, fits]
    LongTokens, \* tokens that fill syntax_tree_node::name (30 bytes): identifiers, numbers
    MaxInt      \* the largest int, INT_MAX made small

VARIABLES
    file, unread,  \* the source file, and what the parser has not read of it
    tree,          \* gt->root
    list_ptr,      \* the CompUnit the walk has reached
    s,             \* the stack, its top first
    declarations,  \* what the AST holds so far
    status         \* "parse", "walk", "build", "done", "throw", "ub"

vars == <<file, unread, tree, list_ptr, s, declarations, status>>

(* A declaration with a syntax error in it, and gt->root left unset.        *)
Broken == [name |-> "syntax error", children |-> << >>]
Garbage == [name |-> "uninitialised", children |-> << >>]

(* As in the code, children are counted from 0.                            *)
Child(n, i) == n.children[i + 1]
ChildrenNum(n) == Len(n.children)
Name(n, i) == Child(n, i).name

-----------------------------------------------------------------------------
(* The walk of a list: while the node has width children, push child item  *)
(* and go on with child 0, then push the children last of the innermost.   *)
RECURSIVE ElementsQueued(_, _, _, _)     \* Fault: a queue where a stack is needed
ElementsQueued(l, width, item, last) ==
    IF ChildrenNum(l) = width
    THEN <<Child(l, item)>> \o ElementsQueued(Child(l, 0), width, item, last)
    ELSE [i \in DOMAIN last |-> Child(l, last[i])]

RECURSIVE Elements(_, _, _, _)
Elements(l, width, item, last) ==
    IF ChildrenNum(l) = width
    THEN Append(Elements(Child(l, 0), width, item, last), Child(l, item))
    ELSE [i \in DOMAIN last |-> Child(l, last[i])]

RECURSIVE Transform(_)
Each(nodes) == [i \in DOMAIN nodes |-> Transform(nodes[i])]
CommaList(l) == Each(Elements(l, 3, 2, <<0>>))

BType(n) == Name(n, 0)

Decl(n) ==
    [k |-> "Decl"] @@
    CASE Name(n, 0) = "ConstDecl" -> [const_decl |-> Transform(Child(n, 0))]
      [] Name(n, 0) = "VarDecl" -> [var_decl |-> Transform(Child(n, 0))]
      [] Name(n, 0) = "FuncDef" -> [func_def |-> Transform(Child(n, 0))]

ConstDecl(n) ==
    [k |-> "ConstDecl", type |-> BType(Child(n, 1)), const_defs |-> CommaList(Child(n, 2))]

ConstDef(n) ==
    [k |-> "ConstDef", id |-> Name(n, 0)] @@
    IF Name(n, 1) = "ConstArrayIdent"
    THEN [const_array_ident |-> Transform(Child(n, 1)), const_init_val |-> Transform(Child(n, 3))]
    ELSE [const_init_val |-> Transform(Child(n, 2))]

ConstArrayIdent(n) == [k |-> "ConstArrayIdent", const_exps |-> Each(Elements(n, 4, 2, <<1>>))]

ConstInitVal(n) ==
    [k |-> "ConstInitVal"] @@
    CASE Name(n, 0) = "ConstExp" ->
           [const_exp |-> Transform(Child(n, 0)), const_init_vals |-> << >>]
      [] Name(n, 0) # "ConstExp" /\ Name(n, 1) = "ConstInitValArrayList" ->
           [const_init_vals |-> CommaList(Child(n, 1))]
      [] OTHER -> [const_init_vals |-> << >>]

VarDecl(n) ==
    [k |-> "VarDecl", type |-> BType(Child(n, 0)), var_defs |-> CommaList(Child(n, 1))]

VarDef(n) ==
    [k |-> "VarDef", id |-> Name(n, 0)] @@
    CASE ChildrenNum(n) = 2 -> [array_ident |-> Transform(Child(n, 1))]
      [] ChildrenNum(n) = 3 ->
           [init_val |-> [k |-> "InitVal", exp |-> Transform(Child(n, 2)), init_vals |-> << >>]]
      [] ChildrenNum(n) = 4 ->
           [array_ident |-> Transform(Child(n, 1)), init_val |-> Transform(Child(n, 3))]
      [] OTHER -> << >>

InitVal(n) ==
    [k |-> "InitVal"] @@
    CASE ChildrenNum(n) = 1 -> [exp |-> Transform(Child(n, 0)), init_vals |-> << >>]
      [] ChildrenNum(n) = 3 -> [init_vals |-> CommaList(Child(n, 1))]
      [] OTHER -> [init_vals |-> << >>]

FuncDef(n) ==
    [k |-> "FuncDef",
     type |-> IF Name(n, 0) = "BType" THEN BType(Child(n, 0)) ELSE "void",
     id |-> Name(n, 1),
     func_fparams |-> IF ChildrenNum(n) = 6 THEN CommaList(Child(n, 3)) ELSE << >>,
     block |-> Transform(Child(n, ChildrenNum(n) - 1))]

FuncFParam(n) ==
    [k |-> "FuncFParam", type |-> BType(Child(n, 0)), id |-> Name(n, 1),
     isarray |-> ChildrenNum(n) = 5] @@
    IF ChildrenNum(n) = 5 THEN [array_ident |-> Transform(Child(n, 4))] ELSE << >>

FuncArrayIdent(n) == [k |-> "FuncArrayIdent", exps |-> Each(Elements(n, 4, 2, << >>))]

Block(n) ==
    [k |-> "Block",
     block_items |->
        IF ChildrenNum(n) = 3 THEN Each(Elements(Child(n, 1), 2, 1, <<0>>)) ELSE << >>]

BlockItem(n) ==
    [k |-> "BlockItem"] @@
    CASE Name(n, 0) = "Stmt" -> [stmt |-> Transform(Child(n, 0))]
      [] Name(n, 0) = "ConstDecl" -> [const_decl |-> Transform(Child(n, 0))]
      [] Name(n, 0) = "VarDecl" -> [var_decl |-> Transform(Child(n, 0))]

AssignStmt(n) ==
    [k |-> "AssignStmt", l_val |-> Transform(Child(n, 0)), exp |-> Transform(Child(n, 2))]
SelectionStmt(n) ==
    [k |-> "SelectionStmt", cond |-> Transform(Child(n, 2)), if_stmt |-> Transform(Child(n, 4))] @@
    IF ChildrenNum(n) = 7 THEN [else_stmt |-> Transform(Child(n, 6))] ELSE << >>
IterationStmt(n) ==
    [k |-> "IterationStmt", cond |-> Transform(Child(n, 2)), stmt |-> Transform(Child(n, 4))]
ReturnStmt(n) ==
    [k |-> "ReturnStmt"] @@
    IF ChildrenNum(n) = 3 THEN [exp |-> Transform(Child(n, 1))] ELSE << >>

Stmt(n) ==
    [k |-> "Stmt"] @@
    CASE Name(n, 0) = "LVal" -> [assign_stmt |-> AssignStmt(n)]
      [] Name(n, 0) = "Exp" -> [exp |-> Transform(Child(n, 0))]
      [] Name(n, 0) = "Block" -> [block |-> Transform(Child(n, 0))]
      [] Name(n, 0) = "if" -> [selection_stmt |-> SelectionStmt(n)]
      [] Name(n, 0) = "while" -> [iteration_stmt |-> IterationStmt(n)]
      [] Name(n, 0) = "return" -> [return_stmt |-> ReturnStmt(n)]
      [] Name(n, 0) = "break" -> [break_stmt |-> [k |-> "BreakStmt"]]
      [] Name(n, 0) = "continue" -> [continue_stmt |-> [k |-> "ContinueStmt"]]
      [] OTHER -> << >>

LVal(n) ==
    [k |-> "LVal", id |-> Name(n, 0)] @@
    IF ChildrenNum(n) = 2 THEN [array_ident |-> Transform(Child(n, 1))] ELSE << >>

ArrayIdent(n) == [k |-> "ArrayIdent", exps |-> Each(Elements(n, 4, 2, <<1>>))]

PrimaryExp(n) ==
    [k |-> "PrimaryExp"] @@
    CASE ChildrenNum(n) = 3 -> [exp |-> Transform(Child(n, 1))]
      [] ChildrenNum(n) # 3 /\ Name(n, 0) = "LVal" -> [l_val |-> Transform(Child(n, 0))]
      [] ChildrenNum(n) # 3 /\ Name(n, 0) = "Number" -> [number |-> Transform(Child(n, 0))]

(* std::stoi stops at the x of a hexadecimal number unless the base is 16. *)
Stoi(literal, base) ==
    IF literal.hex /\ base # 16 THEN 0
    ELSE FoldLeft(LAMBDA n, d : base * n + d, 0, literal.digits)

IntBaseNoOctal(text) == IF Literals[text].hex THEN 16 ELSE 10  \* Fault: 0177 is 177

IntBase(text) ==
    CASE Literals[text].hex -> 16
      [] ~Literals[text].hex /\ Head(Literals[text].digits) = 0 /\ text # "0" -> 8
      [] OTHER -> 10

Number(n) ==
    LET text == Name(Child(n, 0), 0)
    IN  [k |-> "Number"] @@
        IF Name(n, 0) = "Integer"
        THEN [type |-> "int", int_val |-> Stoi(Literals[text], IntBase(text))]
        ELSE [type |-> "float", float_val |-> text]

UnaryOp(n) == CASE Name(n, 0) = "-" -> "OP_NEG" [] Name(n, 0) = "!" -> "OP_NOT"
                [] Name(n, 0) = "+" -> "OP_POS"

Call(n) ==
    [k |-> "Call", id |-> Name(n, 0),
     exps |-> IF ChildrenNum(n) = 4 THEN CommaList(Child(n, 2)) ELSE << >>]

UnaryExp(n) ==
    [k |-> "UnaryExp"] @@
    CASE Name(n, 0) = "PrimaryExp" -> [primary_exp |-> Transform(Child(n, 0))]
      [] Name(n, 0) = "UnaryOp" ->
           [op |-> UnaryOp(Child(n, 0)), unary_exp |-> Transform(Child(n, 1))]
      [] OTHER -> [call |-> Call(n)]

(* The levels of binary operators: right alone, or left, operator, right.  *)
Binary(n, left, right, op) ==
    [k |-> n.name] @@
    IF ChildrenNum(n) = 1 THEN right :> Transform(Child(n, 0))
    ELSE left :> Transform(Child(n, 0)) @@ right :> Transform(Child(n, 2))
         @@ "op" :> op

MulOp(text) == CASE text = "*" -> "OP_MUL" [] text = "/" -> "OP_DIV" [] text = "%" -> "OP_MOD"
AddOp(text) == CASE text = "+" -> "OP_PLUS" [] text = "-" -> "OP_MINUS"
RelOp(text) == CASE text = "<" -> "OP_LT" [] text = ">" -> "OP_GT"
                 [] text = "<=" -> "OP_LE" [] text = ">=" -> "OP_GE"
EqOp(text) == IF text = "==" THEN "OP_EQ" ELSE "OP_NEQ"
OrOp(text) == "OP_OR"
AndOp(text) == "OP_AND"

MulExp(n) == Binary(n, "mul_exp", "unary_exp", MulOp(Name(n, 1)))
AddExp(n) == Binary(n, "add_exp", "mul_exp", AddOp(Name(n, 1)))
RelExp(n) == Binary(n, "rel_exp", "add_exp", RelOp(Name(n, 1)))
EqExp(n) == Binary(n, "eq_exp", "rel_exp", EqOp(Name(n, 1)))
LAndExp(n) == Binary(n, "l_and_exp", "eq_exp", AndOp(Name(n, 1)))
LOrExp(n) == Binary(n, "l_or_exp", "l_and_exp", OrOp(Name(n, 1)))

Exp(n) == [k |-> "Exp", add_exp |-> Transform(Child(n, 0))]
Cond(n) == [k |-> "Cond", l_or_exp |-> Transform(Child(n, 0))]
ConstExp(n) == [k |-> "ConstExp", add_exp |-> Transform(Child(n, 0))]

Transform(n) ==
    CASE n.name = "Decl" -> Decl(n)
      [] n.name = "ConstDecl" -> ConstDecl(n)
      [] n.name = "ConstDef" -> ConstDef(n)
      [] n.name = "ConstArrayIdent" -> ConstArrayIdent(n)
      [] n.name = "ConstInitVal" -> ConstInitVal(n)
      [] n.name = "VarDecl" -> VarDecl(n)
      [] n.name = "VarDef" -> VarDef(n)
      [] n.name = "InitVal" -> InitVal(n)
      [] n.name = "FuncDef" -> FuncDef(n)
      [] n.name = "FuncFParam" -> FuncFParam(n)
      [] n.name = "FuncArrayIdent" -> FuncArrayIdent(n)
      [] n.name = "Block" -> Block(n)
      [] n.name = "BlockItem" -> BlockItem(n)
      [] n.name = "Stmt" -> Stmt(n)
      [] n.name = "Exp" -> Exp(n)
      [] n.name = "Cond" -> Cond(n)
      [] n.name = "LVal" -> LVal(n)
      [] n.name = "ArrayIdent" -> ArrayIdent(n)
      [] n.name = "PrimaryExp" -> PrimaryExp(n)
      [] n.name = "Number" -> Number(n)
      [] n.name = "UnaryExp" -> UnaryExp(n)
      [] n.name = "MulExp" -> MulExp(n)
      [] n.name = "AddExp" -> AddExp(n)
      [] n.name = "RelExp" -> RelExp(n)
      [] n.name = "EqExp" -> EqExp(n)
      [] n.name = "LAndExp" -> LAndExp(n)
      [] n.name = "LOrExp" -> LOrExp(n)
      [] n.name = "ConstExp" -> ConstExp(n)

-----------------------------------------------------------------------------
(* What stops it.  A call is recognised by elimination, so the name of the *)
(* function may be that of a nonterminal, and the token has no children;   *)
(* a token of 30 bytes or more is not terminated, and whatever reads it,   *)
(* stoi and stof included, goes on behind the array; stoi and stof throw   *)
(* on a number out of range.                                               *)
RECURSIVE Preorder(_)
Preorder(n) == <<n>> \o FlattenSeq([i \in DOMAIN n.children |-> Preorder(n.children[i])])

NameTaken(n) ==
    /\ n.name = "UnaryExp" /\ n.children # << >>
    /\ Name(n, 0) \in {"PrimaryExp", "UnaryOp"} /\ ChildrenNum(Child(n, 0)) = 0
NotTerminated(n) == n.name \in LongTokens
OutOfRange(n) ==
    /\ n.name = "Number" /\ n.children # << >> /\ ~NotTerminated(Child(Child(n, 0), 0))
    /\ LET text == Name(Child(n, 0), 0)
       IN  IF Name(n, 0) = "Integer" THEN Stoi(Literals[text], IntBase(text)) > MaxInt
           ELSE ~Literals[text].fits

Failures(n) ==
    SelectSeq(Preorder(n), LAMBDA m : NameTaken(m) \/ NotTerminated(m) \/ OutOfRange(m))

-----------------------------------------------------------------------------
(* The parser: a CompUnit is reduced at the end of each declaration, and   *)
(* only the reductions set the root.                                       *)
Init ==
    /\ file \in Files /\ unread = file
    /\ tree = Garbage /\ list_ptr = Garbage
    /\ s = << >> /\ declarations = << >> /\ status = "parse"

CompUnitAlone ==                        \* Fault: each declaration a root of its own
    /\ status = "parse" /\ unread # << >> /\ Head(unread) # Broken
    /\ tree' = [name |-> "CompUnit", children |-> <<Head(unread)>>]
    /\ unread' = Tail(unread)
    /\ UNCHANGED <<file, list_ptr, s, declarations, status>>

CompUnit ==
    /\ status = "parse" /\ unread # << >> /\ Head(unread) # Broken
    /\ tree' = [name |-> "CompUnit",
                children |-> IF tree = Garbage THEN <<Head(unread)>> ELSE <<tree, Head(unread)>>]
    /\ unread' = Tail(unread)
    /\ UNCHANGED <<file, list_ptr, s, declarations, status>>

(* yyparse returns, at the end of the file or at an error, and its result  *)
(* is ignored.  Without a declaration the AST starts from a wild pointer.  *)
Parsed ==
    /\ status = "parse" /\ (unread # << >> => Head(unread) = Broken)
    /\ list_ptr' = tree
    /\ status' = IF tree = Garbage THEN "ub" ELSE "walk"
    /\ UNCHANGED <<file, unread, tree, s, declarations>>

-----------------------------------------------------------------------------
(* transform_node_iter of the root, one declaration at a time.             *)
PushDecl ==
    /\ status = "walk" /\ ChildrenNum(list_ptr) = 2
    /\ s' = <<Child(list_ptr, 1)>> \o s
    /\ list_ptr' = Child(list_ptr, 0)
    /\ UNCHANGED <<file, unread, tree, declarations, status>>

PushFirstDecl ==
    /\ status = "walk" /\ ChildrenNum(list_ptr) # 2
    /\ s' = <<Child(list_ptr, 0)>> \o s
    /\ status' = "build"
    /\ UNCHANGED <<file, unread, tree, list_ptr, declarations>>

TransformDecl ==
    /\ status = "build" /\ s # << >> /\ Failures(Head(s)) = << >>
    /\ declarations' = Append(declarations, Transform(Head(s)))
    /\ s' = Tail(s)
    /\ UNCHANGED <<file, unread, tree, list_ptr, status>>

Fail ==
    /\ status = "build" /\ s # << >> /\ Failures(Head(s)) # << >>
    /\ status' = IF OutOfRange(Head(Failures(Head(s)))) THEN "throw" ELSE "ub"
    /\ UNCHANGED <<file, unread, tree, list_ptr, s, declarations>>

Finish ==
    /\ status = "build" /\ s = << >>
    /\ status' = "done"
    /\ UNCHANGED <<file, unread, tree, list_ptr, s, declarations>>

Stopped == status \in {"done", "throw", "ub"} /\ UNCHANGED vars

Next == CompUnit \/ Parsed \/ PushDecl \/ PushFirstDecl \/ TransformDecl \/ Fail \/ Finish \/ Stopped

Spec == Init /\ [][Next]_vars

-----------------------------------------------------------------------------
(* What a visitor sees: accept of the three classes that stand for one of  *)
(* several goes to the first pointer that is set, in this order.           *)
FirstSet(n, fields) ==
    LET set == SelectSeq(fields, LAMBDA f : f \in DOMAIN n)
    IN  IF set = << >> THEN "nullptr" ELSE Head(set)

AcceptDecl(n) == FirstSet(n, <<"const_decl", "var_decl", "func_def">>)
AcceptBlockItem(n) == FirstSet(n, <<"stmt", "const_decl", "var_decl">>)
AcceptStmt(n) ==
    FirstSet(n, <<"assign_stmt", "exp", "block", "selection_stmt", "iteration_stmt",
                  "return_stmt", "break_stmt", "continue_stmt">>)

-----------------------------------------------------------------------------
(* The program text a node of the AST stands for, in the words of the      *)
(* language, and the text the parser has read: numbers by their values.    *)
Spelling ==
    [OP_MUL |-> "*", OP_DIV |-> "/", OP_MOD |-> "%", OP_PLUS |-> "+", OP_MINUS |-> "-",
     OP_LT |-> "<", OP_GT |-> ">", OP_LE |-> "<=", OP_GE |-> ">=", OP_EQ |-> "==",
     OP_NEQ |-> "!=", OP_AND |-> "&&", OP_OR |-> "||",
     OP_NEG |-> "-", OP_NOT |-> "!", OP_POS |-> "+"]

Levels ==
    [MulExp |-> <<"mul_exp", "unary_exp">>, AddExp |-> <<"add_exp", "mul_exp">>,
     RelExp |-> <<"rel_exp", "add_exp">>, EqExp |-> <<"eq_exp", "rel_exp">>,
     LAndExp |-> <<"l_and_exp", "eq_exp">>, LOrExp |-> <<"l_or_exp", "l_and_exp">>]

RECURSIVE Text(_)
Texts(nodes) == [i \in DOMAIN nodes |-> Text(nodes[i])]
Listed(nodes) ==
    FlattenSeq([i \in DOMAIN nodes |-> (IF i = 1 THEN << >> ELSE <<",">>) \o Text(nodes[i])])
Indexed(nodes) == FlattenSeq([i \in DOMAIN nodes |-> <<"[">> \o Text(nodes[i]) \o <<"]">>])
Has(n, field) == field \in DOMAIN n
Optional(n, field) == IF Has(n, field) THEN Text(n[field]) ELSE << >>
Initialiser(n) == IF Has(n, "init_val") THEN <<"=">> \o Text(n.init_val) ELSE << >>

Text(n) ==
    CASE n.k = "Decl" -> Text(n[AcceptDecl(n)])
      [] n.k = "BlockItem" -> Text(n[AcceptBlockItem(n)])
      [] n.k = "ConstDecl" -> <<"const", n.type>> \o Listed(n.const_defs) \o <<";">>
      [] n.k = "VarDecl" -> <<n.type>> \o Listed(n.var_defs) \o <<";">>
      [] n.k = "ConstDef" ->
           <<n.id>> \o Optional(n, "const_array_ident") \o <<"=">> \o Text(n.const_init_val)
      [] n.k = "VarDef" -> <<n.id>> \o Optional(n, "array_ident") \o Initialiser(n)
      [] n.k = "ConstInitVal" ->
           IF Has(n, "const_exp") THEN Text(n.const_exp)
           ELSE <<"{">> \o Listed(n.const_init_vals) \o <<"}">>
      [] n.k = "InitVal" ->
           IF Has(n, "exp") THEN Text(n.exp) ELSE <<"{">> \o Listed(n.init_vals) \o <<"}">>
      [] n.k = "ConstArrayIdent" -> Indexed(n.const_exps)
      [] n.k \in {"ArrayIdent", "FuncArrayIdent"} -> Indexed(n.exps)
      [] n.k = "FuncDef" ->
           <<n.type, n.id, "(">> \o Listed(n.func_fparams) \o <<")">> \o Text(n.block)
      [] n.k = "FuncFParam" ->
           <<n.type, n.id>>
           \o (IF n.isarray THEN <<"[", "]">> \o Optional(n, "array_ident") ELSE << >>)
      [] n.k = "Block" -> <<"{">> \o FlattenSeq(Texts(n.block_items)) \o <<"}">>
      [] n.k = "Stmt" /\ AcceptStmt(n) = "nullptr" -> <<";">>
      [] n.k = "Stmt" /\ AcceptStmt(n) = "exp" -> Text(n.exp) \o <<";">>
      [] n.k = "Stmt" /\ AcceptStmt(n) \notin {"nullptr", "exp"} -> Text(n[AcceptStmt(n)])
      [] n.k = "AssignStmt" -> Text(n.l_val) \o <<"=">> \o Text(n.exp) \o <<";">>
      [] n.k = "SelectionStmt" ->
           <<"if", "(">> \o Text(n.cond) \o <<")">> \o Text(n.if_stmt)
           \o (IF Has(n, "else_stmt") THEN <<"else">> \o Text(n.else_stmt) ELSE << >>)
      [] n.k = "IterationStmt" -> <<"while", "(">> \o Text(n.cond) \o <<")">> \o Text(n.stmt)
      [] n.k = "ReturnStmt" -> <<"return">> \o Optional(n, "exp") \o <<";">>
      [] n.k = "BreakStmt" -> <<"break", ";">>
      [] n.k = "ContinueStmt" -> <<"continue", ";">>
      [] n.k = "LVal" -> <<n.id>> \o Optional(n, "array_ident")
      [] n.k = "PrimaryExp" ->
           IF Has(n, "exp") THEN <<"(">> \o Text(n.exp) \o <<")">>
           ELSE Optional(n, "l_val") \o Optional(n, "number")
      [] n.k = "Number" -> <<IF n.type = "int" THEN ToString(n.int_val) ELSE n.float_val>>
      [] n.k = "UnaryExp" ->
           IF Has(n, "unary_exp") THEN <<Spelling[n.op]>> \o Text(n.unary_exp)
           ELSE Optional(n, "primary_exp") \o Optional(n, "call")
      [] n.k = "Call" -> <<n.id, "(">> \o Listed(n.exps) \o <<")">>
      [] n.k \in DOMAIN Levels ->
           (IF Has(n, Levels[n.k][1]) THEN Text(n[Levels[n.k][1]]) \o <<Spelling[n.op]>>
            ELSE << >>) \o Text(n[Levels[n.k][2]])
      [] n.k \in {"Exp", "ConstExp"} -> Text(n.add_exp)
      [] n.k = "Cond" -> Text(n.l_or_exp)

Tokens(n) ==
    LET leaves == SelectSeq(Preorder(n), LAMBDA m : m.children = << >> /\ m.name # "epsilon")
    IN  [i \in DOMAIN leaves |-> leaves[i].name]
Meant(word) ==
    IF word \in DOMAIN Literals /\ Literals[word].integer
    THEN ToString(Literals[word].means) ELSE word
Source(n) == LET words == Tokens(n) IN [i \in DOMAIN words |-> Meant(words[i])]

(* The declarations in front of the first syntax error, if there is one.   *)
BeforeError ==
    LET error == SelectInSeq(file, LAMBDA d : d = Broken)
    IN  IF error = 0 THEN file ELSE SubSeq(file, 1, error - 1)

(* Nothing is lost, added or moved: what has been transformed and what is  *)
(* still on the stack, the top first, are the program as it was read, up   *)
(* to a syntax error, with every list in source order, operands on their   *)
(* sides, and every else and index where it belongs.                       *)
SourceKept ==
    status \in {"build", "done"} =>
        FlattenSeq(Texts(declarations)) \o FlattenSeq([i \in DOMAIN s |-> Source(s[i])])
            = FlattenSeq([i \in DOMAIN BeforeError |-> Source(BeforeError[i])])

(* The AST is built, to the last declaration before a syntax error, as if  *)
(* the file ended there, unless there is none, or one has an integer above *)
(* MaxInt or a float out of range, an identifier or a number of 30 bytes   *)
(* or more, or a call of a function named like one of two nonterminals.    *)
(* It ends with an exception only for a number that is out of range.       *)
CannotBeRead(words) ==
    \E i \in DOMAIN words :
        \/ words[i] \in DOMAIN Literals /\ ~Literals[words[i]].fits
        \/ words[i] \in LongTokens
        \/ /\ words[i] \in {"PrimaryExp", "UnaryOp"}
           /\ i > 1 /\ words[i - 1] \notin {"int", "float", "void"}
           /\ i < Len(words) /\ words[i + 1] = "("
FailsExactlyOnUnreadable ==
    LET unreadable == \/ BeforeError = << >>
                      \/ \E i \in DOMAIN BeforeError : CannotBeRead(Tokens(BeforeError[i]))
    IN  /\ status \in {"throw", "ub"} => unreadable
        /\ status = "throw" =>
              \E i \in DOMAIN BeforeError : \E text \in ToSet(Tokens(BeforeError[i])) :
                  text \in DOMAIN Literals \ LongTokens /\ ~Literals[text].fits
        /\ status = "done" => ~unreadable

=============================================================================
