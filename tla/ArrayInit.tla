----------------------------- MODULE ArrayInit -----------------------------
(***************************************************************************)
(* Declarations of SysY (SysY_builder.cpp: ASTConstDef, ASTVarDef and the  *)
(* two visits of initialisers).  The elements of an array are collected    *)
(* twice while its initialiser is visited: in init_val, a vector without   *)
(* gaps that becomes the initialiser of a global and the values a constant *)
(* array is folded from, and in init_val_map, position to value, from      *)
(* which a local array is stored.  Both, with the cursor and the depth of  *)
(* the list, are globals of the builder and outlive a declaration.         *)
(*                                                                         *)
(* An initialiser is written as in the source, as the sequence of its      *)
(* tokens: "open" and "close" braces, "const" for a constant expression,   *)
(* "not" for one that is the ! of an int, and "expr" for another one.  The *)
(* tree is visited in this order.                                          *)
(***************************************************************************)
EXTENDS Integers, Sequences, FiniteSets

CONSTANT
    Programs   \* sequences of declarations [form, global, type, dims, toks]:
               \* form is "const" or "var", dims << >> for a scalar, and toks
               \* << >> without an initialiser

VARIABLES
    prog,
    at,        \* the declaration being visited
    phase,     \* "declare", "init" or "assert"
    next,      \* the next token of its initialiser
    open,      \* the lists being visited: their cur_start_pos
    initMap,   \* init_val_map
    initVal,   \* init_val
    curPos,    \* cur_pos
    curDepth,  \* cur_depth
    sizes,     \* array_sizes: sizes[d] is the size of a list at depth d
    objects    \* what was created: [init, mem], the initialiser of a global
               \* or constant and the elements stored in a local

cursorVars == <<initMap, initVal, curPos, curDepth, open>>
vars == <<prog, at, phase, next, cursorVars, sizes, objects>>

NoValue == [decl |-> 0, tok |-> 0, type |-> "null"]
Zero(type) == [decl |-> 0, tok |-> 0, type |-> type]
Zeros(type, n) == [i \in 1 .. n |-> Zero(type)]

D == prog[at]
IsArray(d) == d.dims # << >>
EmptyMap == [p \in {} |-> NoValue]

SizesOf(dims) ==
    LET size[d \in 0 .. Len(dims)] ==
            IF d = Len(dims) THEN 1 ELSE dims[d + 1] * size[d + 1]
    IN  size

Init ==
    /\ prog \in Programs /\ at = 1 /\ phase = "declare" /\ next = 1
    /\ open = << >> /\ initMap = EmptyMap /\ initVal = << >>
    /\ curPos = 0 /\ curDepth = 0
    /\ sizes = SizesOf(<< >>)
    /\ objects = << >>

(* StoreInst asserts that a value has the type of what it is stored in.    *)
Storable(mem) == \A i \in DOMAIN mem : mem[i].type = D.type

Create(init, mem) ==
    IF Storable(mem)
    THEN /\ objects' = Append(objects, [init |-> init, mem |-> mem])
         /\ at' = at + 1
         /\ phase' = "declare"
    ELSE phase' = "assert" /\ UNCHANGED <<objects, at>>

ZeroInitialised(d) ==
    \/ d.toks = << >>
    \/ d.form = "var" /\ d.global /\ d.toks = <<"open", "close">>

StartArrayKeepMap ==                    \* Fault: init_val_map is never cleared
    /\ phase = "declare" /\ at <= Len(prog) /\ IsArray(D)
    /\ sizes' = SizesOf(D.dims)
    /\ curDepth' = 0 /\ curPos' = 0 /\ next' = 1
    /\ initVal' = << >>
    /\ IF ZeroInitialised(D)
       THEN Create(IF D.global THEN Zeros(D.type, sizes'[0]) ELSE << >>, << >>)
       ELSE phase' = "init" /\ UNCHANGED <<at, objects>>
    /\ UNCHANGED <<prog, open, initMap>>

(* The array branches up to the visit of the initialiser.  Only a variable *)
(* clears init_val_map: in ASTConstDef the line is commented out.          *)
StartArray ==
    /\ phase = "declare" /\ at <= Len(prog) /\ IsArray(D)
    /\ sizes' = SizesOf(D.dims)
    /\ curDepth' = 0 /\ curPos' = 0 /\ next' = 1
    /\ initVal' = << >>
    /\ initMap' = IF D.form = "var" THEN EmptyMap ELSE initMap
    /\ IF ZeroInitialised(D)
       THEN Create(IF D.global THEN Zeros(D.type, sizes'[0]) ELSE << >>, << >>)
       ELSE phase' = "init" /\ UNCHANGED <<at, objects>>
    /\ UNCHANGED <<prog, open>>

(* The initialiser of a scalar is visited with the cursor left behind.     *)
StartScalar ==
    /\ phase = "declare" /\ at <= Len(prog) /\ ~IsArray(D)
    /\ next' = 1
    /\ IF ZeroInitialised(D)
       THEN Create(IF D.global THEN Zeros(D.type, 1) ELSE << >>, << >>)
       ELSE phase' = "init" /\ UNCHANGED <<at, objects>>
    /\ UNCHANGED <<prog, cursorVars, sizes>>

-----------------------------------------------------------------------------
Visits(tok) == phase = "init" /\ next <= Len(D.toks) /\ D.toks[next] = tok

(* int() and float() of a constant, fptosi and sitofp of another value.  A *)
(* folded ! of an int is a constant i1, which nothing makes an i32.        *)
Converted(tok) ==
    [decl |-> at, tok |-> next, type |-> IF tok = "not" /\ D.type = "int" THEN "i1" ELSE D.type]

VisitExp(tok) ==
    /\ Visits(tok)
    /\ initMap' = [p \in DOMAIN initMap \cup {curPos} |->
                     IF p = curPos THEN Converted(tok) ELSE initMap[p]]
    /\ initVal' = Append(initVal, IF tok = "expr" THEN NoValue ELSE Converted(tok))
    /\ curPos' = curPos + 1
    /\ next' = next + 1
    /\ UNCHANGED <<prog, at, phase, curDepth, open, sizes, objects>>

(* __Array_Padding_IF__: zeros up to position n, if it is ahead.           *)
PadTo(n) ==
    /\ initVal' = initVal \o Zeros(D.type, n - curPos)
    /\ curPos' = IF n > curPos THEN n ELSE curPos

RoundUp(n, size) == ((n + size - 1) \div size) * size

EnterList ==
    LET depth == IF open = << >> THEN curDepth ELSE curDepth + 1 IN
    /\ Visits("open")
    /\ PadTo(IF depth # 0 THEN RoundUp(curPos, sizes[depth]) ELSE curPos)
    /\ open' = Append(open, curPos')
    /\ curDepth' = depth
    /\ next' = next + 1
    /\ UNCHANGED <<prog, at, phase, initMap, sizes, objects>>

Close(pad) ==
    /\ Visits("close")
    /\ pad
    /\ curDepth' = IF Len(open) > 1 THEN curDepth - 1 ELSE curDepth
    /\ open' = SubSeq(open, 1, Len(open) - 1)
    /\ next' = next + 1
    /\ UNCHANGED <<prog, at, phase, initMap, sizes, objects>>

LeaveListAligned ==                     \* Fault: an empty list fills no row
    Close(PadTo(RoundUp(curPos, sizes[curDepth])))

LeaveList ==
    Close(PadTo(IF curDepth # 0 THEN open[Len(open)] + sizes[curDepth] ELSE sizes[0]))

-----------------------------------------------------------------------------
Resize(s, n) == [i \in 1 .. n |-> IF i <= Len(s) THEN s[i] ELSE NoValue]

(* The stores of a local array: what the map lacks is zero.                *)
Stores ==
    [i \in 1 .. sizes[0] |-> IF i - 1 \in DOMAIN initMap THEN initMap[i - 1] ELSE Zero(D.type)]

Finished == phase = "init" /\ next > Len(D.toks)

(* A scalar's value is context.cur_val, which its leaf also put in front.  *)
FinishScalar ==
    LET value == <<initMap[curPos - 1]>> IN
    /\ Finished /\ ~IsArray(D)
    /\ IF D.form = "const" \/ D.global THEN Create(value, << >>) ELSE Create(<< >>, value)
    /\ UNCHANGED <<prog, next, cursorVars, sizes>>

FinishConstArray ==
    /\ Finished /\ IsArray(D) /\ D.form = "const"
    /\ Create(initVal, IF D.global THEN << >> ELSE Stores)
    /\ UNCHANGED <<prog, next, cursorVars, sizes>>

FinishVarArray ==
    /\ Finished /\ IsArray(D) /\ D.form = "var"
    /\ IF D.global THEN Create(Resize(initVal, sizes[0]), << >>) ELSE Create(<< >>, Stores)
    /\ UNCHANGED <<prog, next, cursorVars, sizes>>

Next ==
    \/ StartArray \/ StartScalar
    \/ VisitExp("const") \/ VisitExp("not") \/ VisitExp("expr") \/ EnterList \/ LeaveList
    \/ FinishScalar \/ FinishConstArray \/ FinishVarArray
    \/ (at > Len(prog) \/ phase = "assert") /\ UNCHANGED vars

Spec == Init /\ [][Next]_vars

-----------------------------------------------------------------------------
(* What the language defines (SysY 2022, section 3, ConstDef): the items   *)
(* of a list fill the array in row-major order, and a list inside it fills *)
(* one whole row, its rest with zeros.                                     *)
IsExp(d, k) == d.toks[k] \in {"const", "not", "expr"}
OpenAt(d, k) ==   \* lists that are open where token k stands
    {j \in 1 .. k - 1 :
        /\ d.toks[j] = "open"
        /\ \A c \in j + 1 .. k - 1 :
              Cardinality({i \in j .. c : d.toks[i] = "close"})
                < Cardinality({i \in j .. c : d.toks[i] = "open"})}
Depth(d, k) == Cardinality(OpenAt(d, k))

(* The items complete before token k in the lists open there.              *)
Before(d, k) ==
    {j \in 1 .. k - 1 :
        /\ d.toks[j] # "close"
        /\ OpenAt(d, j) \subseteq OpenAt(d, k)
        /\ j \notin OpenAt(d, k)}

(* An expression takes one element, a list the row of its depth.           *)
Position(d, k) ==
    LET size == SizesOf(d.dims)
        items == Before(d, k)
        total[j \in 0 .. k - 1] ==
            IF j = 0 THEN 0
            ELSE total[j - 1] + IF j \notin items THEN 0
                                ELSE IF IsExp(d, j) THEN 1 ELSE size[Depth(d, j)]
    IN  total[k - 1]

(* Programs of the language, as far as rows are given whole lists: a list  *)
(* starts where a row of its depth starts, and no list is longer than its  *)
(* row.                                                                    *)
Legal(d) ==
    LET size == SizesOf(d.dims) IN
    /\ \A k \in DOMAIN d.toks :
          /\ d.toks[k] = "open" => /\ Depth(d, k) < Len(d.dims)
                                   /\ Position(d, k) % size[Depth(d, k)] = 0
          /\ d.toks[k] # "close" =>
                \A j \in OpenAt(d, k) :
                    Position(d, k) < Position(d, j) + size[Depth(d, j)]
    /\ d.form = "const" => d.toks # << >> /\ \A k \in DOMAIN d.toks : d.toks[k] # "expr"
    /\ d.global => \A k \in DOMAIN d.toks : d.toks[k] # "expr"

(* The elements of declaration i.                                          *)
Elements(i) ==
    LET d == prog[i]
        exps == {k \in DOMAIN d.toks : IsExp(d, k)}
    IN  [p \in 1 .. SizesOf(d.dims)[0] |->
            IF \E k \in exps : Position(d, k) = p - 1
            THEN [decl |-> i, tok |-> CHOOSE k \in exps : Position(d, k) = p - 1,
                  type |-> d.type]
            ELSE Zero(d.type)]

-----------------------------------------------------------------------------
(* init_val and init_val_map are filled by different statements and stay   *)
(* two views of one array: the vector is as long as the cursor says, and   *)
(* for a variable holds at each position what the map holds there, or the  *)
(* zero of a gap.  A global and a local with the same initialiser agree.   *)
ViewsAgree ==
    phase = "init" /\ IsArray(D) =>
        /\ Len(initVal) = curPos
        /\ D.form = "var" =>
              /\ DOMAIN initMap \subseteq 0 .. curPos - 1
              /\ \A p \in 0 .. curPos - 1 :
                    IF p \in DOMAIN initMap
                    THEN initVal[p + 1] \in {initMap[p], NoValue}
                    ELSE initVal[p + 1] = Zero(D.type)

HasNot(d) == d.type = "int" /\ \E k \in DOMAIN d.toks : d.toks[k] = "not"
Value(x) == <<x.decl, x.tok>>

(* Whatever was declared before, every element of a global, of a constant  *)
(* (as it is folded) and of a local variable has the value the language    *)
(* gives it, in the type of the array, unless a folded ! among them is an  *)
(* i1.  With one in it a local variable stops the compiler; nothing else   *)
(* does, but what an earlier declaration left for a local constant array.  *)
InitialisedAsDefined ==
    /\ phase = "declare" => \A i \in DOMAIN objects :
        LET d == prog[i]
            AsDefined(xs) ==
                IF HasNot(d)
                THEN [p \in DOMAIN xs |-> Value(xs[p])] = [p \in DOMAIN xs |-> Value(Elements(i)[p])]
                ELSE xs = Elements(i)
        IN  /\ d.global \/ d.form = "const" => AsDefined(objects[i].init)
            /\ ~d.global /\ d.form = "var" =>
                  ~HasNot(d) /\ (d.toks # << >> => objects[i].mem = Elements(i))
    /\ phase = "assert" =>
          /\ ~D.global
          /\ \/ HasNot(D)
             \/ /\ D.form = "const" /\ IsArray(D)
                /\ \E i \in 1 .. at - 1 : HasNot(prog[i]) \/ prog[i].type # D.type

(* SysY 2022 language definition, ConstDef 5(c): the elements a list does  *)
(* not give are initialised to 0.  Here: those of a local constant array,  *)
(* in the memory it is read from with an index that is not constant.       *)
LocalConstDefined ==
    \A i \in DOMAIN objects :
        LET d == prog[i] IN
        d.form = "const" /\ IsArray(d) /\ ~d.global => objects[i].mem = Elements(i)

=============================================================================
