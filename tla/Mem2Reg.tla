------------------------------ MODULE Mem2Reg ------------------------------
(***************************************************************************)
(* The promotion of local variables to SSA values (passes/Mem2Reg.cpp) for *)
(* one function: run() first runs the dominator analysis, generate_phi     *)
(* places phis on iterated dominance frontiers, and rename walks the       *)
(* dominator tree with a stack of current definitions per variable.        *)
(*                                                                         *)
(* The last phase is not the compiler but its output: the original and the *)
(* promoted function are executed side by side along every path, so that   *)
(* "promotion preserves the program" is a property of states.              *)
(*                                                                         *)
(* Code is a sequence of instructions per block.  Every operand is either  *)
(* a constant or the result of the instruction before it (Prev).           *)
(***************************************************************************)
EXTENDS Integers, Sequences, FiniteSets, SequencesExt

CONSTANTS
    BlockList, Entry, Null, Graphs,
    Vars,       \* allocas of locals and parameters, as is_valid_ptr accepts
    Programs,   \* records [succ, code]: the functions to promote
    MaxInt      \* arithmetic of the executed program is modulo MaxInt + 1

Blocks == ToSet(BlockList)

(* An operand: a constant, or the result of the instruction before.        *)
Const(c) == <<"const", 0, c>>
Prev == <<"prev", 0, 0>>
Operands == {Prev} \cup {"const"} \X {0} \X Nat

Instructions ==
    [op : {"load", "store"}, var : Vars, arg : Operands] \cup
    [op : {"add", "print"}, var : {""}, arg : Operands]

(* What Dominators assumes.                                                *)
ASSUME BlockListAssumption == BlockList \in Seq(Blocks) /\ IsInjective(BlockList)
ASSUME EntryAssumption == Entry \in Blocks
ASSUME NullAssumption == Null \notin Blocks
ASSUME GraphsAssumption ==
    \A g \in Graphs :
        /\ g \in [Blocks -> Seq(Blocks \ {Entry})]
        /\ \A b \in Blocks : Len(g[b]) <= 2

(* Only loads and adds have a result.                                      *)
ASSUME ProgramsAssumption ==
    \A p \in Programs :
        /\ p.succ \in Graphs
        /\ DOMAIN p.code = Blocks
        /\ \A b \in Blocks :
              /\ p.code[b] \in Seq(Instructions)
              /\ \A k \in DOMAIN p.code[b] :
                    p.code[b][k].op \in {"add", "store", "print"} /\ p.code[b][k].arg = Prev =>
                        k > 1 /\ p.code[b][k - 1].op \in {"load", "add"}

VARIABLES
    \* Dominators
    succ, pc, stack, visited, rpo, poId, idom, changed, todo, df, tree,
    \* the function and its phis
    code,      \* instructions as parsed
    opnd,      \* current operand of each store, add and print
    erased,    \* the blocks whose stores have been erased
    phis,      \* placed phis <<block, variable>> (phi2val is the second part)
    phiArgs,   \* the operand pairs of each phi
    \* rename
    phase,
    valStack,  \* val_stack; a variable is a key once something was pushed
    keys,
    frames,    \* activations of rename
    \* the two executions
    at, ip, mem, reg, env, seen

domVars == <<succ, pc, stack, visited, rpo, poId, idom, changed, todo, df, tree>>
irVars == <<opnd, erased, phis, phiArgs>>
renameVars == <<valStack, keys, frames>>
runVars == <<at, ip, mem, reg, env, seen>>
vars == <<domVars, code, irVars, phase, renameVars, runVars>>

D == INSTANCE Dominators

Inst(b, k) == <<"inst", b, k>>
Phi(b, v) == <<"phi", b, v>>
Undef == -1

Points == UNION {{b} \X DOMAIN code[b] : b \in Blocks}
Instr(p) == code[p[1]][p[2]]
IsOp(p, op) == Instr(p).op = op
StoresTo(b, v) == {k \in DOMAIN code[b] : code[b][k].op = "store" /\ code[b][k].var = v}
StoredIn(v) == {b \in Blocks : StoresTo(b, v) # {}}

Init ==
    \E prog \in Programs :
    /\ D!Init /\ succ = prog.succ
    /\ code = prog.code
    /\ opnd = [p \in {q \in Points : ~IsOp(q, "load")} |->
                  IF Instr(p).arg = Prev THEN Inst(p[1], p[2] - 1) ELSE Instr(p).arg]
    /\ erased = {} /\ phis = {} /\ phiArgs = [p \in {} |-> << >>]
    /\ phase = "dominators"
    /\ valStack = [v \in Vars |-> << >>] /\ keys = {} /\ frames = << >>
    /\ at = Entry /\ ip = 1 /\ reg = Undef /\ seen = << >>
    /\ mem = [v \in Vars |-> Undef]
    /\ env = [x \in {} |-> Undef]

(* run(): dominators_->run().                                              *)
Analyse ==
    /\ phase = "dominators"
    /\ D!Step
    /\ UNCHANGED <<code, irVars, phase, renameVars, runVars>>

-----------------------------------------------------------------------------
(* Fault: only the frontiers of the stores, not those of the phis.         *)
PhiBlocksOnce(v) == UNION {df[b] : b \in StoredIn(v)}

(* The blocks the worklist of generate_phi reaches: a phi is a definition  *)
(* too, so its block joins the worklist.                                   *)
PhiBlocks(v) ==
    LET closed == {S \in SUBSET Blocks : \A b \in StoredIn(v) \cup S : df[b] \subseteq S}
    IN  {b \in Blocks : \A S \in closed : b \in S}

Frame(b) == [bb |-> b, k |-> 0, stage |-> "enter", kids |-> tree[b]]

GeneratePhi ==
    /\ phase = "dominators"
    /\ pc = "done"
    /\ phis' = UNION {{<<b, v>> : b \in PhiBlocks(v)} : v \in Vars}
    /\ phiArgs' = [p \in phis' |-> << >>]
    /\ phase' = "rename"
    /\ frames' = <<Frame(Entry)>>
    /\ UNCHANGED <<domVars, code, opnd, erased, valStack, keys, runVars>>

-----------------------------------------------------------------------------
Top == Last(frames)
SetTop(f) == frames' = [frames EXCEPT ![Len(frames)] = f]
PhisOf(b) == {v \in Vars : <<b, v>> \in phis}
Active(stage) == phase = "rename" /\ frames # << >> /\ Top.stage = stage

(* Step 3: the phis of the block become the current definitions.           *)
PushPhis ==
    /\ Active("enter")
    /\ valStack' = [v \in Vars |-> IF v \in PhisOf(Top.bb)
                                   THEN Append(valStack[v], Phi(Top.bb, v))
                                   ELSE valStack[v]]
    /\ keys' = keys \cup PhisOf(Top.bb)
    /\ SetTop([Top EXCEPT !.stage = "body", !.k = 1])
    /\ UNCHANGED <<domVars, code, irVars, phase, runVars>>

AtInstr(op) ==
    /\ Active("body")
    /\ Top.k \in DOMAIN code[Top.bb]
    /\ IsOp(<<Top.bb, Top.k>>, op)

(* Value::replace_all_use_with, on the operands of instructions and phis.  *)
(* The values on the stacks are plain pointers and are not uses.           *)
ReplaceUses(old, new) ==
    /\ opnd' = [p \in DOMAIN opnd |-> IF opnd[p] = old THEN new ELSE opnd[p]]
    /\ phiArgs' = [p \in DOMAIN phiArgs |->
                     [i \in DOMAIN phiArgs[p] |->
                        IF phiArgs[p][i].val = old
                        THEN [phiArgs[p][i] EXCEPT !.val = new] ELSE phiArgs[p][i]]]

(* Step 4: the uses of a load get the current definition of its variable.  *)
(* A load of a variable that is no key stays.  A key with an empty stack   *)
(* makes vector::back() undefined behaviour.                               *)
RenameLoad ==
    /\ AtInstr("load")
    /\ LET v == Instr(<<Top.bb, Top.k>>).var IN
       IF v \notin keys
       THEN UNCHANGED <<opnd, phiArgs, phase>>
       ELSE IF valStack[v] = << >>
       THEN phase' = "ub" /\ UNCHANGED <<opnd, phiArgs>>
       ELSE ReplaceUses(Inst(Top.bb, Top.k), Last(valStack[v])) /\ UNCHANGED phase
    /\ SetTop([Top EXCEPT !.k = @ + 1])
    /\ UNCHANGED <<domVars, code, erased, phis, valStack, keys, runVars>>

(* Step 5: a store makes its current operand the definition.               *)
RenameStore ==
    /\ AtInstr("store")
    /\ LET p == <<Top.bb, Top.k>> v == Instr(p).var IN
       /\ valStack' = [valStack EXCEPT ![v] = Append(@, opnd[p])]
       /\ keys' = keys \cup {v}
    /\ SetTop([Top EXCEPT !.k = @ + 1])
    /\ UNCHANGED <<domVars, code, irVars, phase, runVars>>

(* Adds, calls and branches are left alone.                                *)
RenameOther ==
    /\ AtInstr("add") \/ AtInstr("print")
    /\ SetTop([Top EXCEPT !.k = @ + 1])
    /\ UNCHANGED <<domVars, code, irVars, phase, valStack, keys, runVars>>

(* Fault: only the first successor's phis are filled.                      *)
FillFirstSucc ==
    /\ Active("body")
    /\ Top.k \notin DOMAIN code[Top.bb]
    /\ phiArgs' = [p \in phis |->
          IF succ[Top.bb] # << >> /\ p[1] = succ[Top.bb][1] /\ valStack[p[2]] # << >>
          THEN Append(phiArgs[p], [val |-> Last(valStack[p[2]]), bb |-> Top.bb])
          ELSE phiArgs[p]]
    /\ SetTop([Top EXCEPT !.stage = "kids"])
    /\ UNCHANGED <<domVars, code, opnd, erased, phis, phase, valStack, keys, runVars>>

(* Step 6: the block supplies the phis of its successors with an operand,  *)
(* unless it has no definition of the variable.                            *)
FillSuccPhis ==
    /\ Active("body")
    /\ Top.k \notin DOMAIN code[Top.bb]
    /\ phiArgs' = [p \in phis |->
          IF p[1] \in ToSet(succ[Top.bb]) /\ valStack[p[2]] # << >>
          THEN Append(phiArgs[p], [val |-> Last(valStack[p[2]]), bb |-> Top.bb])
          ELSE phiArgs[p]]
    /\ SetTop([Top EXCEPT !.stage = "kids"])
    /\ UNCHANGED <<domVars, code, opnd, erased, phis, phase, valStack, keys, runVars>>

(* Step 7: recursion into the children, a std::set of pointers: any order. *)
Recurse ==
    /\ Active("kids")
    /\ \E c \in Top.kids :
          frames' = Append([frames EXCEPT ![Len(frames)].kids = @ \ {c}], Frame(c))
    /\ UNCHANGED <<domVars, code, irVars, phase, valStack, keys, runVars>>

Pushed(b, v) ==
    Cardinality({v} \cap PhisOf(b)) + Cardinality(StoresTo(b, v))

Pop(s, n) == SubSeq(s, 1, Len(s) - n)

(* Fault: the phis of the block are not popped.                            *)
LeaveKeepPhis ==
    /\ Active("kids") /\ Top.kids = {}
    /\ valStack' = [v \in Vars |->
          Pop(valStack[v], Pushed(Top.bb, v) - Cardinality({v} \cap PhisOf(Top.bb)))]
    /\ erased' = erased \cup {Top.bb}
    /\ frames' = Front(frames)
    /\ UNCHANGED <<domVars, code, opnd, phis, phiArgs, phase, keys, runVars>>

(* Steps 8 and 9: one pop per phi and store of the block, which is then    *)
(* rid of its stores; rename returns.                                      *)
Leave ==
    /\ Active("kids") /\ Top.kids = {}
    /\ valStack' = [v \in Vars |-> Pop(valStack[v], Pushed(Top.bb, v))]
    /\ erased' = erased \cup {Top.bb}
    /\ frames' = Front(frames)
    /\ UNCHANGED <<domVars, code, opnd, phis, phiArgs, phase, keys, runVars>>

-----------------------------------------------------------------------------
(* The execution of both functions, one instruction a step: at, ip, mem    *)
(* and reg are the original's place, memory and last result, env holds the *)
(* values of the promoted function, seen what the block has printed.       *)
EvalIn(e, val) ==
    IF val[1] = "const" THEN val[3]
    ELSE IF val \in DOMAIN e THEN e[val] ELSE Undef

Bind(e, x, n) == [y \in DOMAIN e \cup {x} |-> IF y = x THEN n ELSE e[y]]

(* phis read their operands for the edge taken, all at once; a missing     *)
(* operand is printed as undef (PhiInst::print).                           *)
PhiValue(p, from) ==
    LET mine == {i \in DOMAIN phiArgs[p] : phiArgs[p][i].bb = from}
        first == CHOOSE i \in mine : \A j \in mine : i <= j
    IN  IF mine = {} THEN Undef ELSE EvalIn(env, phiArgs[p][first].val)

EnterEnv(b, from) ==
    [x \in DOMAIN env \cup {Phi(b, v) : v \in PhisOf(b)} |->
        IF x[1] = "phi" /\ x[2] = b THEN PhiValue(<<b, x[3]>>, from) ELSE env[x]]

Enter(b, e) ==
    /\ at' = b /\ ip' = 1 /\ env' = e
    /\ reg' = Undef /\ seen' = << >>
    /\ UNCHANGED mem

(* rename(entry) has returned: the promoted function is what is left.      *)
StartRun ==
    /\ phase = "rename"
    /\ frames = << >>
    /\ phase' = "run"
    /\ Enter(Entry, env)
    /\ UNCHANGED <<domVars, code, irVars, renameVars>>

Here == <<at, ip>>
Running(op) == phase = "run" /\ ip \in DOMAIN code[at] /\ IsOp(Here, op)
Original == IF Instr(Here).arg = Prev THEN reg ELSE Instr(Here).arg[3]
Promoted == EvalIn(env, opnd[Here])
Plus1(n) == IF n = Undef THEN Undef ELSE (n + 1) % (MaxInt + 1)
RunOn == ip' = ip + 1 /\ UNCHANGED <<domVars, code, irVars, phase, renameVars, at>>

(* A load that is left reads memory nothing is stored in any more.         *)
RunLoad ==
    /\ Running("load")
    /\ reg' = mem[Instr(Here).var]
    /\ env' = Bind(env, Inst(at, ip), IF at \in erased THEN Undef ELSE mem[Instr(Here).var])
    /\ RunOn /\ UNCHANGED <<mem, seen>>

RunAdd ==
    /\ Running("add")
    /\ reg' = Plus1(Original)
    /\ env' = Bind(env, Inst(at, ip), Plus1(Promoted))
    /\ RunOn /\ UNCHANGED <<mem, seen>>

RunStore ==
    /\ Running("store")
    /\ mem' = [mem EXCEPT ![Instr(Here).var] = Original]
    /\ RunOn /\ UNCHANGED <<reg, env, seen>>

RunPrint ==
    /\ Running("print")
    /\ seen' = Append(seen, <<Original, Promoted>>)
    /\ RunOn /\ UNCHANGED <<mem, reg, env>>

RunBranch ==
    /\ phase = "run" /\ ip \notin DOMAIN code[at]
    /\ \E b \in ToSet(succ[at]) : Enter(b, EnterEnv(b, at))
    /\ UNCHANGED <<domVars, code, irVars, phase, renameVars>>

RunExit ==
    /\ phase = "run" /\ ip \notin DOMAIN code[at]
    /\ succ[at] = << >>
    /\ phase' = "exit"
    /\ UNCHANGED <<domVars, code, irVars, renameVars, runVars>>

Rename == PushPhis \/ RenameLoad \/ RenameStore \/ RenameOther
          \/ FillSuccPhis \/ Recurse \/ Leave

Compile == Analyse \/ GeneratePhi \/ Rename \/ StartRun

Stopped == \/ phase \in {"ub", "exit"}
           \/ phase = "dominators" /\ pc = "throw"

Run == RunLoad \/ RunAdd \/ RunStore \/ RunPrint \/ RunBranch \/ RunExit

Next == Compile \/ Run \/ (Stopped /\ UNCHANGED vars)

(* The pass is one thread that never waits.                                *)
Spec == Init /\ [][Next]_vars /\ WF_vars(Compile)

-----------------------------------------------------------------------------
(* The definitions of v the activation f has pushed so far, by block and   *)
(* instruction; the phi is 0.                                              *)
PushedBy(f, v) ==
    {f.bb} \X ((IF f.stage # "enter" /\ v \in PhisOf(f.bb) THEN {0} ELSE {})
               \cup {k \in StoresTo(f.bb, v) : k < f.k})

(* The stacks hold the definitions of the activations on the path from the *)
(* entry, one for one: siblings in the dominator tree leave nothing        *)
(* behind, and after rename(entry) all stacks are empty.  A definition of  *)
(* a block that does not dominate can never be picked up.                  *)
StackMatchesFrames ==
    phase = "rename" => \A v \in Vars :
        Len(valStack[v]) = Cardinality(UNION {PushedBy(frames[i], v) : i \in DOMAIN frames})

(* The blocks a store of v can run before: the least set with the          *)
(* successors of the stores' blocks that no edge leaves.                   *)
Reaches(v) ==
    LET closed == {S \in SUBSET Blocks :
                      \A b \in StoredIn(v) \cup S : ToSet(succ[b]) \subseteq S}
    IN  {b \in Blocks : \A S \in closed : b \in S}

StoredBefore(b, k, v) == b \in Reaches(v) \/ \E j \in StoresTo(b, v) : j < k

(* Every phi the entry reaches gets at most one operand per edge, at least *)
(* one in all, and lacks the operand of an edge only if no store can run   *)
(* before it (the printer then writes undef).  A phi of an unreachable     *)
(* block gets none; it has no uses either, and DeadCode takes it away.     *)
PhiOperandsComplete ==
    phase \in {"run", "exit"} => \A p \in {q \in phis : q[1] \in D!Reachable} :
        LET from == [i \in DOMAIN phiArgs[p] |-> phiArgs[p][i].bb]
            preds == {b \in Blocks : p[1] \in ToSet(succ[b])}
        IN  /\ IsInjective(from) /\ ToSet(from) \subseteq preds
            /\ from # << >>
            /\ \A b \in preds \ ToSet(from) : ~StoredBefore(b, Len(code[b]) + 1, p[2])

(* SSA: a definition on a stack belongs to a block that dominates the one  *)
(* being renamed, and an operand to a block that dominates its use; for a  *)
(* phi operand the use is at the end of the edge's source.                 *)
DefBlock(val) == IF val[1] = "const" THEN Entry ELSE val[2]

DefsDominateUses ==
    /\ phase = "rename" /\ frames # << >> =>
         \A v \in Vars : \A val \in ToSet(valStack[v]) : D!Dom(DefBlock(val), Top.bb)
    /\ phase = "run" =>
         /\ \A p \in DOMAIN opnd : D!Dom(DefBlock(opnd[p]), p[1])
         /\ \A p \in phis : \A a \in ToSet(phiArgs[p]) : D!Dom(DefBlock(a.val), a.bb)

(* Along every path the promoted function prints what the original prints, *)
(* wherever that is defined.                                               *)
SameOutput ==
    \A i \in DOMAIN seen : seen[i][1] # Undef => seen[i][1] = seen[i][2]

(* An empty stack is only ever read by a load that no store can run        *)
(* before: a program that may read an uninitialised variable.              *)
UBOnlyUninitialised ==
    phase = "ub" => LET p == <<Top.bb, Top.k - 1>>
                    IN  ~StoredBefore(p[1], p[2], Instr(p).var)

=============================================================================
