------------------------------ MODULE Lowering ------------------------------
(***************************************************************************)
(* How SysYBuilder lowers the statements of one function to basic blocks.  *)
(* The visitor recurses over the syntax tree and keeps, beside the         *)
(* builder's insert point, three global stacks: the targets of the         *)
(* innermost condition (true_stack, false_stack) and of the innermost loop *)
(* (loop_stack).  The recursion is the stack of visits in `work`; one      *)
(* action is the stretch of a visit between two recursive calls.           *)
(*                                                                         *)
(* Straight-line code is abstracted to atoms: one for a statement, one for *)
(* each operand of && and ||, one for the value returned.                  *)
(*                                                                         *)
(* When the function is finished it is executed in step with a reference   *)
(* interpreter of the syntax tree, over every outcome of the conditions.   *)
(*                                                                         *)
(* Syntax trees are records: k is "act", "ret", "brk", "cnt", "block"      *)
(* (items), "if" (c, s, e), "while" (c, s) or "none" (a missing else).  A  *)
(* condition c is a sequence (||) of sequences (&&) of atoms.              *)
(***************************************************************************)
EXTENDS Integers, Sequences, FiniteSets, SequencesExt

CONSTANTS
    Atoms,      \* the pieces of straight-line code
    Stmts,      \* the statements, Stmts[TRUE] those that stand in a loop
    Bodies,     \* the function bodies to lower: items of the outer block
    MaxBlocks   \* bound: basic blocks of one function

ASSUME BlocksAssumption == MaxBlocks \in Nat \ {0}

None == [k |-> "none"]

IsCond(c) == c # << >> /\ c \in Seq(Seq(Atoms)) /\ \A i \in DOMAIN c : c[i] # << >>

(* The grammar; break and continue stand in a loop, or the back of an      *)
(* empty loop_stack is taken.                                              *)
IsStmt(x, inLoop) ==
    \/ x.k \in {"act", "ret"} /\ x.id \in Atoms
    \/ x.k \in {"brk", "cnt"} /\ inLoop
    \/ x.k = "block" /\ x.items \in Seq(Stmts[inLoop])
    \/ x.k = "if" /\ IsCond(x.c) /\ x.s \in Stmts[inLoop] /\ x.e \in Stmts[inLoop] \cup {None}
    \/ x.k = "while" /\ IsCond(x.c) /\ x.s \in Stmts[TRUE]

ASSUME SyntaxAssumption ==
    /\ \A inLoop \in BOOLEAN : \A x \in Stmts[inLoop] : IsStmt(x, inLoop)
    /\ Bodies \subseteq Seq(Stmts[FALSE])

VARIABLES
    status,     \* "lower", "run" or "exit"
    asserts,    \* FALSE once "Inserting instruction to terminated bb" failed
    work,       \* the pending visits, the current one first
    count,      \* basic blocks created; block 1 is the entry
    insert,     \* the builder's insert block
    code,       \* atoms of each block
    term,       \* its terminator: "none", "br" or "ret"
    succs,      \* BasicBlock::succ_bbs_
    trueStack, falseStack, loopStack,
    at, pos,    \* the execution: block and next atom of it
    cont        \* the interpreter: what it still has to execute

cfgVars == <<code, term, succs>>
stackVars == <<trueStack, falseStack, loopStack>>
runVars == <<at, pos, cont>>
vars == <<status, asserts, work, count, insert, cfgVars, stackVars, runVars>>

BB == 1 .. MaxBlocks

Visit(op, n) == [op |-> op, n |-> n, bbs |-> << >>]
Resume(op, n, bbs) == [op |-> op, n |-> n, bbs |-> bbs]
Now == Head(work)
At(op) == status = "lower" /\ work # << >> /\ Now.op = op
AtStmt(k) == At("stmt") /\ Now.n.k = k
Then(visits) == work' = visits \o Tail(work)

(* FuncDef up to the visit of the body: the entry block is the insert      *)
(* point.                                                                  *)
Init ==
    \E body \in Bodies :
    /\ status = "lower" /\ asserts = TRUE
    /\ work = <<Visit("stmt", [k |-> "block", items |-> body])>>
    /\ count = 1 /\ insert = 1
    /\ code = [b \in BB |-> << >>]
    /\ term = [b \in BB |-> "none"]
    /\ succs = [b \in BB |-> << >>]
    /\ trueStack = << >> /\ falseStack = << >> /\ loopStack = << >>
    /\ at = 1 /\ pos = 1 /\ cont = body

-----------------------------------------------------------------------------
Terminated(b) == term[b] # "none"

(* BasicBlock::add_instruction asserts that the block is not terminated.   *)
Emit(b, a) ==
    /\ asserts' = (asserts /\ ~Terminated(b))
    /\ code' = [code EXCEPT ![b] = Append(@, a)]
    /\ UNCHANGED <<term, succs>>

Terminate(b, kind, targets) ==
    /\ asserts' = (asserts /\ ~Terminated(b))
    /\ term' = [term EXCEPT ![b] = kind]
    /\ succs' = [succs EXCEPT ![b] = @ \o targets]
    /\ UNCHANGED code

BrUnlessTerminated(b, target) ==
    IF Terminated(b) THEN UNCHANGED <<asserts, cfgVars>>
    ELSE Terminate(b, "br", <<target>>)

-----------------------------------------------------------------------------
(* AssignStmt and the expression statement.                                *)
VisitAct ==
    /\ AtStmt("act")
    /\ Emit(insert, Now.n.id)
    /\ Then(<< >>)
    /\ UNCHANGED <<status, count, insert, stackVars, runVars>>

VisitReturn ==
    /\ AtStmt("ret")
    /\ asserts' = (asserts /\ ~Terminated(insert))
    /\ code' = [code EXCEPT ![insert] = Append(@, Now.n.id)]
    /\ term' = [term EXCEPT ![insert] = "ret"]
    /\ Then(<< >>)
    /\ UNCHANGED <<status, count, insert, succs, stackVars, runVars>>

VisitBreak ==
    /\ AtStmt("brk")
    /\ Terminate(insert, "br", <<Last(loopStack).falseBB>>)
    /\ Then(<< >>)
    /\ UNCHANGED <<status, count, insert, stackVars, runVars>>

(* Fault: continue leaves through the outermost loop.                      *)
VisitContinueOuter ==
    /\ AtStmt("cnt")
    /\ Terminate(insert, "br", <<Head(loopStack).trueBB>>)
    /\ Then(<< >>)
    /\ UNCHANGED <<status, count, insert, stackVars, runVars>>

VisitContinue ==
    /\ AtStmt("cnt")
    /\ Terminate(insert, "br", <<Last(loopStack).trueBB>>)
    /\ Then(<< >>)
    /\ UNCHANGED <<status, count, insert, stackVars, runVars>>

VisitBlock ==
    /\ AtStmt("block")
    /\ Then(IF Now.n.items = << >> THEN << >>
            ELSE <<Visit("stmt", Head(Now.n.items)), Visit("items", Tail(Now.n.items))>>)
    /\ UNCHANGED <<status, asserts, count, insert, cfgVars, stackVars, runVars>>

NextItemAlways ==                       \* Fault: statements behind a return
    /\ At("items")
    /\ Then(IF Now.n = << >> THEN << >>
            ELSE <<Visit("stmt", Head(Now.n)), Visit("items", Tail(Now.n))>>)
    /\ UNCHANGED <<status, asserts, count, insert, cfgVars, stackVars, runVars>>

(* Fault: the loop over the items goes on where it should end.             *)
NextItemStuck ==
    /\ At("items")
    /\ Then(IF Now.n = << >> THEN << >> ELSE IF Terminated(insert) THEN <<Now>>
            ELSE <<Visit("stmt", Head(Now.n)), Visit("items", Tail(Now.n))>>)
    /\ UNCHANGED <<status, asserts, count, insert, cfgVars, stackVars, runVars>>

(* After each statement of a block: what follows a terminator is dropped.  *)
NextItem ==
    /\ At("items")
    /\ Then(IF Now.n = << >> \/ Terminated(insert) THEN << >>
            ELSE <<Visit("stmt", Head(Now.n)), Visit("items", Tail(Now.n))>>)
    /\ UNCHANGED <<status, asserts, count, insert, cfgVars, stackVars, runVars>>

-----------------------------------------------------------------------------
(* SelectionStmt: trueBB, falseBB and mergeBB, then the condition.         *)
VisitIf ==
    /\ AtStmt("if") /\ count + 3 <= MaxBlocks
    /\ LET bbs == <<count + 1, count + 2, count + 3>> IN
       /\ trueStack' = Append(trueStack, bbs[1])
       /\ falseStack' = Append(falseStack, bbs[2])
       /\ Then(<<Visit("lor", Now.n.c), Resume("ifBranch", Now.n, bbs)>>)
    /\ count' = count + 3
    /\ UNCHANGED <<status, asserts, insert, cfgVars, loopStack, runVars>>

IfBranchFalls ==                        \* Fault: br without its false target
    /\ At("ifBranch")
    /\ trueStack' = Front(trueStack) /\ falseStack' = Front(falseStack)
    /\ Terminate(insert, "br", SubSeq(Now.bbs, 1, 1))
    /\ insert' = Now.bbs[1]
    /\ Then(<<Visit("stmt", Now.n.s), Resume("ifElse", Now.n, Now.bbs)>>)
    /\ UNCHANGED <<status, count, loopStack, runVars>>

IfBranch ==
    /\ At("ifBranch")
    /\ trueStack' = Front(trueStack) /\ falseStack' = Front(falseStack)
    /\ Terminate(insert, "br", SubSeq(Now.bbs, 1, 2))
    /\ insert' = Now.bbs[1]
    /\ Then(<<Visit("stmt", Now.n.s), Resume("ifElse", Now.n, Now.bbs)>>)
    /\ UNCHANGED <<status, count, loopStack, runVars>>

IfElse ==
    /\ At("ifElse")
    /\ BrUnlessTerminated(insert, Now.bbs[3])
    /\ insert' = Now.bbs[2]
    /\ Then(IF Now.n.e = None THEN <<Resume("ifMerge", Now.n, Now.bbs)>>
            ELSE <<Visit("stmt", Now.n.e), Resume("ifMerge", Now.n, Now.bbs)>>)
    /\ UNCHANGED <<status, count, stackVars, runVars>>

IfMerge ==
    /\ At("ifMerge")
    /\ IF Now.n.e = None THEN Terminate(insert, "br", <<Now.bbs[3]>>)
       ELSE BrUnlessTerminated(insert, Now.bbs[3])
    /\ insert' = Now.bbs[3]
    /\ Then(<< >>)
    /\ UNCHANGED <<status, count, stackVars, runVars>>

(* IterationStmt: testBB, condBB (the body) and afterBB.                   *)
VisitWhile ==
    /\ AtStmt("while") /\ count + 3 <= MaxBlocks
    /\ LET bbs == <<count + 1, count + 2, count + 3>> IN
       /\ Terminate(insert, "br", <<bbs[1]>>)
       /\ insert' = bbs[1]
       /\ loopStack' = Append(loopStack, [trueBB |-> bbs[1], falseBB |-> bbs[3]])
       /\ trueStack' = Append(trueStack, bbs[2])
       /\ falseStack' = Append(falseStack, bbs[3])
       /\ Then(<<Visit("lor", Now.n.c), Resume("whileBranch", Now.n, bbs)>>)
    /\ count' = count + 3
    /\ UNCHANGED <<status, runVars>>

WhileBranch ==
    /\ At("whileBranch")
    /\ trueStack' = Front(trueStack) /\ falseStack' = Front(falseStack)
    /\ Terminate(insert, "br", SubSeq(Now.bbs, 2, 3))
    /\ insert' = Now.bbs[2]
    /\ Then(<<Visit("stmt", Now.n.s), Resume("whileEnd", Now.n, Now.bbs)>>)
    /\ UNCHANGED <<status, count, loopStack, runVars>>

WhileEndKeepLoop ==                     \* Fault: loop_stack is not popped
    /\ At("whileEnd")
    /\ BrUnlessTerminated(insert, Now.bbs[1])
    /\ insert' = Now.bbs[3]
    /\ Then(<< >>)
    /\ UNCHANGED <<status, count, stackVars, runVars>>

WhileEnd ==
    /\ At("whileEnd")
    /\ BrUnlessTerminated(insert, Now.bbs[1])
    /\ insert' = Now.bbs[3]
    /\ loopStack' = Front(loopStack)
    /\ Then(<< >>)
    /\ UNCHANGED <<status, count, trueStack, falseStack, runVars>>

-----------------------------------------------------------------------------
(* LOrExp: left-recursive; with an operator, a block for the case that the *)
(* left side is false, which the left side sees on false_stack.            *)
VisitLOr ==
    /\ At("lor")
    /\ IF Len(Now.n) = 1
       THEN /\ Then(<<Visit("land", Now.n[1])>>)
            /\ UNCHANGED <<count, falseStack>>
       ELSE /\ count < MaxBlocks
            /\ falseStack' = Append(falseStack, count + 1)
            /\ count' = count + 1
            /\ Then(<<Visit("lor", Front(Now.n)),
                      Resume("lorRight", Last(Now.n), <<count + 1>>)>>)
    /\ UNCHANGED <<status, asserts, insert, cfgVars, trueStack, loopStack, runVars>>

LOrRight ==
    /\ At("lorRight")
    /\ falseStack' = Front(falseStack)
    /\ Terminate(insert, "br", <<Last(trueStack), Now.bbs[1]>>)
    /\ insert' = Now.bbs[1]
    /\ Then(<<Visit("land", Now.n)>>)
    /\ UNCHANGED <<status, count, trueStack, loopStack, runVars>>

(* LAndExp: likewise with a block for the case that the left side is true. *)
VisitLAnd ==
    /\ At("land")
    /\ IF Len(Now.n) = 1
       THEN /\ Emit(insert, Now.n[1])
            /\ Then(<< >>)
            /\ UNCHANGED count
       ELSE /\ count < MaxBlocks
            /\ count' = count + 1
            /\ Then(<<Visit("land", Front(Now.n)),
                      Resume("landRight", <<Last(Now.n)>>, <<count + 1>>)>>)
            /\ UNCHANGED <<asserts, cfgVars>>
    /\ UNCHANGED <<status, insert, stackVars, runVars>>

(* Fault: a false left side leaves the whole condition.                    *)
LAndRightOuter ==
    /\ At("landRight")
    /\ Terminate(insert, "br", <<Now.bbs[1], Head(falseStack)>>)
    /\ insert' = Now.bbs[1]
    /\ Then(<<Visit("land", Now.n)>>)
    /\ UNCHANGED <<status, count, stackVars, runVars>>

LAndRight ==
    /\ At("landRight")
    /\ Terminate(insert, "br", <<Now.bbs[1], Last(falseStack)>>)
    /\ insert' = Now.bbs[1]
    /\ Then(<<Visit("land", Now.n)>>)
    /\ UNCHANGED <<status, count, stackVars, runVars>>

-----------------------------------------------------------------------------
FinishNoRet ==                          \* Fault: no default return
    /\ status = "lower" /\ work = << >>
    /\ status' = "run"
    /\ UNCHANGED <<asserts, work, count, insert, cfgVars, stackVars, runVars>>

(* FuncDef after the body: a default return unless there is one.           *)
FinishFunction ==
    /\ status = "lower" /\ work = << >>
    /\ IF Terminated(insert) THEN UNCHANGED <<asserts, cfgVars>>
       ELSE Terminate(insert, "ret", << >>)
    /\ status' = "run"
    /\ UNCHANGED <<work, count, insert, stackVars, runVars>>

Lower ==
    \/ VisitAct \/ VisitReturn \/ VisitBreak \/ VisitContinue
    \/ VisitBlock \/ NextItem
    \/ VisitIf \/ IfBranch \/ IfElse \/ IfMerge
    \/ VisitWhile \/ WhileBranch \/ WhileEnd
    \/ VisitLOr \/ LOrRight \/ VisitLAnd \/ LAndRight
    \/ FinishFunction

-----------------------------------------------------------------------------
(* The reference interpreter: `cont` is the list of statements to execute; *)
(* "again" marks the end of a loop body and "test" a condition under way.  *)
Test(c, yes, no) == [k |-> "test", c |-> c, yes |-> yes, no |-> no]
TestLoop(w) == Test(w.c, <<w.s, [k |-> "again", w |-> w]>>, << >>)

FromAgain(s) == SubSeq(s, SelectInSeq(s, LAMBDA x : x.k = "again"), Len(s))

Unfold(s) ==
    LET x == Head(s) rest == Tail(s) IN
    CASE x.k = "block" -> x.items \o rest
      [] x.k = "none"  -> rest
      [] x.k = "if"    -> <<Test(x.c, <<x.s>>, <<x.e>>)>> \o rest
      [] x.k = "while" -> <<TestLoop(x)>> \o rest
      [] x.k = "again" -> <<TestLoop(x.w)>> \o rest
      [] x.k = "cnt"   -> FromAgain(s)
      [] x.k = "brk"   -> Tail(FromAgain(s))

Atomic(x) == x.k \in {"act", "ret", "test"}
Unfolded == IF cont = << >> THEN TRUE ELSE Atomic(Head(cont))

(* The outcome v of the first atom of a condition, with short circuit.     *)
Decide(x, v) ==
    LET chain == Head(x.c) IN
    IF v THEN IF Len(chain) = 1 THEN x.yes
              ELSE <<[x EXCEPT !.c = <<Tail(chain)>> \o Tail(x.c)]>>
    ELSE IF Len(x.c) = 1 THEN x.no ELSE <<[x EXCEPT !.c = Tail(x.c)]>>

RunUnfold ==
    /\ status = "run" /\ ~Unfolded
    /\ cont' = Unfold(cont)
    /\ UNCHANGED <<status, asserts, work, count, insert, cfgVars, stackVars, at, pos>>

(* The compiled function follows an unconditional branch.                  *)
AtJump == pos > Len(code[at]) /\ term[at] = "br" /\ Len(succs[at]) = 1

RunJump ==
    /\ status = "run" /\ Unfolded /\ AtJump
    /\ at' = succs[at][1] /\ pos' = 1
    /\ UNCHANGED <<status, asserts, work, count, insert, cfgVars, stackVars, cont>>

InStep ==
    IF cont = << >> THEN pos > Len(code[at]) /\ term[at] = "ret"
    ELSE LET x == Head(cont) IN
         /\ pos \in DOMAIN code[at]
         /\ code[at][pos] = IF x.k = "test" THEN x.c[1][1] ELSE x.id
         /\ x.k = "test" => pos = Len(code[at]) /\ Len(succs[at]) = 2

RunAtom ==
    /\ status = "run" /\ Unfolded /\ ~AtJump /\ InStep /\ cont # << >>
    /\ LET x == Head(cont) IN
       \/ /\ x.k = "act"
          /\ cont' = Tail(cont) /\ pos' = pos + 1 /\ UNCHANGED at
       \/ /\ x.k = "ret"
          /\ cont' = << >> /\ pos' = pos + 1 /\ UNCHANGED at
       \/ /\ x.k = "test"
          /\ \E v \in BOOLEAN :
                /\ cont' = Decide(x, v) \o Tail(cont)
                /\ at' = succs[at][IF v THEN 1 ELSE 2] /\ pos' = 1
    /\ UNCHANGED <<status, asserts, work, count, insert, cfgVars, stackVars>>

RunExit ==
    /\ status = "run" /\ Unfolded /\ ~AtJump /\ (~InStep \/ cont = << >>)
    /\ status' = "exit"
    /\ UNCHANGED <<asserts, work, count, insert, cfgVars, stackVars, runVars>>

Run == RunUnfold \/ RunJump \/ RunAtom \/ RunExit

Next ==
    \/ Lower
    \/ Run
    \/ (status = "exit" /\ UNCHANGED vars)

(* The visitor is one thread that never waits.                             *)
Spec == Init /\ [][Next]_vars /\ WF_vars(Lower)

-----------------------------------------------------------------------------
(* The assertion of BasicBlock::add_instruction never fails: no visit      *)
(* appends to a block that already ends in a branch or a return.           *)
NoInsertAfterTerminator == asserts

(* When the function is done every block it created is terminated, also    *)
(* the merge blocks nothing branches to: a block that is not falls off its *)
(* end.                                                                    *)
AllBlocksTerminated ==
    status # "lower" => \A b \in 1 .. count : Terminated(b)

Pending(ops) == Cardinality({i \in DOMAIN work : work[i].op \in ops})
IsLoop(w) == w.op \in {"whileBranch", "whileEnd"}

(* How many loops the i-th pending visit is in, its own included.          *)
LoopsAround(i) == Cardinality({j \in i .. Len(work) : IsLoop(work[j])})

(* The global stacks belong to the visits under way and to nothing else:   *)
(* one entry per condition and per loop being visited, in their order.     *)
StacksMatchVisits ==
    /\ Len(trueStack) = Pending({"ifBranch", "whileBranch"})
    /\ Len(falseStack) = Pending({"ifBranch", "whileBranch", "lorRight"})
    /\ Len(loopStack) = Pending({"whileBranch", "whileEnd"})
    /\ \A i \in DOMAIN work :
          IsLoop(work[i]) =>
              loopStack[LoopsAround(i)] =
                  [trueBB |-> work[i].bbs[1], falseBB |-> work[i].bbs[3]]

(* The blocks do what the statements say: statements and conditions run in *)
(* the same order with the same outcome of &&, ||, break, continue and     *)
(* return, along every path.                                               *)
SameBehaviour == status = "run" /\ Unfolded /\ ~AtJump => InStep

LoweringTerminates == <>(status # "lower")

=============================================================================
