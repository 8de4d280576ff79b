------------------------------ MODULE Pipeline ------------------------------
(***************************************************************************)
(* What -mem2reg does to a function first: SysYBuilder lowers its body     *)
(* (Lowering) and the dominator analysis (Dominators) runs over the blocks *)
(* it leaves behind.  The builder never removes a block, also not one      *)
(* nothing branches to; the analysis gets them all.                        *)
(***************************************************************************)
EXTENDS Lowering

VARIABLES succ, pc, stack, visited, rpo, poId, idom, changed, todo, df, tree

domVars == <<succ, pc, stack, visited, rpo, poId, idom, changed, todo, df, tree>>
body == cont   \* with -mem2reg the interpreter does not run
allVars == <<vars, domVars>>

D == INSTANCE Dominators WITH
        BlockList <- [b \in BB |-> b], Entry <- 1, Null <- 0,
        Graphs <- [BB -> BoundedSeq(BB \ {1}, 2)]

(* The option is off, or the pass is still to run.                         *)
PipelineInit == Init /\ pc \in {"off", "idle"} /\ D!InitFor(succs)

(* SysYBuilder is done, PassManager::run starts Mem2Reg.                   *)
StartPass ==
    /\ status = "run" /\ pc = "idle"
    /\ pc' = "visit"
    /\ succ' = succs
    /\ UNCHANGED <<vars, stack, visited, rpo, poId, idom, changed, todo, df, tree>>

Compile ==
    \/ Lower /\ UNCHANGED domVars
    \/ StartPass
    \/ D!Step /\ UNCHANGED vars

(* Without the option the function is run as it is.                        *)
RunUnoptimised == pc = "off" /\ Run /\ UNCHANGED domVars

Stopped == status = "exit" \/ pc \in {"done", "throw"}

PipelineNext == Compile \/ RunUnoptimised \/ (Stopped /\ UNCHANGED allVars)

(* The compiler is one thread that never waits; what it compiles may loop. *)
PipelineSpec == PipelineInit /\ [][PipelineNext]_allVars /\ WF_allVars(Compile)

-----------------------------------------------------------------------------
Trees == Stmts[TRUE] \cup Stmts[FALSE] \cup {None}

(* A statement that leaves the insert block terminated.                    *)
Jumps[s \in Trees] ==
    \/ s.k \in {"ret", "brk", "cnt"}
    \/ s.k = "block" /\ \E i \in DOMAIN s.items : Jumps[s.items[i]]

(* An if with two branches that both jump: nothing reaches what follows.   *)
HasDeadMerge[s \in Trees] ==
    \/ s.k = "if" /\ ((Jumps[s.s] /\ Jumps[s.e]) \/ HasDeadMerge[s.s] \/ HasDeadMerge[s.e])
    \/ s.k = "while" /\ HasDeadMerge[s.s]
    \/ s.k = "block" /\ \E i \in DOMAIN s.items : HasDeadMerge[s.items[i]]

(* The functions the analysis gives up on all hold such an if: every other *)
(* construct of the language is lowered to blocks the entry reaches.       *)
ThrowsOnlyOnDeadMerge ==
    pc = "throw" => \E i \in DOMAIN body : HasDeadMerge[body[i]]

=============================================================================
