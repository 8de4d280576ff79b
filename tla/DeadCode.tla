------------------------------ MODULE DeadCode ------------------------------
(***************************************************************************)
(* Dead code elimination (passes/DeadCode.cpp), after FuncInfo: for each   *)
(* function, mark what critical instructions need, transitively, then      *)
(* delete the rest; again over all functions while anything was deleted.   *)
(***************************************************************************)
EXTENDS FuncInfo

VARIABLES
    dcPhase,   \* "info", "start", "mark", "sweep" or "done"
    func,      \* the function of the current iteration
    marked,
    work,      \* work_list
    dcChanged, \* changed
    round      \* history: iterations of the outer loop, up to MaxRound

deadVars == <<dcPhase, func, marked, work, dcChanged, round>>
vars == <<prog, alive, funcInfoVars, deadVars>>

MaxRound == 3

Init ==
    /\ FuncInfoInit
    /\ dcPhase = "info" /\ func = 1
    /\ marked = {} /\ work = << >>
    /\ dcChanged = FALSE /\ round = 1

(* The instructions among the operands of p.                               *)
Defs(p) == {<<p[1], a>> : a \in ToSet(Instr(p).args) \ {Outside, 0}}

RunFuncInfo ==
    /\ dcPhase = "info"
    /\ \/ FuncInfoStep /\ UNCHANGED dcPhase
       \/ fiPhase = "done" /\ dcPhase' = "start" /\ UNCHANGED <<prog, alive, funcInfoVars>>
    /\ UNCHANGED <<func, marked, work, dcChanged, round>>

IsCriticalNoCalls(p) ==                 \* Fault: every call may go
    Instr(p).op \in {"br", "ret", "store"}

IsCritical(p) ==
    \/ Instr(p).op \in {"br", "ret", "store"}
    \/ Instr(p).op = "call" /\ ~isPure[Instr(p).callee]

(* mark(Function): all critical instructions, in program order, any here.  *)
MarkFunction ==
    /\ dcPhase = "start"
    /\ LET critical == {p \in Live(func) : IsCritical(p)} IN
       /\ marked' = critical
       /\ work' \in SetToSeqs(critical)
    /\ dcPhase' = "mark"
    /\ UNCHANGED <<prog, alive, funcInfoVars, func, dcChanged, round>>

MarkInsOnce ==                          \* Fault: one level of operands only
    /\ dcPhase = "mark" /\ work # << >>
    /\ marked' = marked \cup Defs(Head(work))
    /\ work' = Tail(work)
    /\ UNCHANGED <<prog, alive, funcInfoVars, dcPhase, func, dcChanged, round>>

(* mark(Instruction)                                                       *)
MarkIns ==
    /\ dcPhase = "mark" /\ work # << >>
    /\ LET news == Defs(Head(work)) \ marked IN
       /\ marked' = marked \cup news
       /\ work' = Tail(work) \o SetToSeq(news)
    /\ UNCHANGED <<prog, alive, funcInfoVars, dcPhase, func, dcChanged, round>>

MarkDone ==
    /\ dcPhase = "mark" /\ work = << >>
    /\ dcPhase' = "sweep"
    /\ UNCHANGED <<prog, alive, funcInfoVars, func, marked, work, dcChanged, round>>

SweepUnused ==                          \* Fault: only what has no user goes
    LET dead == {p \in Live(func) \ marked : \A q \in Live(func) : p \notin Defs(q)}
        changed == dcChanged \/ dead # {}
    IN
    /\ dcPhase = "sweep"
    /\ alive' = alive \ dead
    /\ IF func < Main
       THEN /\ func' = func + 1 /\ dcPhase' = "start" /\ dcChanged' = changed
            /\ UNCHANGED round
       ELSE /\ func' = 1 /\ dcChanged' = FALSE
            /\ dcPhase' = IF changed THEN "start" ELSE "done"
            /\ round' = IF changed /\ round < MaxRound THEN round + 1 ELSE round
    /\ UNCHANGED <<prog, funcInfoVars, marked, work>>

(* Fault: changed is not reset when a round begins.                        *)
SweepKeepsFlag ==
    LET dead == Live(func) \ marked
        changed == dcChanged \/ dead # {}
    IN
    /\ dcPhase = "sweep"
    /\ alive' = alive \ dead
    /\ IF func < Main
       THEN /\ func' = func + 1 /\ dcPhase' = "start" /\ dcChanged' = changed
            /\ UNCHANGED round
       ELSE /\ func' = 1 /\ dcChanged' = changed
            /\ dcPhase' = IF changed THEN "start" ELSE "done"
            /\ round' = IF changed /\ round < MaxRound THEN round + 1 ELSE round
    /\ UNCHANGED <<prog, funcInfoVars, marked, work>>

(* sweep, and the heads of the two loops of run().                         *)
Sweep ==
    LET dead == Live(func) \ marked
        changed == dcChanged \/ dead # {}
    IN
    /\ dcPhase = "sweep"
    /\ alive' = alive \ dead
    /\ IF func < Main
       THEN /\ func' = func + 1 /\ dcPhase' = "start" /\ dcChanged' = changed
            /\ UNCHANGED round
       ELSE /\ func' = 1 /\ dcChanged' = FALSE
            /\ dcPhase' = IF changed THEN "start" ELSE "done"
            /\ round' = IF changed /\ round < MaxRound THEN round + 1 ELSE round
    /\ UNCHANGED <<prog, funcInfoVars, marked, work>>

Step == RunFuncInfo \/ MarkFunction \/ MarkIns \/ MarkDone \/ Sweep
Next == Step \/ (dcPhase = "done" /\ UNCHANGED vars)

(* The pass is one thread that never waits.                                *)
Spec == Init /\ [][Next]_vars /\ WF_vars(Step)

-----------------------------------------------------------------------------
(* An erased instruction is not an operand of one that is left: ~Value     *)
(* would have replaced it there by nullptr.                                *)
OperandsSurvive == \A p \in alive : Defs(p) \subseteq alive

(* What the program can be seen to do: jumps, returns, stores and calls of *)
(* functions that have an effect.                                          *)
Vital(f) ==
    {p \in Points(f) :
        \/ Instr(p).op \in {"br", "ret", "store"}
        \/ Instr(p).op = "call" /\ Effects(Instr(p).callee)}

(* It is still there, whatever has been erased.                            *)
EffectsSurvive == \A f \in Functions : Vital(f) \subseteq alive

(* The instructions that needs: those in every set that has them and, with *)
(* an instruction, its operands.                                           *)
Needed(f) ==
    {p \in Points(f) :
        \A S \in SUBSET Points(f) :
            Vital(f) \subseteq S /\ (\A q \in S : Defs(q) \subseteq S) => p \in S}

(* Nothing dead is left, not even phis that only use each other: whatever  *)
(* stays is needed by a jump, a return, a store or a call with an effect.  *)
OnlyNeededLeft == dcPhase = "done" => \A f \in Functions : Live(f) = Needed(f)

(* The outer loop stops: a round that deletes nothing comes.               *)
DeadCodeEnds == <>(dcPhase = "done")

=============================================================================
