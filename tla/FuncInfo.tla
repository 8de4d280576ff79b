------------------------------ MODULE FuncInfo ------------------------------
(***************************************************************************)
(* Which functions are pure (passes/FuncInfo.cpp).  trivial_mark looks at  *)
(* one function alone; a worklist then carries impurity from each function *)
(* to its callers.                                                         *)
(*                                                                         *)
(* A function is its list of instructions: the pass ignores the blocks.    *)
(* An instruction has an opcode, its operands, whether its type is that of *)
(* a pointer and, for a call, the callee.  An operand is the place of an   *)
(* instruction, Outside for a global variable or an array parameter, which *)
(* are pointers, or 0 for what is none: a constant, a scalar parameter.    *)
(***************************************************************************)
EXTENDS Integers, Sequences, FiniteSets, SequencesExt

CONSTANTS
    Main,      \* functions are 1 .. Main, in the order of the module
    Modules    \* records [declared, arrays, code]: functions without a body,
               \* functions with an array parameter, and the instructions

Outside == -1
Functions == 1 .. Main

(* A module of IR: operands are instructions of the same function, a store *)
(* has a value and an address, a load an address.                          *)
IsModule(m) ==
    /\ DOMAIN m.code = Functions
    /\ \A f \in Functions :
          Len(m.code[f]) \in Nat /\ DOMAIN m.code[f] = 1 .. Len(m.code[f])
    /\ \A f \in Functions : \A k \in DOMAIN m.code[f] :
          LET i == m.code[f][k] IN
          /\ ToSet(i.args) \subseteq {Outside, 0} \cup DOMAIN m.code[f]
          /\ i.ptr \in BOOLEAN
          /\ i.op = "store" => Len(i.args) = 2
          /\ i.op = "load" => Len(i.args) = 1
          /\ i.op = "call" => i.callee \in Functions

ASSUME MainAssumption == Main \in Nat \ {0}
ASSUME ModulesAssumption == \A m \in Modules : IsModule(m)

VARIABLES
    prog,      \* the module
    alive,     \* its instructions: pairs <<function, place>>
    isPure,    \* is_pure; the functions marked so far are its domain
    worklist,
    fiPhase    \* "mark", "process" or "done"

funcInfoVars == <<isPure, worklist, fiPhase>>

Points(f) == {<<f, k>> : k \in DOMAIN prog.code[f]}
Instr(p) == prog.code[p[1]][p[2]]
Live(f) == {p \in alive : p[1] = f}

FuncInfoInit ==
    /\ prog \in Modules
    /\ alive = UNION {Points(f) : f \in Functions}
    /\ isPure = << >>
    /\ worklist = << >>
    /\ fiPhase = "mark"

-----------------------------------------------------------------------------
(* get_first_addr: through the base of every gep, and the first pointer    *)
(* among the operands of any other instruction, to an alloca, to a load,   *)
(* or out of the function.  (The addresses of SysY are geps on them.)      *)
FirstAddr(f, addr) ==
    LET IsPointer(a) == a = Outside \/ (a # 0 /\ Instr(<<f, a>>).ptr)
        Bases(i) ==
            CASE i.op \in {"alloca", "load"} -> {}
              [] i.op = "gep" -> {1}
              [] OTHER -> {j \in DOMAIN i.args : IsPointer(i.args[j])}
        root[a \in {Outside, 0} \cup DOMAIN prog.code[f]] ==
            IF a \in {Outside, 0} \/ Bases(Instr(<<f, a>>)) = {} THEN a
            ELSE LET i == Instr(<<f, a>>) IN root[i.args[Min(Bases(i))]]
    IN  root[addr]

IsLocal(f, addr) ==
    LET root == FirstAddr(f, addr)
    IN  root \notin {Outside, 0} /\ Instr(<<f, root>>).op = "alloca"

(* Fault: the value stored is taken for the address.                       *)
IsSideEffectWrongOperand(p) ==
    \/ Instr(p).op = "store" /\ ~IsLocal(p[1], Instr(p).args[1])
    \/ Instr(p).op = "load" /\ ~IsLocal(p[1], Instr(p).args[1])

(* is_side_effect_inst: args of a store are the value and the address.     *)
IsSideEffectInst(p) ==
    \/ Instr(p).op = "store" /\ ~IsLocal(p[1], Instr(p).args[2])
    \/ Instr(p).op = "load" /\ ~IsLocal(p[1], Instr(p).args[1])

TriviallyPure(f) ==
    /\ f \notin prog.declared /\ f # Main
    /\ f \notin prog.arrays
    /\ \A p \in Live(f) : ~IsSideEffectInst(p)

(* The body of the first loop of run().                                    *)
TrivialMark ==
    LET f == Len(isPure) + 1 IN
    /\ fiPhase = "mark" /\ f \in Functions
    /\ isPure' = Append(isPure, TriviallyPure(f))
    /\ worklist' = IF isPure'[f] THEN worklist ELSE Append(worklist, f)
    /\ fiPhase' = IF f = Main THEN "process" ELSE "mark"
    /\ UNCHANGED <<prog, alive>>

Callers(f) == {p[1] : p \in {q \in alive : Instr(q).op = "call" /\ Instr(q).callee = f}}

ProcessOnce ==                          \* Fault: callers are not enqueued
    /\ fiPhase = "process" /\ worklist # << >>
    /\ LET now == Head(worklist)
           news == {f \in Callers(now) : isPure[f]}
       IN  isPure' = [f \in Functions |-> isPure[f] /\ f \notin news]
    /\ worklist' = Tail(worklist)
    /\ UNCHANGED <<prog, alive, fiPhase>>

(* process: the users in use_list_ order, any order here.                  *)
Process ==
    /\ fiPhase = "process" /\ worklist # << >>
    /\ LET now == Head(worklist)
           news == {f \in Callers(now) : isPure[f]}
       IN  /\ isPure' = [f \in Functions |-> isPure[f] /\ f \notin news]
           /\ \E order \in SetToSeqs(news) : worklist' = Tail(worklist) \o order
    /\ UNCHANGED <<prog, alive, fiPhase>>

FuncInfoDone ==
    /\ fiPhase = "process" /\ worklist = << >>
    /\ fiPhase' = "done"
    /\ UNCHANGED <<prog, alive, isPure, worklist>>

FuncInfoStep == TrivialMark \/ Process \/ FuncInfoDone

-----------------------------------------------------------------------------
Callees(f) == {Instr(p).callee : p \in {q \in Points(f) : Instr(q).op = "call"}}

(* The functions a call of f may execute: those in every set that has f    *)
(* and, with a function, all that it calls.                                *)
Reached(f) ==
    {g \in Functions :
        \A S \in SUBSET Functions :
            f \in S /\ (\A h \in S : Callees(h) \subseteq S) => g \in S}

(* What a call of f may do that its caller can tell: run code outside the  *)
(* module, get hold of an array of the caller, or touch memory that is not *)
(* an alloca of the function that touches it.                              *)
Touches(f, ops) ==
    \E p \in Points(f) :
        /\ Instr(p).op \in ops
        /\ ~IsLocal(f, Last(Instr(p).args))
Writes(f) == \E g \in Reached(f) :
    g \in prog.declared \cup prog.arrays \cup {Main} \/ Touches(g, {"store"})
Effects(f) == Writes(f) \/ \E g \in Reached(f) : Touches(g, {"load"})

(* When the analysis ends exactly the functions without any effect are     *)
(* pure, however long the chain of calls that leads to the effect, and     *)
(* through recursion.                                                      *)
PurityExact ==
    fiPhase = "done" => \A f \in Functions : isPure[f] <=> ~Effects(f)

(* While the worklist runs, a function still taken for pure calls an       *)
(* impure one only if that one is waiting in the worklist.                 *)
ImpurityPending ==
    fiPhase = "process" =>
        \A p \in alive :
            Instr(p).op = "call" /\ isPure[p[1]] /\ ~isPure[Instr(p).callee] =>
                Instr(p).callee \in ToSet(worklist)

=============================================================================
