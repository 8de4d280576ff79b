------------------------------- MODULE CodeGen -------------------------------
(***************************************************************************)
(* CodeGen::run for one function, and the machine code it emits.           *)
(*                                                                         *)
(* After Frame has given out the slots, the prologue saves $ra and $fp and *)
(* stores the arguments, and every instruction is translated on its own:   *)
(* operands are loaded to $t0 and $t1, the result is stored to its slot.   *)
(* Offsets that do not fit a 12-bit immediate are built in a register.     *)
(* Most instructions are not implemented: generation ends with an          *)
(* exception at the first of these.  What has been emitted by then is run  *)
(* on a LoongArch machine, in step with the IR it came from.               *)
(*                                                                         *)
(* Machine instructions are <<op, destination, operand, operand>> with the *)
(* definition `from` they were emitted for (0: the prologue).              *)
(***************************************************************************)
EXTENDS Frame, FiniteSets, SequencesExt, TLC

CONSTANTS
    Low,        \* 2^12: the range of a 12-bit immediate
    High,       \* 2^20: the range of the immediate of lu12i.w and lu32i.d
    Undef,      \* the value of what was not computed
    Globals,    \* what each float global holds
    Inputs,     \* the argument values to run a function with
    Frame0      \* the stack pointer on entry

Word == 2 * Half
Double == Word * Word

(* The two fields of an address are a word, and the shorter one holds the  *)
(* offset of the saved registers.                                          *)
ASSUME WidthAssumption ==
    /\ Low \in Nat /\ High \in Nat /\ Low * High = Word
    /\ Low % 2 = 0 /\ High % 2 = 0 /\ Low >= 2 * Base

Arithmetic == {"add", "sub", "mul", "sdiv"}
Implemented == {"label", "br", "srem"} \cup Arithmetic

(* Most instructions end in not_implemented_error.                         *)
IsTodo(ins) == ins.op \notin Implemented /\ ~(ins.op = "load" /\ ins.ty = "float")

(* What the operands of an int operation and of a load can be: a constant, *)
(* a global, or a value, which has a slot.                                 *)
IsOperand(f, o, ty) ==
    \/ ty = "int" /\ o[1] = "const" /\ o[2] \in -Half .. Half - 1
    \/ ty = "ptr" /\ o[1] = "global" /\ o[2] \in DOMAIN Globals
    \/ o[1] = "def" /\ o[2] \in 1 .. Len(f.args) + Len(f.code) /\ TypeIn(f, o[2]) = ty

(* The builder gives every function a return.  A pointer to a float that   *)
(* is no global comes from an alloca or a gep: generation never gets past  *)
(* these.                                                                  *)
ASSUME CodeAssumption ==
    \A f \in Functions :
        /\ \E i \in 1 .. Len(f.code) : f.code[i].op = "ret"
        /\ \A i \in 1 .. Len(f.code) :
            LET ins == f.code[i] IN
            /\ ins.op \in Arithmetic =>
                  ins.ty = "int" /\ IsOperand(f, ins.ops[1], "int") /\ IsOperand(f, ins.ops[2], "int")
            /\ ins.op = "load" => IsOperand(f, ins.ops[1], "ptr")
            /\ ins.op = "load" /\ ins.ty = "float" =>
                  ins.ops[1][1] = "global" \/ \E j \in 1 .. i - 1 : IsTodo(f.code[j])
            /\ ins.op \in {"label", "br"} => ins.ops = <<ins.ops[1]>>

(* The stack is inside the address space, and int arguments are ints.      *)
ASSUME MachineAssumption ==
    /\ Frame0 \in Half .. Double \div 2 - 1
    /\ Undef \in Int
    /\ DOMAIN Globals \subseteq Nat
    /\ \A in \in Inputs, f \in Functions : \A d \in 1 .. Len(f.args) :
          f.args[d] = "int" => in["int"][d] \in -Half .. Half - 1

VARIABLES
    output,     \* the instructions emitted
    gargs, fargs,   \* garg_cnt, farg_cnt of gen_prologue
    at,         \* the instruction being translated
    fault,      \* why generation stopped: "", "todo" or "assert"
    inputs,     \* the values of the arguments
    regs, mem,  \* the machine: registers, and cells by address
    mpc         \* and the next instruction in output

genVars == <<output, gargs, fargs, at, fault>>
machineVars == <<regs, mem, mpc>>
vars == <<frameVars, genVars, inputs, machineVars>>

-----------------------------------------------------------------------------
(* Signed numbers of a range m: the value of the low bits of n.            *)
Signed(n, m) == ((n + m \div 2) % m) - m \div 2
Unsigned(n, m) == n % m

FitsImm12Wide(n) == n \in -(Low \div 2) .. Low \div 2         \* Fault: off by one
FitsImm12(n) == n \in -(Low \div 2) .. Low \div 2 - 1         \* IS_IMM_12

LargeInt32(n, r) ==
    <<<<"lu12i.w", r, n \div Low>>, <<"ori", r, r, Unsigned(n, Low)>>>>

(* Fault: the upper half is taken for zero.                                *)
LargeInt64NoHigh(n, r) ==
    LargeInt32(Signed(n, Word), r) \o <<<<"lu32i.d", r, 0>>, <<"lu52i.d", r, r, 0>>>>

LargeInt64(n, r) ==
    LargeInt32(Signed(n, Word), r)
    \o <<<<"lu32i.d", r, Signed(n \div Word, High)>>,
         <<"lu52i.d", r, r, Signed(n \div Word, Word) \div High>>>>

(* An access of the slot of d; a large offset is built in `addr`.          *)
SlotAccess(op, r, d, addr) ==
    IF FitsImm12(slot[d]) THEN <<<<op, r, "fp", slot[d]>>>>
    ELSE LargeInt64(slot[d], addr) \o <<<<"add.d", addr, "fp", addr>>, <<op, r, addr, 0>>>>

LoadOp(ty) == [i1 |-> "ld.b", int |-> "ld.w", ptr |-> "ld.d"][ty]
StoreOp(ty) == [i1 |-> "st.b", int |-> "st.w", ptr |-> "st.d"][ty]

LoadFromStackToGreg(d, r) == SlotAccess(LoadOp(TypeOf(d)), r, d, r)
StoreFromGreg(d, r) == SlotAccess(StoreOp(TypeOf(d)), r, d, "t8")
StoreFromFreg(d, r) == SlotAccess("fst.s", r, d, "t8")

LoadToGreg(operand, r) ==
    IF operand[1] = "const"
    THEN IF FitsImm12(operand[2]) THEN <<<<"addi.w", r, "zero", operand[2]>>>>
         ELSE LargeInt32(operand[2], r)
    ELSE IF operand[1] = "global" THEN <<<<"la.local", r, operand[2]>>>>
    ELSE LoadFromStackToGreg(operand[2], r)

Emit(from, code) == output' = output \o [i \in DOMAIN code |-> [from |-> from, ins |-> code[i]]]

-----------------------------------------------------------------------------
(* gen_prologue up to the loop over the arguments.                         *)
SaveRegisters ==
    /\ phase = "save"
    /\ Emit(0, IF FitsImm12(-AsInt(frameSize))
               THEN <<<<"st.d", "ra", "sp", -8>>, <<"st.d", "fp", "sp", -16>>,
                      <<"addi.d", "fp", "sp", 0>>, <<"addi.d", "sp", "sp", -AsInt(frameSize)>>>>
               ELSE LargeInt64(frameSize, "t0")
                    \o <<<<"st.d", "ra", "sp", -8>>, <<"st.d", "fp", "sp", -16>>,
                         <<"sub.d", "sp", "sp", "t0">>, <<"add.d", "fp", "sp", "t0">>>>)
    /\ phase' = "args"
    /\ UNCHANGED <<fn, placed, offset, slot, frameSize, need, gargs, fargs, at, fault, inputs, machineVars>>

ArgReg == <<"a0", "a1", "a2", "a3", "a4", "a5", "a6", "a7">>
FloatArgReg == <<"fa0", "fa1", "fa2", "fa3", "fa4", "fa5", "fa6", "fa7">>

StopWith(why) ==
    /\ fault' = why
    /\ phase' = "run"

(* Fault: one counter for both classes of arguments.                       *)
StoreArgOneCounter ==
    /\ phase = "args" /\ gargs + fargs < Args
    /\ LET d == gargs + fargs + 1
           float == TypeOf(d) = "float"
           count == fargs + gargs
       IN  IF count > 7             \* the assertions of Reg::a and FReg::fa
           THEN StopWith("assert") /\ UNCHANGED <<output, gargs, fargs>>
           ELSE /\ Emit(0, IF float THEN StoreFromFreg(d, FloatArgReg[count + 1])
                           ELSE StoreFromGreg(d, ArgReg[count + 1]))
                /\ fargs' = IF float THEN fargs + 1 ELSE fargs
                /\ gargs' = IF float THEN gargs ELSE gargs + 1
                /\ UNCHANGED <<phase, fault>>
    /\ UNCHANGED <<fn, placed, offset, slot, frameSize, need, at, inputs, machineVars>>

StoreArg ==
    /\ phase = "args" /\ gargs + fargs < Args
    /\ LET d == gargs + fargs + 1
           float == TypeOf(d) = "float"
           count == IF float THEN fargs ELSE gargs
       IN  IF count > 7             \* the assertions of Reg::a and FReg::fa
           THEN StopWith("assert") /\ UNCHANGED <<output, gargs, fargs>>
           ELSE /\ Emit(0, IF float THEN StoreFromFreg(d, FloatArgReg[count + 1])
                           ELSE StoreFromGreg(d, ArgReg[count + 1]))
                /\ fargs' = IF float THEN fargs + 1 ELSE fargs
                /\ gargs' = IF float THEN gargs ELSE gargs + 1
                /\ UNCHANGED <<phase, fault>>
    /\ UNCHANGED <<fn, placed, offset, slot, frameSize, need, at, inputs, machineVars>>

ArgsStored ==
    /\ phase = "args" /\ gargs + fargs = Args
    /\ phase' = "gen" /\ at' = 1
    /\ UNCHANGED <<fn, placed, offset, slot, frameSize, need, output, gargs, fargs, fault, inputs, machineVars>>

-----------------------------------------------------------------------------
(* The loops of CodeGen::run over the blocks and their instructions.       *)
Instr == fn.code[at]
This == Args + at
Translates(ops) == phase = "gen" /\ Instr.op \in ops

Translated(code) ==
    /\ Emit(at, code)
    /\ at' = at + 1
    /\ UNCHANGED <<frameVars, gargs, fargs, fault, inputs, machineVars>>

GenLabel ==
    /\ Translates({"label"})
    /\ Translated(<<<<"label", Instr.ops[1]>>>>)

GenBr ==
    /\ Translates({"br"})
    /\ Translated(<<<<"b", Instr.ops[1]>>>>)

MachineOp(op) == [add |-> "add.w", sub |-> "sub.w", mul |-> "mul.w", sdiv |-> "div.w"][op]

(* Fault: both operands are loaded to the same register.                   *)
GenBinaryOneReg ==
    /\ Translates(Arithmetic)
    /\ Translated(LoadToGreg(Instr.ops[1], "t1") \o LoadToGreg(Instr.ops[2], "t1")
                  \o <<<<MachineOp(Instr.op), "t2", "t1", "t1">>>> \o StoreFromGreg(This, "t2"))

GenBinary ==
    /\ Translates(Arithmetic)
    /\ Translated(LoadToGreg(Instr.ops[1], "t0") \o LoadToGreg(Instr.ops[2], "t1")
                  \o <<<<MachineOp(Instr.op), "t2", "t0", "t1">>>> \o StoreFromGreg(This, "t2"))

GenLoad ==
    /\ Translates({"load"}) /\ Instr.ty = "float"
    /\ Translated(LoadToGreg(Instr.ops[1], "t0") \o <<<<"fld.s", "ft0", "t0", 0>>>>
                  \o StoreFromFreg(This, "ft0"))

(* The switch has no case for srem: nothing is emitted.                    *)
SkipRem ==
    /\ Translates({"srem"})
    /\ Translated(<< >>)

(* Everything else throws not_implemented_error, a load of an int after    *)
(* its address has been loaded.                                            *)
Throw ==
    /\ phase = "gen" /\ IsTodo(Instr)
    /\ Emit(at, IF Instr.op = "load" THEN LoadToGreg(Instr.ops[1], "t0") ELSE << >>)
    /\ StopWith("todo")
    /\ UNCHANGED <<fn, placed, offset, slot, frameSize, need, gargs, fargs, at, inputs, machineVars>>

Generate == SaveRegisters \/ StoreArg \/ ArgsStored \/ GenLabel \/ GenBr \/ GenBinary
            \/ GenLoad \/ SkipRem \/ Throw

-----------------------------------------------------------------------------
(* The machine: LoongArch, as far as the code above uses it.  A cell holds *)
(* a value, its own place in it and the size it was stored with, so that   *)
(* what is overwritten in part can no longer be read.                      *)
Registers == {"zero", "ra", "sp", "fp", "t0", "t1", "t2", "t8", "ft0"}
             \cup Range(ArgReg) \cup Range(FloatArgReg)

ReturnAddress == 3
CallerFp == Frame0 + Base
GlobalAt(g) == 2 * Frame0 + 4 * g

Cells(a, n, v) == [b \in a .. a + n - 1 |-> <<v, b - a, n>>]
Over(c, m) == [b \in DOMAIN c \cup DOMAIN m |-> IF b \in DOMAIN c THEN c[b] ELSE m[b]]
Read(a, n) ==
    IF \A i \in 0 .. n - 1 : a + i \in DOMAIN mem /\ mem[a + i] = <<mem[a][1], i, n>>
    THEN mem[a][1] ELSE Undef

InputOf(d) == inputs[TypeOf(d)][d]
IsFloatArg(d) == TypeOf(d) = "float"

(* The calling convention: the arguments of each class in its registers.   *)
ArgOfClass(float, k) ==
    LET those == {d \in 1 .. Args :
                    /\ IsFloatArg(d) = float
                    /\ Cardinality({e \in 1 .. d : IsFloatArg(e) = float}) = k}
    IN  IF those = {} THEN Undef ELSE InputOf(CHOOSE d \in those : TRUE)

GlobalCells == UNION {GlobalAt(g) .. GlobalAt(g) + 3 : g \in DOMAIN Globals}

Entered ==
    /\ inputs \in Inputs
    /\ regs = [r \in Registers |->
                IF r \in Range(ArgReg) THEN ArgOfClass(FALSE, CHOOSE k \in 1 .. 8 : ArgReg[k] = r)
                ELSE IF r \in Range(FloatArgReg)
                THEN ArgOfClass(TRUE, CHOOSE k \in 1 .. 8 : FloatArgReg[k] = r)
                ELSE IF r = "zero" THEN 0 ELSE IF r = "ra" THEN ReturnAddress
                ELSE IF r = "sp" THEN Frame0 ELSE IF r = "fp" THEN CallerFp ELSE Undef]
    /\ mem = [a \in GlobalCells |->
                LET g == (a - GlobalAt(0)) \div 4 IN <<Globals[g], a - GlobalAt(g), 4>>]
    /\ mpc = 1

Ins == output[mpc].ins
Executes(ops) == phase = "run" /\ mpc \in DOMAIN output /\ Ins[1] \in ops
Then(to) == mpc' = to /\ UNCHANGED <<frameVars, genVars, inputs>>
SetReg(r, v) == regs' = [regs EXCEPT ![r] = v] /\ UNCHANGED mem

Computes(op, v) == Executes({op}) /\ SetReg(Ins[2], v) /\ Then(mpc + 1)

(* Immediate forms.  ori follows lu12i.w, which has cleared the low bits.  *)
ExecImmediate ==
    \/ Computes("addi.w", Signed(regs[Ins[3]] + Ins[4], Word))
    \/ Computes("addi.d", Signed(regs[Ins[3]] + Ins[4], Double))
    \/ Computes("lu12i.w", Signed(Ins[3] * Low, Word))
    \/ Computes("ori", regs[Ins[3]] + Ins[4])
    \/ Computes("lu32i.d", Signed(Ins[3] * Word + Unsigned(regs[Ins[2]], Word), Double))
    \/ Computes("lu52i.d",
         Signed(Ins[4] * Word * High + Unsigned(regs[Ins[3]], Word * High), Double))
    \/ Computes("la.local", GlobalAt(Ins[3]))

(* div.w has no defined quotient for a zero divisor: 0 here as in the IR.  *)
Abs(n) == IF n < 0 THEN -n ELSE n
Quot(x, y) ==
    LET q == IF y = 0 THEN 0 ELSE Abs(x) \div Abs(y)
    IN  IF (x < 0) = (y < 0) THEN q ELSE -q

Left == regs[Ins[3]]
Right == regs[Ins[4]]
LeftWord == Signed(Left, Word)
RightWord == Signed(Right, Word)

ExecRegister ==
    \/ Computes("add.d", Signed(Left + Right, Double))
    \/ Computes("sub.d", Signed(Left - Right, Double))
    \/ Computes("add.w", Signed(LeftWord + RightWord, Word))
    \/ Computes("sub.w", Signed(LeftWord - RightWord, Word))
    \/ Computes("mul.w", Signed(LeftWord * RightWord, Word))
    \/ Computes("div.w", Signed(Quot(LeftWord, RightWord), Word))

Bytes(op) == IF op \in {"ld.b", "st.b"} THEN 1
             ELSE IF op \in {"ld.d", "st.d"} THEN 8 ELSE 4

ExecLoad ==
    /\ Executes({"ld.b", "ld.w", "ld.d", "fld.s"})
    /\ SetReg(Ins[2], Read(regs[Ins[3]] + Ins[4], Bytes(Ins[1])))
    /\ Then(mpc + 1)

Stored(op, v) == IF op = "st.b" THEN Signed(v, 256)
                 ELSE IF op = "st.w" THEN Signed(v, Word) ELSE v

ExecStore ==
    /\ Executes({"st.b", "st.w", "st.d", "fst.s"})
    /\ mem' = Over(Cells(regs[Ins[3]] + Ins[4], Bytes(Ins[1]), Stored(Ins[1], regs[Ins[2]])), mem)
    /\ UNCHANGED regs
    /\ Then(mpc + 1)

Label(l) == {i \in DOMAIN output : output[i].ins = <<"label", l>>}

ExecJump ==
    /\ Executes({"b", "label"})
    /\ \/ Ins[1] = "label" /\ Then(mpc + 1)
       \/ Ins[1] = "b" /\ \E i \in Label(Ins[2]) : Then(i)
    /\ UNCHANGED <<regs, mem>>

(* The end of what was emitted, or a jump to what was not.                 *)
Stopped ==
    /\ phase = "run"
    /\ mpc \in DOMAIN output => Ins[1] = "b" /\ Label(Ins[2]) = {}
    /\ UNCHANGED vars

Init ==
    /\ AllocateInit
    /\ output = << >> /\ gargs = 0 /\ fargs = 0 /\ at = 0 /\ fault = ""
    /\ Entered

Layout == Allocate /\ UNCHANGED <<genVars, inputs, machineVars>>
Execute == ExecImmediate \/ ExecRegister \/ ExecLoad \/ ExecStore \/ ExecJump
Next == Layout \/ Generate \/ Execute \/ Stopped
Spec == Init /\ [][Next]_vars

-----------------------------------------------------------------------------
(* The definition the machine is at.                                       *)
Reached == IF phase # "run" THEN 0
           ELSE IF mpc \in DOMAIN output THEN output[mpc].from ELSE at

(* A remainder has no code: from there on a function is not the IR's.      *)
HasRem == \E i \in 1 .. Len(fn.code) : fn.code[i].op = "srem"
Follows == Fits /\ ~HasRem /\ Reached # 0

IR == INSTANCE IRMachine WITH
    inputs <- [d \in 1 .. Args |-> InputOf(d)],
    ip <- IF Follows THEN Reached ELSE 0,
    vals <- [d \in Defs |->
               IF Follows /\ HasSlot(d) THEN Read(Frame0 + slot[d], SizeOf(TypeOf(d)))
               ELSE Undef]

(* The code emitted for a function does what its IR says: whatever order   *)
(* and mixture of classes the arguments have, wherever the slots lie, each *)
(* IR instruction takes effect once all its machine instructions have run, *)
(* and no earlier value is lost.                                           *)
ImplementsIR == IR!Spec

(* The operand of every instruction fits its field.                        *)
ImmediatesFit ==
    \A i \in DOMAIN output :
        LET ins == output[i].ins IN
        /\ ins[1] = "ori" => ins[4] \in 0 .. Low - 1
        /\ ins[1] \in {"lu12i.w", "lu32i.d"} => ins[3] \in -(High \div 2) .. High \div 2 - 1
        /\ ins[1] \in {"addi.w", "addi.d", "lu52i.d", "ld.b", "ld.w", "ld.d", "fld.s",
                      "st.b", "st.w", "st.d", "fst.s"} =>
              ins[4] \in -(Low \div 2) .. Low \div 2 - 1

(* Once the prologue has run, and to the end, the caller's registers can   *)
(* be restored and nothing outside the frame has been written.             *)
CallerKept ==
    Fits /\ phase = "run" =>
        /\ \A a \in DOMAIN mem : a >= Frame0 - frameSize /\ (a < Frame0 \/ a >= 2 * Frame0)
        /\ Reached # 0 =>
            /\ regs["sp"] = Frame0 - frameSize /\ regs["fp"] = Frame0
            /\ Read(Frame0 - 8, 8) = ReturnAddress
            /\ Read(Frame0 - 16, 8) = CallerFp

ClassSize(float) == Cardinality({d \in 1 .. Args : IsFloatArg(d) = float})
Todo(i) == IsTodo(fn.code[i])
HasCode(i) == \E k \in DOMAIN output : output[k].from = i

(* Generation gives up on a ninth argument of a class, and otherwise at    *)
(* the first instruction it does not implement, with code for every one    *)
(* before that but remainders, which it passes over in silence.            *)
StopsAtFirstTodo ==
    phase = "run" =>
        IF ClassSize(TRUE) > 8 \/ ClassSize(FALSE) > 8 THEN fault = "assert" /\ at = 0
        ELSE /\ fault = "todo" /\ Todo(at)
             /\ \A i \in 1 .. at - 1 : ~Todo(i) /\ (HasCode(i) <=> fn.code[i].op # "srem")

=============================================================================
