------------------------------ MODULE IRMachine ------------------------------
(***************************************************************************)
(* What the LightIR code of one function means, as far as the code         *)
(* generator translates it: instructions run one after the other and give  *)
(* a value to their own definition; an unconditional br goes to its label. *)
(* The specification CodeGen implements.                                   *)
(*                                                                         *)
(* Operands are <<"const", n>>, <<"def", d>> or <<"global", g>>.           *)
(***************************************************************************)
EXTENDS Integers, Sequences

CONSTANTS
    Word,       \* the ints: 2^32 of them
    Undef,      \* the value of a definition that was not computed
    Globals     \* what each float global holds

VARIABLES
    fn,         \* the function
    inputs,     \* the values of its arguments
    ip,         \* the current instruction; 0 before the arguments are there
    vals        \* the value of every definition

vars == <<fn, inputs, ip, vals>>

ArgCount == Len(fn.args)
AsWord(n) == ((n + Word \div 2) % Word) - Word \div 2

(* sdiv and srem round to zero; the model takes 0 for x / 0 and x % 0,     *)
(* which are undefined.                                                    *)
Abs(n) == IF n < 0 THEN -n ELSE n
Quotient(x, y) == IF y = 0 THEN 0 ELSE IF (x < 0) = (y < 0) THEN Abs(x) \div Abs(y)
                                       ELSE -(Abs(x) \div Abs(y))
Result(op, x, y) ==
    AsWord(IF op = "add" THEN x + y
           ELSE IF op = "sub" THEN x - y
           ELSE IF op = "mul" THEN x * y
           ELSE IF op = "sdiv" THEN Quotient(x, y)
           ELSE IF y = 0 THEN 0 ELSE x - y * Quotient(x, y))

BinaryOps == {"add", "sub", "mul", "sdiv", "srem"}

ValueOf(operand) ==
    AsWord(IF operand[1] = "const" THEN operand[2] ELSE vals[operand[2]])

Here == fn.code[ip]
Gives(v) == vals' = [vals EXCEPT ![ArgCount + ip] = v]
At(ops) == ip \in 1 .. Len(fn.code) /\ Here.op \in ops

Init ==
    /\ ip = 0
    /\ vals = [d \in 1 .. ArgCount + Len(fn.code) |-> Undef]

Enter ==
    /\ ip = 0 /\ ip' = 1
    /\ vals' = [d \in DOMAIN vals |-> IF d <= ArgCount THEN inputs[d] ELSE Undef]
    /\ UNCHANGED <<fn, inputs>>

StartBlock ==
    /\ At({"label"})
    /\ ip' = ip + 1
    /\ UNCHANGED <<fn, inputs, vals>>

Binary ==
    /\ At(BinaryOps)
    /\ Gives(Result(Here.op, ValueOf(Here.ops[1]), ValueOf(Here.ops[2])))
    /\ ip' = ip + 1
    /\ UNCHANGED <<fn, inputs>>

LoadGlobal ==
    /\ At({"load"}) /\ Here.ty = "float"
    /\ Gives(Globals[Here.ops[1][2]])
    /\ ip' = ip + 1
    /\ UNCHANGED <<fn, inputs>>

Branch ==
    /\ At({"br"})
    /\ ip' \in {i \in 1 .. Len(fn.code) : fn.code[i].op = "label" /\ fn.code[i].ops = Here.ops}
    /\ UNCHANGED <<fn, inputs, vals>>

Next == Enter \/ StartBlock \/ Binary \/ LoadGlobal \/ Branch

Spec == Init /\ [][Next]_vars

=============================================================================
