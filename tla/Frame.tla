-------------------------------- MODULE Frame --------------------------------
(***************************************************************************)
(* CodeGen::allocate: the stack frame of one function.                     *)
(*                                                                         *)
(* Every argument and every instruction with a value gets a slot, rounded  *)
(* up to its own size; an alloca reserves its area below its slot.  The    *)
(* bytes of $ra and $fp are the first 16 of the frame.  Offsets are        *)
(* unsigned words, the slots their negation as int, relative to $fp.       *)
(*                                                                         *)
(* A function is [args, code]: the types of its arguments, and its         *)
(* instructions [op, ty, ops, area] with each block's label before them.   *)
(* Arguments and code together are its definitions, numbered from 1.       *)
(***************************************************************************)
EXTENDS Integers, Sequences

CONSTANTS
    Functions,  \* the functions to compile
    Half        \* half the range of an unsigned: 2^31

Type == {"i1", "int", "float", "ptr", "void"}

ASSUME HalfAssumption == Half \in Nat /\ Half > 16 /\ Half % 16 = 0

ASSUME FunctionsAssumption ==
    \A f \in Functions :
        /\ \A i \in 1 .. Len(f.args) : f.args[i] \in {"int", "float", "ptr"}
        /\ \A i \in 1 .. Len(f.code) :
            f.code[i].ty \in Type /\ f.code[i].area \in 0 .. 2 * Half - 1
        /\ Len(f.args) \in Nat /\ Len(f.code) \in Nat

VARIABLES
    fn,         \* the function
    phase,      \* "allocate", then the phases of CodeGen
    placed,     \* definitions the loops have gone through
    offset,     \* the running offset
    slot,       \* context.offset_map: the first `placed` definitions
    frameSize,  \* context.frame_size
    need        \* history: the offset had it no width

frameVars == <<fn, phase, placed, offset, slot, frameSize, need>>

Args == Len(fn.args)
Defs == 1 .. Args + Len(fn.code)
TypeIn(f, d) == IF d <= Len(f.args) THEN f.args[d] ELSE f.code[d - Len(f.args)].ty
TypeOf(d) == TypeIn(fn, d)
AreaOf(d) == IF d <= Args THEN 0 ELSE fn.code[d - Args].area

(* Type::get_size of the types a value can have.                           *)
SizeOf(ty) == [i1 |-> 1, int |-> 4, float |-> 4, ptr |-> 8, void |-> 0][ty]

HasSlot(d) == TypeOf(d) # "void"

-----------------------------------------------------------------------------
Wrap(x) == x % (2 * Half)
AsInt(x) == IF x >= Half THEN x - 2 * Half ELSE x

(* Fault: an offset is rounded down to the size of the slot.               *)
AlignDown(x, a) == x - (x % a)
(* ALIGN, for a power of two.                                              *)
Align(x, a) == Wrap(x + (a - 1)) - (Wrap(x + (a - 1)) % a)

Base == 16      \* PROLOGUE_OFFSET_BASE and PROLOGUE_ALIGN

AllocateInit ==
    /\ fn \in Functions
    /\ phase = "allocate" /\ placed = 0
    /\ offset = Base /\ need = Base
    /\ slot = [d \in Defs |-> 0]
    /\ frameSize = 0

(* One turn of either loop: the next argument, or the next instruction.    *)
AllocateNext ==
    /\ phase = "allocate" /\ placed < Args + Len(fn.code)
    /\ LET d == placed + 1
           size == SizeOf(TypeOf(d))
           top == IF HasSlot(d) THEN Align(Wrap(offset + size), size) ELSE offset
       IN  /\ placed' = d
           /\ slot' = [slot EXCEPT ![d] = IF HasSlot(d) THEN -AsInt(top) ELSE 0]
           /\ offset' = Wrap(top + AreaOf(d))
           /\ need' = AreaOf(d) + (IF HasSlot(d)
                                   THEN need + 2 * size - 1 - ((need + size + size - 1) % size)
                                   ELSE need)
    /\ UNCHANGED <<fn, phase, frameSize>>

AllocateDone ==
    /\ phase = "allocate" /\ placed = Args + Len(fn.code)
    /\ frameSize' = Align(offset, Base)
    /\ phase' = "save"
    /\ UNCHANGED <<fn, placed, offset, slot, need>>

Allocate == AllocateNext \/ AllocateDone

-----------------------------------------------------------------------------
(* The frame can be addressed at all: it is smaller than half the address  *)
(* space of an unsigned.                                                   *)
Fits == need + Base <= Half

(* The bytes of a definition, its slot and under it the area of an alloca: *)
(* from Bottom up to, and without, Top.                                    *)
Bottom(d) == slot[d] - AreaOf(d)
Top(d) == slot[d] + SizeOf(TypeOf(d))

(* While the frame fits, every definition gone through owns its bytes: its *)
(* slot is aligned to its size, they lie below the saved $ra and $fp and   *)
(* inside the frame, and no other definition has one of them.              *)
SlotsDisjoint ==
    Fits =>
    \A d \in 1 .. placed : HasSlot(d) =>
        /\ slot[d] % SizeOf(TypeOf(d)) = 0
        /\ Top(d) <= -Base
        /\ phase # "allocate" => frameSize % Base = 0 /\ Bottom(d) >= -frameSize
        /\ \A e \in 1 .. placed : HasSlot(e) /\ e # d => Top(e) <= Bottom(d) \/ Top(d) <= Bottom(e)

=============================================================================
