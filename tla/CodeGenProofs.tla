---------------------------- MODULE CodeGenProofs ----------------------------
(***************************************************************************)
(* What CodeGen lays out and emits, for every function and every width of  *)
(* an unsigned, of the words and of the fields.                            *)
(*                                                                         *)
(* The first part is about the frames of CodeGen::allocate, the second     *)
(* shows that each operand fits its field, the third where generation      *)
(* stops and what has code by then.  The rest runs the emitted code: it is *)
(* laid out in pieces, the prologue, the store of each argument and the    *)
(* code of each instruction (LaidInv), and the machine is always at a step *)
(* of a piece, with the registers that piece needs (RunInv).  From there   *)
(* each machine instruction is a step of the IR machine or none.           *)
(***************************************************************************)
EXTENDS CodeGen, FiniteSetTheorems, SequenceTheorems, TLAPS

(* The slot of a value of this size above an offset of n bytes.            *)
Up(n, size) == n + 2 * size - 1 - ((n + size + size - 1) % size)

(* A slot begins at the next multiple of its size that leaves it room.     *)
LEMMA UpAligned ==
    ASSUME NEW n \in Nat, NEW size \in {1, 4, 8}
    PROVE  /\ Up(n, size) \in Nat
           /\ Up(n, size) >= n + size
           /\ Up(n, size) < n + 2 * size
           /\ Up(n, size) % size = 0
<1>1. CASE size = 1
  BY <1>1 DEF Up
<1>2. CASE size = 4
  BY <1>2 DEF Up
<1>3. CASE size = 8
  BY <1>3 DEF Up
<1> QED  BY <1>1, <1>2, <1>3

(* While there is room below half the range, nothing wraps.                *)
LEMMA NoWrap ==
    ASSUME NEW x \in Nat, x < 2 * Half
    PROVE  Wrap(x) = x
BY HalfAssumption DEF Wrap

LEMMA AlignIsUp ==
    ASSUME NEW n \in Nat, NEW size \in {1, 4, 8}, n + 2 * size <= Half
    PROVE  Align(Wrap(n + size), size) = Up(n, size)
<1>1. Wrap(n + size) = n + size
  BY NoWrap, HalfAssumption
<1>2. Wrap(n + size + (size - 1)) = n + size + (size - 1)
  BY NoWrap, HalfAssumption
<1> QED  BY <1>1, <1>2 DEF Align, Up

LEMMA AlignBase ==
    ASSUME NEW n \in Nat, n + Base <= Half
    PROVE  /\ Align(n, Base) \in Nat
           /\ Align(n, Base) >= n /\ Align(n, Base) < Half
           /\ Align(n, Base) % Base = 0
<1>1. Wrap(n + (Base - 1)) = n + (Base - 1)
  BY NoWrap, HalfAssumption DEF Base
<1> QED  BY <1>1, HalfAssumption DEF Align, Base

-----------------------------------------------------------------------------
FrameType ==
    /\ fn \in Functions
    /\ placed \in 0 .. Args + Len(fn.code)
    /\ need \in Nat /\ offset \in Int /\ frameSize \in Int
    /\ slot \in [Defs -> Int]

(* What has been given out lies between the saved registers and the        *)
(* offset, and the offset has not wrapped.                                 *)
Between(d) == Top(d) <= -Base /\ Bottom(d) >= -offset
Apart(d, e) == Top(e) <= Bottom(d) \/ Top(d) <= Bottom(e)

Packed ==
    /\ offset = need /\ Base <= offset
    /\ \A d \in 1 .. placed : HasSlot(d) =>
          /\ slot[d] % SizeOf(TypeOf(d)) = 0
          /\ Between(d)
          /\ \A e \in 1 .. placed : HasSlot(e) /\ e # d => Apart(d, e)

Framed ==
    phase # "allocate" =>
        /\ placed = Args + Len(fn.code)
        /\ frameSize % Base = 0 /\ frameSize >= offset /\ frameSize < Half

FrameInv == FrameType /\ (Fits => Packed /\ Framed)

(* What the assumption says of the function at hand.                       *)
LEMMA FunctionTypes ==
    ASSUME fn \in Functions
    PROVE  /\ Len(fn.args) \in Nat /\ Len(fn.code) \in Nat
           /\ \A i \in 1 .. Len(fn.args) : fn.args[i] \in {"int", "float", "ptr"}
           /\ \A i \in 1 .. Len(fn.code) :
               fn.code[i].ty \in Type /\ fn.code[i].area \in 0 .. 2 * Half - 1
BY FunctionsAssumption, Zenon

LEMMA Sizes ==
    ASSUME NEW ty \in Type \ {"void"}
    PROVE  SizeOf(ty) \in {1, 4, 8}
BY DEF SizeOf, Type

(* Counting on from the arguments to the instructions.                     *)
LEMMA CountOn ==
    ASSUME NEW a \in Nat, NEW b \in Nat, NEW d \in 1 .. a + b
    PROVE  /\ d <= a => d \in 1 .. a
           /\ ~(d <= a) => d - a \in 1 .. b
           /\ 0 \in 0 .. a + b
           /\ d \in 0 .. a + b
OBVIOUS

(* The types of what a function defines.                                   *)
LEMMA DefinitionTypes ==
    ASSUME fn \in Functions, NEW d \in Defs
    PROVE  /\ TypeOf(d) \in Type
           /\ AreaOf(d) \in Nat
           /\ HasSlot(d) => SizeOf(TypeOf(d)) \in {1, 4, 8}
<1>1. /\ Len(fn.args) \in Nat /\ Len(fn.code) \in Nat /\ Half \in Nat
  BY FunctionTypes, HalfAssumption
<1>2. d \in 1 .. Len(fn.args) + Len(fn.code)
  BY DEF Defs, Args
<1>3. TypeOf(d) \in Type /\ AreaOf(d) \in Nat
  <2>1. CASE d <= Len(fn.args)
    <3>1. d \in 1 .. Len(fn.args)
      BY <1>1, <1>2, <2>1, CountOn
    <3>2. fn.args[d] \in {"int", "float", "ptr"}
      BY <3>1, FunctionTypes
    <3> QED  BY <2>1, <3>2 DEF TypeOf, TypeIn, AreaOf, Args, Type
  <2>2. CASE ~(d <= Len(fn.args))
    <3>1. d - Len(fn.args) \in 1 .. Len(fn.code)
      BY <1>1, <1>2, <2>2, CountOn
    <3>2. /\ fn.code[d - Len(fn.args)].ty \in Type
          /\ fn.code[d - Len(fn.args)].area \in 0 .. 2 * Half - 1
      BY <3>1, FunctionTypes
    <3>3. fn.code[d - Len(fn.args)].area \in Nat
      BY <3>2, <1>1
    <3> QED  BY <2>2, <3>2, <3>3 DEF TypeOf, TypeIn, AreaOf, Args
  <2> QED  BY <2>1, <2>2
<1> QED  BY <1>3, Sizes DEF HasSlot

LEMMA FrameInit == AllocateInit => FrameInv
<1> SUFFICES ASSUME AllocateInit PROVE FrameInv
  OBVIOUS
<1>1. fn \in Functions /\ slot = [d \in Defs |-> 0] /\ placed = 0
  BY DEF AllocateInit
<1>2. FrameType
  <2>1. placed \in 0 .. Args + Len(fn.code)
    <3>1. Args \in Nat /\ Len(fn.code) \in Nat
      BY <1>1, FunctionTypes DEF Args
    <3>2. Args + Len(fn.code) \in Nat
      BY <3>1
    <3> QED  BY <1>1, <3>2
  <2>2. slot \in [Defs -> Int]
    BY <1>1
  <2> QED  BY <1>1, <2>1, <2>2 DEF AllocateInit, FrameType, Base
<1>3. Packed
  BY <1>1 DEF AllocateInit, Packed, Base
<1>4. Framed
  BY DEF AllocateInit, Framed
<1> QED  BY <1>2, <1>3, <1>4 DEF FrameInv

-----------------------------------------------------------------------------
(* Where the next slot goes, as long as the frame fits with it.            *)
LEMMA Place ==
    ASSUME NEW size \in {1, 4, 8}, NEW n \in Nat, NEW area \in Nat,
           area + Up(n, size) + Base <= Half
    PROVE  LET top == Align(Wrap(n + size), size)
           IN  /\ top = Up(n, size) /\ top \in Nat
               /\ AsInt(top) = top
               /\ Wrap(top + area) = top + area
               /\ (-top) % size = 0
               /\ top >= n + size
<1> DEFINE top == Align(Wrap(n + size), size)
<1>1. /\ Up(n, size) \in Nat /\ Up(n, size) >= n + size
      /\ Up(n, size) % size = 0
  BY UpAligned
<1>2. n + 2 * size <= Half
  BY <1>1, HalfAssumption DEF Base
<1>3. top = Up(n, size)
  BY <1>2, AlignIsUp
<1>4. AsInt(Up(n, size)) = Up(n, size)
  BY <1>1, HalfAssumption DEF AsInt, Base
<1>5. Wrap(Up(n, size) + area) = Up(n, size) + area
  BY <1>1, NoWrap, HalfAssumption DEF Base
<1>6. (-Up(n, size)) % size = 0
  <2> HIDE DEF Up
  <2>1. CASE size = 1  BY <1>1, <2>1
  <2>2. CASE size = 4  BY <1>1, <2>2
  <2>3. CASE size = 8  BY <1>1, <2>3
  <2> QED  BY <2>1, <2>2, <2>3
<1> QED  BY <1>1, <1>3, <1>4, <1>5, <1>6

(* Offsets and slots are integers, whether or not the frame fits.          *)
LEMMA Integral ==
    ASSUME NEW x \in Int
    PROVE  /\ Wrap(x) \in Int /\ AsInt(x) \in Int
           /\ \A a \in {1, 4, 8, Base} : Align(x, a) \in Int
<1>1. \A y \in Int : Wrap(y) \in Int
  BY HalfAssumption DEF Wrap
<1>2. AsInt(x) \in Int
  BY HalfAssumption DEF AsInt
<1>3. ASSUME NEW a \in {1, 4, 8, Base} PROVE Align(x, a) \in Int
  <2>1. Wrap(x + (a - 1)) \in Int
    BY <1>1 DEF Base
  <2> QED  BY <2>1 DEF Align, Base
<1> QED  BY <1>1, <1>2, <1>3

(* A turn of the loops does not touch what came before.                    *)
LEMMA EarlierKept ==
    ASSUME FrameType, AllocateNext
    PROVE  /\ fn' = fn /\ placed' = placed + 1 /\ placed + 1 \in Defs
           /\ 1 .. placed + 1 = (1 .. placed) \cup {placed + 1}
           /\ \A e \in Defs : TypeOf(e)' = TypeOf(e) /\ AreaOf(e)' = AreaOf(e)
           /\ \A e \in 1 .. placed :
                 /\ e \in Defs /\ slot'[e] = slot[e]
                 /\ Top(e)' = Top(e) /\ Bottom(e)' = Bottom(e)
                 /\ HasSlot(e)' = HasSlot(e)
<1>1. fn' = fn /\ placed' = placed + 1 /\ placed < Args + Len(fn.code)
  BY DEF AllocateNext
<1>2. /\ fn \in Functions /\ slot \in [Defs -> Int]
      /\ placed \in 0 .. Args + Len(fn.code)
  BY DEF FrameType
<1>3. Args \in Nat /\ Len(fn.code) \in Nat
  BY <1>2, FunctionTypes DEF Args
<1>4. /\ placed \in Nat /\ placed + 1 \in Defs
      /\ 1 .. placed + 1 = (1 .. placed) \cup {placed + 1}
      /\ \A e \in 1 .. placed : e \in Defs /\ e # placed + 1
  <2> DEFINE n == Args + Len(fn.code)
  <2>1. n \in Nat /\ placed \in 0 .. n /\ placed < n
    BY <1>1, <1>2, <1>3
  <2> HIDE DEF n
  <2>2. /\ placed \in Nat /\ placed + 1 \in 1 .. n
        /\ 1 .. placed + 1 = (1 .. placed) \cup {placed + 1}
        /\ \A e \in 1 .. placed : e \in 1 .. n /\ e # placed + 1
    BY <2>1
  <2> QED  BY <2>2 DEF Defs, n
<1>5. \A e \in Defs : TypeOf(e)' = TypeOf(e) /\ AreaOf(e)' = AreaOf(e)
  BY <1>1 DEF TypeOf, TypeIn, AreaOf, Args
<1>6. \A e \in 1 .. placed : slot'[e] = slot[e]
  <2>1. PICK x : slot' = [slot EXCEPT ![placed + 1] = x]
    BY DEF AllocateNext
  <2> QED  BY <1>2, <1>4, <2>1
<1>7. \A e \in 1 .. placed :
        Top(e)' = Top(e) /\ Bottom(e)' = Bottom(e) /\ HasSlot(e)' = HasSlot(e)
  BY <1>4, <1>5, <1>6 DEF Top, Bottom, HasSlot
<1> QED  BY <1>1, <1>4, <1>5, <1>6, <1>7

(* Each turn of the loops gives out space nobody has.                      *)
LEMMA FrameNext == FrameInv /\ AllocateNext => FrameInv'
<1> SUFFICES ASSUME FrameInv, AllocateNext PROVE FrameInv'
  OBVIOUS
<1> DEFINE d == placed + 1
           size == SizeOf(TypeOf(d))
           area == AreaOf(d)
           top == IF HasSlot(d) THEN Align(Wrap(offset + size), size) ELSE offset
<1>1. FrameType
  BY DEF FrameInv
<1>2. /\ fn' = fn /\ placed' = d /\ d \in Defs
      /\ 1 .. d = (1 .. placed) \cup {d}
      /\ \A e \in Defs : TypeOf(e)' = TypeOf(e) /\ AreaOf(e)' = AreaOf(e)
      /\ \A e \in 1 .. placed :
            /\ e \in Defs /\ slot'[e] = slot[e]
            /\ Top(e)' = Top(e) /\ Bottom(e)' = Bottom(e)
            /\ HasSlot(e)' = HasSlot(e)
  BY <1>1, EarlierKept
<1>3. /\ fn \in Functions /\ need \in Nat /\ offset \in Int /\ frameSize \in Int
      /\ slot \in [Defs -> Int] /\ Half \in Nat
  BY <1>1, HalfAssumption DEF FrameType
<1>4. area \in Nat /\ (HasSlot(d) => size \in {1, 4, 8})
  BY <1>2, <1>3, DefinitionTypes
<1>5. /\ phase = "allocate" /\ phase' = phase /\ frameSize' = frameSize
      /\ slot' = [slot EXCEPT ![d] = IF HasSlot(d) THEN -AsInt(top) ELSE 0]
      /\ offset' = Wrap(top + area)
      /\ need' = area + (IF HasSlot(d) THEN Up(need, size) ELSE need)
  BY DEF AllocateNext, Up
<1> HIDE DEF size, area
<1>6. need' \in Nat /\ need' >= need
  <2>1. CASE HasSlot(d)
    <3>1. size \in {1, 4, 8}
      BY <1>4, <2>1
    <3>2. Up(need, size) \in Nat /\ Up(need, size) >= need + size
      BY <1>3, <3>1, UpAligned
    <3> QED  BY <1>3, <1>4, <1>5, <2>1, <3>1, <3>2
  <2>2. CASE ~HasSlot(d)
    BY <1>3, <1>4, <1>5, <2>2
  <2> QED  BY <2>1, <2>2
<1>7. FrameType'
  <2>1. top \in Int
    BY <1>3, <1>4, Integral
  <2>2. AsInt(top) \in Int /\ offset' \in Int
    BY <1>4, <1>5, <2>1, Integral
  <2>3. slot' \in [Defs -> Int]
    <3> HIDE DEF top
    <3> QED  BY <1>2, <1>3, <1>5, <2>2
  <2>4. Defs' = Defs /\ (Args + Len(fn.code))' = Args + Len(fn.code)
    BY <1>2 DEF Defs, Args
  <2>5. d \in 0 .. Args + Len(fn.code)
    BY <1>2, <1>3, FunctionTypes, CountOn DEF Defs, Args
  <2> QED  BY <1>2, <1>3, <1>5, <1>6, <2>2, <2>3, <2>4, <2>5 DEF FrameType
<1>8. Fits' => Fits
  <2>1. \A n, m \in Nat : m >= n /\ m + 16 <= Half => n + 16 <= Half
    BY <1>3
  <2> QED  BY <1>3, <1>6, <2>1 DEF Fits, Base
<1>9. ASSUME Fits' PROVE Packed'
  <2>1. offset = need /\ Base <= offset
    BY <1>8, <1>9 DEF FrameInv, Packed
  <2>2. \A e \in 1 .. placed : HasSlot(e) =>
          /\ slot[e] % SizeOf(TypeOf(e)) = 0
          /\ Between(e)
          /\ \A f \in 1 .. placed : HasSlot(f) /\ f # e => Apart(e, f)
    BY <1>8, <1>9 DEF FrameInv, Packed
  <2>3. need' + Base <= Half
    BY <1>9 DEF Fits
  <2>4. /\ offset' = top + area /\ need' = offset' /\ offset' >= offset
        /\ top \in Int /\ top + area >= top
        /\ HasSlot(d) => /\ slot'[d] = -top /\ (-top) % size = 0
                         /\ top >= offset + size
    <3>1. CASE HasSlot(d)
      <4>1. /\ size \in {1, 4, 8} /\ need' = area + Up(need, size)
            /\ area + Up(need, size) + Base <= Half
        BY <1>4, <1>5, <2>3, <3>1
      <4>2. /\ top = Up(need, size) /\ top \in Nat /\ AsInt(top) = top
            /\ Wrap(top + area) = top + area /\ (-top) % size = 0
            /\ top >= need + size
        BY <1>3, <1>4, <2>1, <3>1, <4>1, Place
      <4>3. slot'[d] = -top
        BY <1>2, <1>3, <1>5, <3>1, <4>2
      <4> HIDE DEF top
      <4> QED  BY <1>3, <1>4, <1>5, <2>1, <4>1, <4>2, <4>3
    <3>2. CASE ~HasSlot(d)
      <4>1. top = need /\ need' = area + need
        BY <1>5, <2>1, <3>2
      <4>2. Wrap(need + area) = need + area
        BY <1>3, <1>4, <2>3, <4>1, NoWrap DEF Base
      <4> QED  BY <1>3, <1>4, <1>5, <2>1, <3>2, <4>1, <4>2
    <3> QED  BY <3>1, <3>2
  <2> HIDE DEF top
  <2>5. ASSUME NEW e \in Defs, e = d, HasSlot(e)
        PROVE  /\ slot'[e] % SizeOf(TypeOf(e)) = 0
               /\ Between(e)'
               /\ Top(e)' \in Int /\ Top(e)' <= -offset
    <3>1. /\ slot'[e] = -top /\ (-top) % size = 0 /\ top >= offset + size
          /\ size \in {1, 4, 8} /\ size = SizeOf(TypeOf(e)) /\ area = AreaOf(e)
      BY <1>4, <2>4, <2>5 DEF size, area
    <3>2. Top(e)' = -top + size /\ Bottom(e)' = -top - area
      BY <1>2, <3>1 DEF Top, Bottom
    <3> QED  BY <1>3, <1>4, <2>1, <2>4, <3>1, <3>2 DEF Between, Base
  <2>6. ASSUME NEW e \in 1 .. placed, HasSlot(e)
        PROVE  /\ slot'[e] % SizeOf(TypeOf(e)) = 0
               /\ Between(e)'
               /\ Bottom(e)' \in Int /\ Bottom(e)' >= -offset
    <3>1. /\ slot[e] % SizeOf(TypeOf(e)) = 0 /\ slot'[e] = slot[e]
          /\ Top(e)' = Top(e) /\ Bottom(e)' = Bottom(e)
          /\ Top(e) <= -Base /\ Bottom(e) >= -offset
      BY <1>2, <2>2, <2>6 DEF Between
    <3>2. Bottom(e) \in Int
      <4>1. slot[e] \in Int /\ AreaOf(e) \in Nat
        BY <1>2, <1>3, DefinitionTypes
      <4> QED  BY <4>1 DEF Bottom
    <3> QED  BY <1>3, <1>4, <2>4, <3>1, <3>2 DEF Between
  <2>7. ASSUME NEW e \in 1 .. placed', HasSlot(e)',
               NEW f \in 1 .. placed', HasSlot(f)', f # e
        PROVE  Apart(e, f)'
    <3>1. /\ e \in Defs /\ f \in Defs /\ HasSlot(e) /\ HasSlot(f)
      BY <1>2, <2>7 DEF HasSlot
    <3>2. CASE e = d
      BY <1>2, <1>3, <2>5, <2>6, <2>7, <3>1, <3>2 DEF Apart
    <3>3. CASE f = d
      BY <1>2, <1>3, <2>5, <2>6, <2>7, <3>1, <3>3 DEF Apart
    <3>4. CASE e \in 1 .. placed /\ f \in 1 .. placed
      BY <1>2, <2>2, <2>7, <3>1, <3>4 DEF Apart
    <3> QED  BY <1>2, <3>2, <3>3, <3>4
  <2>8. ASSUME NEW e \in 1 .. placed', HasSlot(e)'
        PROVE  slot'[e] % SizeOf(TypeOf(e)') = 0 /\ Between(e)'
    <3>1. e \in Defs /\ TypeOf(e)' = TypeOf(e) /\ HasSlot(e)
      BY <1>2, <2>8 DEF HasSlot
    <3>2. CASE e = d
      BY <2>5, <3>1, <3>2
    <3>3. CASE e \in 1 .. placed
      BY <2>6, <3>1, <3>3
    <3> QED  BY <1>2, <3>2, <3>3
  <2>9. offset' = need' /\ Base <= offset'
    BY <1>3, <1>4, <2>1, <2>4 DEF Base
  <2> QED  BY <2>7, <2>8, <2>9 DEF Packed
<1>10. Framed'
  BY <1>5 DEF Framed
<1> QED  BY <1>7, <1>8, <1>9, <1>10 DEF FrameInv

(* The frame is the offset the loops ended with, rounded up.               *)
LEMMA FrameDone == FrameInv /\ AllocateDone => FrameInv'
<1> SUFFICES ASSUME FrameInv, AllocateDone PROVE FrameInv'
  OBVIOUS
<1>1. /\ frameSize' = Align(offset, Base)
      /\ UNCHANGED <<fn, placed, offset, slot, need>>
  BY DEF AllocateDone
<1>2. FrameType'
  BY <1>1, Integral DEF FrameInv, FrameType, Defs, Args
<1>3. Fits' = Fits
  BY <1>1 DEF Fits
<1>4. ASSUME Fits PROVE Packed' /\ Framed'
  <2>1. Packed /\ offset \in Nat /\ offset + Base <= Half
    BY <1>4 DEF FrameInv, FrameType, Packed, Fits
  <2>2. Packed'
    BY <1>1, <2>1 DEF Packed, Between, Apart, Top, Bottom, HasSlot, TypeOf, TypeIn, AreaOf, Args
  <2>3. Framed'
    <3>1. placed' = Args' + Len(fn'.code)
      BY <1>1 DEF AllocateDone, Args
    <3> QED  BY <1>1, <2>1, <3>1, AlignBase DEF Framed
  <2> QED  BY <2>2, <2>3
<1> QED  BY <1>2, <1>3, <1>4 DEF FrameInv

(* After that, nothing changes the layout: not the prologue, not the       *)
(* translation of an instruction, not the machine.                         *)
LEMMA LayoutFinal ==
    ASSUME FrameInv, UNCHANGED <<fn, placed, offset, slot, frameSize, need>>,
           phase = "allocate" => phase' = "allocate"
    PROVE  FrameInv'
<1>1. FrameType' /\ Fits' = Fits
  BY DEF FrameInv, FrameType, Fits, Defs, Args
<1>2. Packed => Packed'
  BY DEF Packed, Between, Apart, Top, Bottom, HasSlot, TypeOf, TypeIn, AreaOf, Args
<1>3. Framed => Framed'
  BY DEF Framed, Args
<1> QED  BY <1>1, <1>2, <1>3 DEF FrameInv

LEMMA FrameStep == FrameInv /\ [Next]_vars => FrameInv'
<1> SUFFICES ASSUME FrameInv, [Next]_vars PROVE FrameInv'
  OBVIOUS
<1> USE DEF frameVars
<1>1. CASE Layout
  BY <1>1, FrameNext, FrameDone DEF Layout, Allocate
<1>2. CASE Generate
  <2>1. CASE SaveRegisters
    BY <2>1, LayoutFinal DEF SaveRegisters
  <2>2. CASE StoreArg
    BY <2>2, LayoutFinal DEF StoreArg
  <2>3. CASE ArgsStored
    BY <2>3, LayoutFinal DEF ArgsStored
  <2>4. CASE GenLabel \/ GenBr \/ GenBinary \/ GenLoad \/ SkipRem
    BY <2>4, LayoutFinal DEF GenLabel, GenBr, GenBinary, GenLoad, SkipRem, Translated
  <2>5. CASE Throw
    BY <2>5, LayoutFinal DEF Throw, StopWith
  <2> QED  BY <1>2, <2>1, <2>2, <2>3, <2>4, <2>5 DEF Generate
<1>3. CASE Execute
  BY <1>3, LayoutFinal
     DEF Execute, ExecImmediate, ExecRegister, Computes, ExecLoad, ExecStore, ExecJump, Then
<1>4. CASE Stopped \/ UNCHANGED vars
  BY <1>4, LayoutFinal DEF Stopped, vars
<1> QED  BY <1>1, <1>2, <1>3, <1>4 DEF Next

(* The invariant says all that the property does.                          *)
LEMMA FrameSound == FrameInv => SlotsDisjoint
<1> SUFFICES ASSUME FrameInv, Fits PROVE
      \A d \in 1 .. placed : HasSlot(d) =>
        /\ slot[d] % SizeOf(TypeOf(d)) = 0
        /\ Top(d) <= -Base
        /\ phase # "allocate" => frameSize % Base = 0 /\ Bottom(d) >= -frameSize
        /\ \A e \in 1 .. placed : HasSlot(e) /\ e # d =>
              Top(e) <= Bottom(d) \/ Top(d) <= Bottom(e)
  BY DEF SlotsDisjoint
<1> TAKE d \in 1 .. placed
<1> HAVE HasSlot(d)
<1>1. Packed /\ Framed /\ FrameType
  BY DEF FrameInv
<1>2. /\ slot[d] % SizeOf(TypeOf(d)) = 0 /\ Between(d)
      /\ \A e \in 1 .. placed : HasSlot(e) /\ e # d => Apart(d, e)
  BY <1>1 DEF Packed
<1>3. ASSUME phase # "allocate" PROVE frameSize % Base = 0 /\ Bottom(d) >= -frameSize
  <2>1. /\ frameSize % Base = 0 /\ frameSize >= offset /\ Bottom(d) >= -offset
        /\ frameSize \in Int /\ offset \in Int
    BY <1>1, <1>2, <1>3 DEF Framed, FrameType, Between
  <2>2. Bottom(d) \in Int
    <3>1. d \in Defs /\ slot \in [Defs -> Int] /\ fn \in Functions
      <4> DEFINE n == Args + Len(fn.code)
      <4>1. fn \in Functions /\ placed \in 0 .. n /\ slot \in [Defs -> Int]
        BY <1>1 DEF FrameType
      <4>2. n \in Nat
        <5>1. Args \in Nat /\ Len(fn.code) \in Nat
          BY <4>1, FunctionTypes DEF Args
        <5> QED  BY <5>1
      <4> HIDE DEF n
      <4>3. d \in 1 .. n
        BY <4>1, <4>2
      <4> QED  BY <4>1, <4>3 DEF Defs, n
    <3> QED  BY <3>1, DefinitionTypes DEF Bottom
  <2> QED  BY <2>1, <2>2
<1> QED  BY <1>2, <1>3 DEF Between, Apart

(* While a frame fits, the slots of a function never overlap, each is      *)
(* aligned to its size and all lie inside the frame, whatever the function *)
(* and the width of an offset.                                             *)
THEOREM FramesAreDisjoint == Spec => []SlotsDisjoint
<1>1. Init => FrameInv
  BY FrameInit DEF Init
<1> QED  BY <1>1, FrameStep, FrameSound, PTL DEF Spec

-----------------------------------------------------------------------------
(* The quotient of a number of a range by one factor of the range lies in  *)
(* that of the other.                                                      *)
LEMMA Divided ==
    ASSUME NEW a \in Nat, a > 0, NEW b \in Nat, NEW n \in -(a * b) .. a * b - 1
    PROVE  n \div a \in -b .. b - 1
<1> DEFINE q == n \div a
<1>1. n \in Int /\ -(a * b) <= n /\ n < a * b
  OBVIOUS
<1>2. q \in Int /\ a * q <= n /\ n < a * q + a
  BY <1>1
<1> HIDE DEF q
<1>3. q < b
  BY <1>1, <1>2
<1>4. q >= -b
  BY <1>1, <1>2
<1> QED  BY <1>2, <1>3, <1>4 DEF q

(* The low bits of a number, as signed and as unsigned ones.               *)
LEMMA SignedRange ==
    ASSUME NEW n \in Int, NEW m \in Nat, m > 0, m % 2 = 0
    PROVE  Signed(n, m) \in -(m \div 2) .. m \div 2 - 1
<1>1. n + m \div 2 \in Int /\ m \div 2 \in Nat /\ m = (m \div 2) + (m \div 2)
  OBVIOUS
<1> DEFINE x == n + m \div 2
<1>2. x % m \in 0 .. m - 1
  BY <1>1
<1> HIDE DEF x
<1> QED  BY <1>1, <1>2 DEF Signed, x

LEMMA Widths ==
    /\ Half \in Nat /\ Word \in Nat /\ Word > 0 /\ Word % 2 = 0 /\ Word \div 2 = Half
    /\ Low \in Nat /\ Low > 0 /\ High \in Nat /\ High > 0 /\ Low \div 2 >= Base
    /\ Low \div 2 \in Nat /\ High \div 2 \in Nat /\ High % 2 = 0
    /\ Half = Low * (High \div 2) /\ Half = High * (Low \div 2)
<1>1. Half \in Nat /\ Half > 16
  BY HalfAssumption
<1>2. /\ Low \in Nat /\ High \in Nat /\ Low * High = 2 * Half
      /\ Low % 2 = 0 /\ High % 2 = 0 /\ Low >= 32
  BY WidthAssumption DEF Base, Word
<1>3. High > 0
  BY <1>1, <1>2
<1>4. PICK h \in Nat : High = 2 * h
  BY <1>2
<1>5. PICK l \in Nat : Low = 2 * l
  BY <1>2
<1>6. High \div 2 = h /\ Low \div 2 = l
  BY <1>4, <1>5
<1>7. Half = Low * h
  BY <1>1, <1>2, <1>4
<1>8. Half = High * l
  BY <1>1, <1>2, <1>3, <1>5
<1>9. Word \in Nat /\ Word > 0 /\ Word % 2 = 0 /\ Word \div 2 = Half
  BY <1>1 DEF Word
<1> QED  BY <1>1, <1>2, <1>3, <1>4, <1>5, <1>6, <1>7, <1>8, <1>9 DEF Base


-----------------------------------------------------------------------------
(* What ImmediatesFit says of one instruction, and of a piece of code.     *)
Fit(ins) ==
    /\ ins[1] = "ori" => ins[4] \in 0 .. Low - 1
    /\ ins[1] \in {"lu12i.w", "lu32i.d"} => ins[3] \in -(High \div 2) .. High \div 2 - 1
    /\ ins[1] \in {"addi.w", "addi.d", "lu52i.d", "ld.b", "ld.w", "ld.d", "fld.s",
                  "st.b", "st.w", "st.d", "fst.s"} =>
          ins[4] \in -(Low \div 2) .. Low \div 2 - 1

Code(s) == \E S : s \in Seq(S) /\ \A x \in S : Fit(x)

LEMMA CodeOver ==
    ASSUME NEW S, NEW s \in Seq(S), \A x \in S : Fit(x)
    PROVE  Code(s)
BY DEF Code

LEMMA CodeNone == Code(<< >>)
<1> DEFINE S == {}
           s == << >>
<1>1. s \in Seq(S)
  OBVIOUS
<1>2. \A z \in S : Fit(z)
  OBVIOUS
<1> HIDE DEF S, s
<1>3. Code(s)
  BY <1>1, <1>2, CodeOver
<1> QED  BY <1>1, <1>3 DEF s

LEMMA CodeOne ==
    ASSUME NEW x, Fit(x)
    PROVE  Code(<<x>>) /\ <<x>> # << >>
<1> DEFINE S == {x}
           s == <<x>>
<1>1. s \in Seq(S) /\ s # << >>
  OBVIOUS
<1>2. \A z \in S : Fit(z)
  OBVIOUS
<1> HIDE DEF S, s
<1>3. Code(s)
  BY <1>1, <1>2, CodeOver
<1> QED  BY <1>1, <1>3 DEF s

LEMMA CodeTwo ==
    ASSUME NEW x, NEW y, Fit(x), Fit(y)
    PROVE  Code(<<x, y>>) /\ <<x, y>> # << >>
<1> DEFINE S == {x, y}
           s == <<x, y>>
<1>1. s \in Seq(S) /\ s # << >>
  OBVIOUS
<1>2. \A z \in S : Fit(z)
  OBVIOUS
<1> HIDE DEF S, s
<1>3. Code(s)
  BY <1>1, <1>2, CodeOver
<1> QED  BY <1>1, <1>3 DEF s

LEMMA CodeConcat ==
    ASSUME NEW s, NEW t, Code(s), Code(t)
    PROVE  Code(s \o t) /\ (t # << >> => s \o t # << >>)
<1>1. PICK S : s \in Seq(S) /\ \A x \in S : Fit(x)
  BY DEF Code
<1>2. PICK T : t \in Seq(T) /\ \A x \in T : Fit(x)
  BY DEF Code
<1>3. s \in Seq(S \cup T) /\ t \in Seq(S \cup T)
  BY <1>1, <1>2
<1>4. /\ s \o t \in Seq(S \cup T) /\ Len(s \o t) = Len(s) + Len(t)
      /\ Len(s) \in Nat /\ Len(t) \in Nat
  BY <1>3, ConcatProperties, LenProperties
<1>5. t # << >> => s \o t # << >>
  BY <1>3, <1>4, EmptySeq
<1>6. \A x \in S \cup T : Fit(x)
  BY <1>1, <1>2
<1> QED  BY <1>4, <1>5, <1>6 DEF Code

-----------------------------------------------------------------------------
(* gen_large_int: an int is built from two fields, a long from four.       *)
LEMMA LargeInt32Fits ==
    ASSUME NEW n \in -Half .. Half - 1, NEW r
    PROVE  Code(LargeInt32(n, r))
<1> DEFINE x == <<"lu12i.w", r, n \div Low>>
           y == <<"ori", r, r, Unsigned(n, Low)>>
<1>1. n \div Low \in -(High \div 2) .. High \div 2 - 1
  BY Widths, Divided
<1>2. Unsigned(n, Low) \in 0 .. Low - 1
  BY Widths DEF Unsigned
<1>3. Fit(x)
  BY <1>1 DEF Fit
<1>4. Fit(y)
  BY <1>2 DEF Fit
<1> QED  BY <1>3, <1>4, CodeTwo DEF LargeInt32

LEMMA LargeInt64Fits ==
    ASSUME NEW n \in Int, NEW r
    PROVE  Code(LargeInt64(n, r))
<1> DEFINE x == <<"lu32i.d", r, Signed(n \div Word, High)>>
           y == <<"lu52i.d", r, r, Signed(n \div Word, Word) \div High>>
<1>1. n \div Word \in Int
  BY Widths
<1>2. Signed(n, Word) \in -Half .. Half - 1
  BY Widths, SignedRange
<1>3. Signed(n \div Word, High) \in -(High \div 2) .. High \div 2 - 1
  BY <1>1, Widths, SignedRange
<1>4. Signed(n \div Word, Word) \in -Half .. Half - 1
  BY <1>1, Widths, SignedRange
<1>5. Signed(n \div Word, Word) \div High \in -(Low \div 2) .. Low \div 2 - 1
  BY <1>4, Widths, Divided
<1>6. Fit(x)
  BY <1>3 DEF Fit
<1>7. Fit(y)
  BY <1>5 DEF Fit
<1>8. Code(<<x, y>>)
  BY <1>6, <1>7, CodeTwo
<1> QED  BY <1>2, <1>8, LargeInt32Fits, CodeConcat DEF LargeInt64

(* An offset of 0 always fits; so do those of the saved registers.         *)
LEMMA SmallFits == FitsImm12(0) /\ FitsImm12(-8) /\ FitsImm12(-16)
BY Widths DEF FitsImm12, Base

Access == {"ld.b", "ld.w", "ld.d", "st.b", "st.w", "st.d", "fst.s"}

LEMMA AccessFits ==
    ASSUME NEW op \in Access, NEW r, NEW base, NEW n, FitsImm12(n)
    PROVE  Fit(<<op, r, base, n>>)
BY DEF Access, FitsImm12, Fit

LEMMA SlotAccessFits ==
    ASSUME NEW op \in Access, NEW r, NEW d, NEW addr, slot[d] \in Int
    PROVE  Code(SlotAccess(op, r, d, addr)) /\ SlotAccess(op, r, d, addr) # << >>
<1> DEFINE long == LargeInt64(slot[d], addr)
           x == <<"add.d", addr, "fp", addr>>
           y == <<op, r, addr, 0>>
<1>1. CASE FitsImm12(slot[d])
  <2>1. Fit(<<op, r, "fp", slot[d]>>)
    BY <1>1, AccessFits
  <2> QED  BY <1>1, <2>1, CodeOne DEF SlotAccess
<1>2. CASE ~FitsImm12(slot[d])
  <2>1. Code(long)
    BY LargeInt64Fits
  <2>2. Fit(x)
    BY DEF Fit
  <2>3. Fit(y)
    BY SmallFits, AccessFits
  <2>4. Code(<<x, y>>) /\ <<x, y>> # << >>
    BY <2>2, <2>3, CodeTwo
  <2>5. Code(long \o <<x, y>>) /\ long \o <<x, y>> # << >>
    BY <2>1, <2>4, CodeConcat
  <2>6. SlotAccess(op, r, d, addr) = long \o <<x, y>>
    BY <1>2 DEF SlotAccess
  <2> QED  BY <2>5, <2>6
<1> QED  BY <1>1, <1>2

-----------------------------------------------------------------------------
(* The loads and stores of a slot have the width of its type.              *)
LEMMA LoadStoreOps ==
    ASSUME NEW ty \in {"i1", "int", "ptr"}
    PROVE  LoadOp(ty) \in Access /\ StoreOp(ty) \in Access
BY DEF LoadOp, StoreOp, Access

LEMMA LoadFits ==
    ASSUME FrameType, NEW o, NEW ty \in {"int", "ptr"}, IsOperand(fn, o, ty), NEW r
    PROVE  Code(LoadToGreg(o, r))
<1>1. CASE o[1] = "const"
  <2>1. o[2] \in -Half .. Half - 1
    BY <1>1 DEF IsOperand
  <2>2. CASE FitsImm12(o[2])
    <3>1. Fit(<<"addi.w", r, "zero", o[2]>>)
      BY <2>2 DEF Fit, FitsImm12
    <3>2. LoadToGreg(o, r) = <<<<"addi.w", r, "zero", o[2]>>>>
      BY <1>1, <2>2 DEF LoadToGreg
    <3> QED  BY <3>1, <3>2, CodeOne
  <2>3. CASE ~FitsImm12(o[2])
    BY <1>1, <2>1, <2>3, LargeInt32Fits DEF LoadToGreg
  <2> QED  BY <2>2, <2>3
<1>2. CASE o[1] = "global"
  <2>1. Fit(<<"la.local", r, o[2]>>)
    BY DEF Fit
  <2>2. LoadToGreg(o, r) = <<<<"la.local", r, o[2]>>>>
    BY <1>2 DEF LoadToGreg
  <2> QED  BY <2>1, <2>2, CodeOne
<1>3. CASE o[1] = "def"
  <2>1. o[2] \in Defs /\ TypeOf(o[2]) \in {"i1", "int", "ptr"}
    BY <1>3 DEF IsOperand, Defs, Args, TypeOf
  <2>2. slot[o[2]] \in Int
    BY <2>1 DEF FrameType
  <2>3. Code(SlotAccess(LoadOp(TypeOf(o[2])), r, o[2], r))
    BY <2>1, <2>2, LoadStoreOps, SlotAccessFits
  <2> QED  BY <1>3, <2>3 DEF LoadToGreg, LoadFromStackToGreg
<1> QED  BY <1>1, <1>2, <1>3 DEF IsOperand

LEMMA StoreFits ==
    ASSUME FrameType, NEW d \in Defs, NEW r
    PROVE  /\ Code(StoreFromFreg(d, r)) /\ StoreFromFreg(d, r) # << >>
           /\ TypeOf(d) \in {"i1", "int", "ptr"} =>
                 Code(StoreFromGreg(d, r)) /\ StoreFromGreg(d, r) # << >>
<1>1. slot[d] \in Int
  BY DEF FrameType
<1>2. "fst.s" \in Access
  BY DEF Access
<1> QED  BY <1>1, <1>2, LoadStoreOps, SlotAccessFits DEF StoreFromFreg, StoreFromGreg

-----------------------------------------------------------------------------
(* The instructions emitted, and which definitions they are for.           *)
Emitted(o) == \E S : o \in Seq(S) /\ \A x \in S : Fit(x.ins)
CodeFrom(o, i) == \E k \in DOMAIN o : o[k].from = i
OnlyBefore(o, n) == \A k \in DOMAIN o : o[k].from \in 0 .. n - 1

Tagged(from, code) == [i \in DOMAIN code |-> [from |-> from, ins |-> code[i]]]
Appends(p, o, from, code) == p = o \o Tagged(from, code)

(* Code is added behind what there is, for one definition.                 *)
LEMMA Appended ==
    ASSUME NEW o, Emitted(o), NEW code, Code(code), NEW from \in Nat,
           NEW p, Appends(p, o, from, code)
    PROVE  /\ Emitted(p)
           /\ \A i : CodeFrom(p, i) <=> CodeFrom(o, i) \/ (i = from /\ code # << >>)
           /\ \A n \in Nat : OnlyBefore(o, n) /\ from < n => OnlyBefore(p, n)
<1>1. PICK S : o \in Seq(S) /\ \A x \in S : Fit(x.ins)
  BY DEF Emitted
<1>2. PICK T : code \in Seq(T) /\ \A x \in T : Fit(x)
  BY DEF Code
<1> DEFINE R == {[from |-> from, ins |-> x] : x \in T}
           U == S \cup R
           t == Tagged(from, code)
<1>3. DOMAIN code = 1 .. Len(code) /\ Len(code) \in Nat /\ \A i \in 1 .. Len(code) : code[i] \in T
  BY <1>2, LenProperties, ElementOfSeq
<1>4. /\ t \in Seq(R) /\ Len(t) = Len(code)
      /\ \A i \in 1 .. Len(code) : t[i].from = from
  <2>1. t \in [1 .. Len(code) -> R]
    BY <1>3 DEF Tagged
  <2>2. \A i \in 1 .. Len(code) : t[i].from = from
    BY <1>3 DEF Tagged
  <2> HIDE DEF t, R
  <2> QED  BY <1>3, <2>1, <2>2
<1>5. \A x \in U : Fit(x.ins)
  BY <1>1, <1>2
<1> HIDE DEF U, R
<1>6. o \in Seq(U) /\ t \in Seq(U)
  BY <1>1, <1>4 DEF U
<1>7. p = o \o t
  BY DEF Appends
<1> HIDE DEF t
<1>8. /\ p \in Seq(U) /\ Len(p) = Len(o) + Len(code) /\ Len(o) \in Nat
      /\ DOMAIN p = 1 .. Len(o) + Len(code) /\ DOMAIN o = 1 .. Len(o)
      /\ \A i \in 1 .. Len(o) + Len(code) : p[i] = IF i <= Len(o) THEN o[i] ELSE t[i - Len(o)]
  <2>1. /\ p \in Seq(U) /\ Len(p) = Len(o) + Len(t)
        /\ \A i \in 1 .. Len(o) + Len(t) : p[i] = IF i <= Len(o) THEN o[i] ELSE t[i - Len(o)]
    BY <1>6, <1>7, ConcatProperties
  <2>2. Len(o) \in Nat /\ DOMAIN o = 1 .. Len(o) /\ DOMAIN p = 1 .. Len(p)
    BY <1>6, <2>1, LenProperties
  <2> QED  BY <1>4, <2>1, <2>2
<1>9. Emitted(p)
  BY <1>5, <1>8 DEF Emitted
<1> DEFINE a == Len(o)
           b == Len(code)
<1>10. a \in Nat /\ b \in Nat
  BY <1>3, <1>8
<1>11. /\ DOMAIN o = 1 .. a /\ DOMAIN p = 1 .. a + b
       /\ \A k \in 1 .. a : p[k] = o[k] /\ k \in 1 .. a + b
       /\ \A k \in 1 .. a + b : k > a => p[k].from = from
       /\ b > 0 => p[a + b].from = from /\ a + b \in 1 .. a + b
  <2>1. /\ \A k \in 1 .. a + b : p[k] = IF k <= a THEN o[k] ELSE t[k - a]
        /\ DOMAIN o = 1 .. a /\ DOMAIN p = 1 .. a + b
        /\ \A k \in 1 .. b : t[k].from = from
    BY <1>4, <1>8
  <2> HIDE DEF a, b
  <2>2. \A k \in 1 .. a + b : k > a => k - a \in 1 .. b
    BY <1>10
  <2>3. \A k \in 1 .. a : k \in 1 .. a + b /\ k <= a
    BY <1>10
  <2>4. b > 0 => a + b \in 1 .. a + b /\ a + b > a
    BY <1>10
  <2>5. \A k \in 1 .. a : p[k] = o[k]
    BY <2>1, <2>3
  <2>6. ASSUME NEW k \in 1 .. a + b, k > a PROVE p[k].from = from
    <3>1. k - a \in 1 .. b /\ ~(k <= a)
      BY <1>10, <2>2, <2>6
    <3>2. p[k] = t[k - a]
      BY <2>1, <3>1
    <3> QED  BY <2>1, <3>1, <3>2
  <2> QED  BY <2>1, <2>3, <2>4, <2>5, <2>6
<1>12. code # << >> <=> b > 0
  BY <1>2, <1>3, EmptySeq
<1> HIDE DEF a, b
<1>13. ASSUME NEW i
       PROVE  CodeFrom(p, i) <=> CodeFrom(o, i) \/ (i = from /\ code # << >>)
  <2>1. ASSUME CodeFrom(p, i) PROVE CodeFrom(o, i) \/ (i = from /\ code # << >>)
    <3>1. PICK k \in 1 .. a + b : p[k].from = i
      BY <1>11, <2>1 DEF CodeFrom
    <3>2. CASE k <= a
      <4>1. k \in 1 .. a
        BY <1>10, <3>1, <3>2
      <4> QED  BY <1>11, <3>1, <4>1 DEF CodeFrom
    <3>3. CASE k > a
      <4>1. b > 0
        BY <1>10, <3>1, <3>3
      <4> QED  BY <1>11, <1>12, <3>1, <3>3, <4>1
    <3> QED  BY <1>10, <3>1, <3>2, <3>3
  <2>2. ASSUME CodeFrom(o, i) PROVE CodeFrom(p, i)
    <3>1. PICK k \in 1 .. a : o[k].from = i
      BY <1>11, <2>2 DEF CodeFrom
    <3>2. k \in DOMAIN p /\ p[k].from = i
      BY <1>11, <3>1
    <3> QED  BY <3>2 DEF CodeFrom
  <2>3. ASSUME i = from, code # << >> PROVE CodeFrom(p, i)
    <3>1. a + b \in DOMAIN p /\ p[a + b].from = i
      BY <1>11, <1>12, <2>3
    <3> QED  BY <3>1 DEF CodeFrom
  <2> QED  BY <2>1, <2>2, <2>3
<1>14. ASSUME NEW n \in Nat, OnlyBefore(o, n), from < n PROVE OnlyBefore(p, n)
  <2>1. ASSUME NEW k \in 1 .. a + b PROVE p[k].from \in 0 .. n - 1
    <3>1. CASE k <= a
      <4>1. k \in 1 .. a
        BY <1>10, <3>1
      <4>2. o[k].from \in 0 .. n - 1 /\ p[k] = o[k]
        BY <1>11, <1>14, <4>1 DEF OnlyBefore
      <4> QED  BY <4>2
    <3>2. CASE k > a
      <4>1. p[k].from = from
        BY <1>11, <3>2
      <4>2. from \in 0 .. n - 1
        BY <1>14
      <4> QED  BY <4>1, <4>2
    <3>3. k <= a \/ k > a
      BY <1>10
    <3> QED  BY <3>1, <3>2, <3>3
  <2> QED  BY <1>11, <2>1 DEF OnlyBefore
<1> QED  BY <1>9, <1>13, <1>14

-----------------------------------------------------------------------------
(* The arguments of a class among the first n, and the two counters of     *)
(* gen_prologue.                                                           *)
Those(float, n) == {d \in 1 .. n : IsFloatArg(d) = float}

Counted ==
    /\ gargs \in 0 .. 8 /\ fargs \in 0 .. 8 /\ gargs + fargs <= Args
    /\ Cardinality(Those(FALSE, gargs + fargs)) = gargs
    /\ Cardinality(Those(TRUE, gargs + fargs)) = fargs

(* An instruction generation has gone through.                             *)
Behind(i) == ~Todo(i) /\ (CodeFrom(output, i) <=> fn.code[i].op # "srem")

(* Everything emitted fits; until the arguments are stored it belongs to   *)
(* the prologue, and then to the instructions before the current one.      *)
GenInv ==
    /\ Emitted(output)
    /\ phase \in {"allocate", "save", "args", "gen", "run"}
    /\ phase \in {"allocate", "save", "args"} => at = 0 /\ Counted /\ OnlyBefore(output, 1)
    /\ phase = "gen" =>
          /\ Counted /\ gargs + fargs = Args
          /\ at \in Nat /\ at > 0 /\ OnlyBefore(output, at)
          /\ \A i \in 1 .. at - 1 : Behind(i)
    /\ phase = "run" => StopsAtFirstTodo

CodeGenInv == FrameInv /\ GenInv

-----------------------------------------------------------------------------
(* One argument more is one more of its class.                             *)
LEMMA OneMore ==
    ASSUME NEW n \in Nat, NEW float \in BOOLEAN
    PROVE  /\ IsFiniteSet(Those(float, n)) /\ Cardinality(Those(float, n)) \in Nat
           /\ IsFloatArg(n + 1) = float =>
                 Cardinality(Those(float, n + 1)) = Cardinality(Those(float, n)) + 1
           /\ IsFloatArg(n + 1) # float =>
                 Cardinality(Those(float, n + 1)) = Cardinality(Those(float, n))
<1>1. IsFiniteSet(Those(float, n))
  <2>1. IsFiniteSet(1 .. n)
    BY FS_Interval
  <2>2. Those(float, n) \in SUBSET (1 .. n)
    BY DEF Those
  <2> QED  BY <2>1, <2>2, FS_Subset
<1>2. Cardinality(Those(float, n)) \in Nat
  BY <1>1, FS_CardinalityType
<1>3. ASSUME IsFloatArg(n + 1) = float
      PROVE  Cardinality(Those(float, n + 1)) = Cardinality(Those(float, n)) + 1
  <2>1. Those(float, n + 1) = Those(float, n) \cup {n + 1}
    BY <1>3 DEF Those
  <2>2. n + 1 \notin Those(float, n)
    BY DEF Those
  <2> QED  BY <1>1, <2>1, <2>2, FS_AddElement
<1>4. ASSUME IsFloatArg(n + 1) # float
      PROVE  Cardinality(Those(float, n + 1)) = Cardinality(Those(float, n))
  <2>1. Those(float, n + 1) = Those(float, n)
    BY <1>4 DEF Those
  <2> QED  BY <2>1
<1> QED  BY <1>1, <1>2, <1>3, <1>4

(* A larger prefix has no fewer of a class.                                *)
LEMMA NoFewer ==
    ASSUME NEW n \in Nat, NEW m \in Nat, n <= m, NEW float \in BOOLEAN
    PROVE  Cardinality(Those(float, n)) <= Cardinality(Those(float, m))
<1>1. Those(float, n) \in SUBSET Those(float, m)
  BY DEF Those
<1> QED  BY <1>1, OneMore, FS_Subset

(* Numbering on from the arguments to the instructions.                    *)
LEMMA Numbered ==
    ASSUME NEW a \in Nat, NEW b \in Nat
    PROVE  /\ \A d \in 1 .. a : d \in 1 .. a + b /\ d <= a
           /\ \A i \in 1 .. b : a + i \in 1 .. a + b /\ ~(a + i <= a) /\ (a + i) - a = i
OBVIOUS

LEMMA ArgTypes ==
    ASSUME FrameType, NEW d \in 1 .. Args
    PROVE  d \in Defs /\ TypeOf(d) \in {"int", "float", "ptr"}
<1>1. Len(fn.args) \in Nat /\ Len(fn.code) \in Nat /\ d \in 1 .. Len(fn.args)
  BY FunctionTypes DEF FrameType, Args
<1>2. TypeOf(d) = fn.args[d]
  BY <1>1 DEF TypeOf, TypeIn
<1>3. fn.args[d] \in {"int", "float", "ptr"}
  BY <1>1, FunctionTypes DEF FrameType
<1>4. d \in 1 .. Len(fn.args) + Len(fn.code)
  BY <1>1, Numbered
<1> QED  BY <1>2, <1>3, <1>4 DEF Defs, Args

(* Before the first return nothing lies behind the end of the code.        *)
LEMMA InRange ==
    ASSUME FrameType, at \in Nat, at > 0, \A i \in 1 .. at - 1 : Behind(i)
    PROVE  at \in 1 .. Len(fn.code) /\ This \in Defs /\ (TypeOf(This) = Instr.ty)
<1>1. fn \in Functions /\ Len(fn.args) \in Nat /\ Len(fn.code) \in Nat
  BY FunctionTypes DEF FrameType
<1>2. PICK r \in 1 .. Len(fn.code) : fn.code[r].op = "ret"
  BY <1>1, CodeAssumption
<1>3. Todo(r)
  BY <1>2 DEF Todo, IsTodo, Implemented, Arithmetic
<1>4. r \notin 1 .. at - 1
  BY <1>3 DEF Behind
<1>5. at \in 1 .. Len(fn.code)
  BY <1>1, <1>4
<1>6. /\ Len(fn.args) + at \in 1 .. Len(fn.args) + Len(fn.code)
      /\ ~(Len(fn.args) + at <= Len(fn.args)) /\ (Len(fn.args) + at) - Len(fn.args) = at
  BY <1>1, <1>5, Numbered
<1>7. This \in Defs
  BY <1>6 DEF This, Defs, Args
<1>8. TypeOf(This) = Instr.ty
  BY <1>6 DEF This, Args, TypeOf, TypeIn, Instr
<1> QED  BY <1>5, <1>7, <1>8

(* The function, and what is counted in it, stays the same.                *)
LEMMA SameFunction ==
    ASSUME fn' = fn
    PROVE  /\ Args' = Args
           /\ \A i : Todo(i)' = Todo(i) /\ IsFloatArg(i)' = IsFloatArg(i)
           /\ \A n : \A float \in BOOLEAN : Those(float, n)' = Those(float, n)
           /\ \A float \in BOOLEAN : ClassSize(float)' = ClassSize(float)
<1>1. /\ Args' = Args
      /\ \A i : Todo(i)' = Todo(i) /\ IsFloatArg(i)' = IsFloatArg(i)
  BY DEF Args, Todo, IsFloatArg, TypeOf, TypeIn
<1>2. \A n : \A float \in BOOLEAN : Those(float, n)' = Those(float, n)
  BY <1>1 DEF Those
<1>3. \A float \in BOOLEAN : ClassSize(float)' = ClassSize(float)
  BY DEF ClassSize, Args, IsFloatArg, TypeOf, TypeIn
<1> QED  BY <1>1, <1>2, <1>3

-----------------------------------------------------------------------------
LEMMA GenInvInit == Init => GenInv
<1> SUFFICES ASSUME Init PROVE GenInv
  OBVIOUS
<1>1. /\ fn \in Functions /\ phase = "allocate" /\ output = << >>
      /\ gargs = 0 /\ fargs = 0 /\ at = 0
  BY DEF Init, AllocateInit
<1>2. Emitted(output)
  <2> DEFINE S == {}
  <2>1. output \in Seq(S)
    BY <1>1
  <2>2. \A x \in S : Fit(x.ins)
    OBVIOUS
  <2> HIDE DEF S
  <2> QED  BY <2>1, <2>2 DEF Emitted
<1>3. OnlyBefore(output, 1)
  BY <1>1 DEF OnlyBefore
<1>4. Counted
  <2>1. \A float \in BOOLEAN : Those(float, 0) = {}
    BY DEF Those
  <2>2. Cardinality({}) = 0
    BY FS_EmptySet
  <2>3. Args \in Nat
    BY <1>1, FunctionTypes DEF Args
  <2>4. gargs + fargs = 0
    BY <1>1
  <2>5. /\ Cardinality(Those(FALSE, gargs + fargs)) = 0
        /\ Cardinality(Those(TRUE, gargs + fargs)) = 0
    BY <2>1, <2>2, <2>4, Zenon
  <2>6. gargs \in 0 .. 8 /\ fargs \in 0 .. 8 /\ gargs + fargs <= Args
    BY <1>1, <2>3
  <2>7. /\ Cardinality(Those(FALSE, gargs + fargs)) = gargs
        /\ Cardinality(Those(TRUE, gargs + fargs)) = fargs
    BY <1>1, <2>5, Zenon
  <2> QED  BY <2>6, <2>7 DEF Counted
<1> QED  BY <1>1, <1>2, <1>3, <1>4 DEF GenInv

(* Counted is kept with the counters.                                      *)
LEMMA CountedSame ==
    ASSUME Counted, UNCHANGED <<fn, gargs, fargs>>
    PROVE  Counted'
<1>1. /\ \A float \in BOOLEAN : Those(float, gargs + fargs)' = Those(float, gargs + fargs)
      /\ Args' = Args
  BY SameFunction DEF Those
<1> QED  BY <1>1 DEF Counted

(* Steps that emit nothing and leave the phase, or end the allocation.     *)
LEMMA GenSame ==
    ASSUME GenInv, UNCHANGED <<fn, output, gargs, fargs, at, fault>>,
           phase' = phase \/ (phase = "allocate" /\ phase' = "save")
    PROVE  GenInv'
<1>1. Args' = Args /\ (Counted => Counted')
  BY SameFunction, CountedSame
<1>2. \A i : Behind(i)' = Behind(i)
  BY SameFunction DEF Behind, CodeFrom
<1>3. Emitted(output)' = Emitted(output) /\ \A n : OnlyBefore(output, n)' = OnlyBefore(output, n)
  BY DEF Emitted, OnlyBefore
<1>4. phase = "run" => StopsAtFirstTodo'
  <2>1. \A float \in BOOLEAN : ClassSize(float)' = ClassSize(float)
    BY SameFunction
  <2>2. \A i : Todo(i)' = Todo(i) /\ HasCode(i)' = HasCode(i)
    BY SameFunction DEF HasCode
  <2>3. phase = "run" => phase' = "run" /\ StopsAtFirstTodo
    BY DEF GenInv
  <2> QED  BY <2>1, <2>2, <2>3 DEF StopsAtFirstTodo
<1> QED  BY <1>1, <1>2, <1>3, <1>4 DEF GenInv, OnlyBefore, Emitted

-----------------------------------------------------------------------------
(* The saved registers of the prologue, with the frame of either size.     *)
LEMMA SavedFits ==
    ASSUME frameSize \in Int
    PROVE  /\ FitsImm12(-AsInt(frameSize)) =>
                Code(<<<<"st.d", "ra", "sp", -8>>, <<"st.d", "fp", "sp", -16>>,
                       <<"addi.d", "fp", "sp", 0>>, <<"addi.d", "sp", "sp", -AsInt(frameSize)>>>>)
           /\ Code(LargeInt64(frameSize, "t0")
                   \o <<<<"st.d", "ra", "sp", -8>>, <<"st.d", "fp", "sp", -16>>,
                        <<"sub.d", "sp", "sp", "t0">>, <<"add.d", "fp", "sp", "t0">>>>)
<1> DEFINE x == <<"st.d", "ra", "sp", -8>>
           y == <<"st.d", "fp", "sp", -16>>
           z == <<"addi.d", "fp", "sp", 0>>
           w == <<"addi.d", "sp", "sp", -AsInt(frameSize)>>
           u == <<"sub.d", "sp", "sp", "t0">>
           v == <<"add.d", "fp", "sp", "t0">>
<1>1. Fit(x) /\ Fit(y)
  BY SmallFits, AccessFits DEF Access
<1>2. Fit(z)
  BY SmallFits DEF Fit, FitsImm12
<1>3. FitsImm12(-AsInt(frameSize)) => Fit(w)
  BY DEF Fit, FitsImm12
<1>4. Fit(u) /\ Fit(v)
  BY DEF Fit
<1>5. Code(LargeInt64(frameSize, "t0"))
  BY LargeInt64Fits
<1> HIDE DEF x, y, z, w, u, v
<1>6. \A a, b, c, d : Fit(a) /\ Fit(b) /\ Fit(c) /\ Fit(d) => Code(<<a, b, c, d>>)
  <2> SUFFICES ASSUME NEW a, NEW b, NEW c, NEW d, Fit(a), Fit(b), Fit(c), Fit(d)
               PROVE  Code(<<a, b, c, d>>)
    OBVIOUS
  <2> DEFINE S == {a, b, c, d}
             s == <<a, b, c, d>>
  <2>1. s \in Seq(S) /\ \A e \in S : Fit(e)
    OBVIOUS
  <2> HIDE DEF S, s
  <2>2. Code(s)
    BY <2>1, CodeOver
  <2> QED  BY <2>2 DEF s
<1>7. Code(<<x, y, u, v>>) /\ (FitsImm12(-AsInt(frameSize)) => Code(<<x, y, z, w>>))
  BY <1>1, <1>2, <1>3, <1>4, <1>6
<1>8. Code(LargeInt64(frameSize, "t0") \o <<x, y, u, v>>)
  BY <1>5, <1>7, CodeConcat
<1> QED  BY <1>7, <1>8 DEF x, y, z, w, u, v

LEMMA KeepsSave == CodeGenInv /\ SaveRegisters => GenInv'
<1> SUFFICES ASSUME FrameType, GenInv, SaveRegisters PROVE GenInv'
  BY DEF CodeGenInv, FrameInv
<1>1. /\ phase = "save" /\ phase' = "args"
      /\ UNCHANGED <<fn, gargs, fargs, at>>
  BY DEF SaveRegisters
<1>2. PICK code : Code(code) /\ Appends(output', output, 0, code)
  BY SavedFits DEF SaveRegisters, FrameType, Emit, Tagged, Appends
<1>3. Emitted(output) /\ at = 0 /\ Counted /\ OnlyBefore(output, 1)
  BY <1>1 DEF GenInv
<1>4. Counted' /\ at' = 0
  BY <1>1, <1>3, CountedSame
<1>5. Emitted(output') /\ OnlyBefore(output', 1)
  BY <1>2, <1>3, Appended
<1> QED  BY <1>1, <1>4, <1>5 DEF GenInv, Emitted, OnlyBefore

-----------------------------------------------------------------------------
(* A ninth argument of a class: generation stops.                          *)
LEMMA TooMany ==
    ASSUME FrameType, Counted, gargs + fargs < Args, NEW float \in BOOLEAN,
           IsFloatArg(gargs + fargs + 1) = float,
           (IF float THEN fargs ELSE gargs) > 7
    PROVE  ClassSize(float) > 8
<1> DEFINE n == gargs + fargs
<1>1. /\ n \in Nat /\ n + 1 \in Nat /\ n + 1 <= Args /\ Args \in Nat
      /\ gargs \in 0 .. 8 /\ fargs \in 0 .. 8
  <2>1. Args \in Nat
    BY FunctionTypes DEF FrameType, Args
  <2> QED  BY <2>1 DEF Counted
<1>2. Cardinality(Those(float, n)) = 8
  <2>1. /\ Cardinality(Those(FALSE, n)) = gargs
        /\ Cardinality(Those(TRUE, n)) = fargs
    BY DEF Counted
  <2>2. CASE float = TRUE
    <3>1. fargs > 7
      BY <2>2
    <3>2. fargs = 8
      BY <1>1, <3>1
    <3> QED  BY <2>1, <2>2, <3>2
  <2>3. CASE float = FALSE
    <3>1. gargs > 7
      BY <2>3
    <3>2. gargs = 8
      BY <1>1, <3>1
    <3> QED  BY <2>1, <2>3, <3>2
  <2> QED  BY <2>2, <2>3
<1> HIDE DEF n
<1>3. IsFloatArg(n + 1) = float
  BY DEF n
<1>4. Cardinality(Those(float, n + 1)) = 8 + 1
  BY <1>1, <1>2, <1>3, OneMore
<1>5. Cardinality(Those(float, n + 1)) <= Cardinality(Those(float, Args))
  BY <1>1, NoFewer
<1>6. ClassSize(float) = Cardinality(Those(float, Args))
  BY DEF ClassSize, Those
<1>7. Cardinality(Those(float, Args)) \in Nat
  BY <1>1, OneMore
<1> QED  BY <1>4, <1>5, <1>6, <1>7

(* An argument stored is counted in its class.                             *)
LEMMA CountsArg ==
    ASSUME FrameType, Counted, gargs + fargs < Args, fn' = fn,
           NEW float \in BOOLEAN, IsFloatArg(gargs + fargs + 1) = float,
           float => fargs < 8 /\ fargs' = fargs + 1 /\ gargs' = gargs,
           ~float => gargs < 8 /\ gargs' = gargs + 1 /\ fargs' = fargs
    PROVE  Counted'
<1> DEFINE n == gargs + fargs
<1>1. /\ n \in Nat /\ n + 1 <= Args /\ Args \in Nat
      /\ gargs \in 0 .. 8 /\ fargs \in 0 .. 8
  <2>1. Args \in Nat
    BY FunctionTypes DEF FrameType, Args
  <2> QED  BY <2>1 DEF Counted
<1>2. /\ gargs' \in 0 .. 8 /\ fargs' \in 0 .. 8 /\ gargs' + fargs' = n + 1
  <2>1. CASE float = TRUE
    BY <1>1, <2>1
  <2>2. CASE float = FALSE
    BY <1>1, <2>2
  <2> QED  BY <2>1, <2>2
<1>3. /\ Cardinality(Those(FALSE, n)) = gargs
      /\ Cardinality(Those(TRUE, n)) = fargs
  BY DEF Counted
<1>4. IsFloatArg(n + 1) = float
  OBVIOUS
<1> HIDE DEF n
<1>5. /\ Cardinality(Those(FALSE, n + 1)) = gargs'
      /\ Cardinality(Those(TRUE, n + 1)) = fargs'
  <2>1. CASE float = TRUE
    <3>1. IsFloatArg(n + 1) = TRUE /\ IsFloatArg(n + 1) # FALSE
      BY <1>4, <2>1
    <3>2. /\ Cardinality(Those(TRUE, n + 1)) = Cardinality(Those(TRUE, n)) + 1
          /\ Cardinality(Those(FALSE, n + 1)) = Cardinality(Those(FALSE, n))
      BY <1>1, <3>1, OneMore
    <3> QED  BY <1>3, <2>1, <3>2
  <2>2. CASE float = FALSE
    <3>1. IsFloatArg(n + 1) = FALSE /\ IsFloatArg(n + 1) # TRUE
      BY <1>4, <2>2
    <3>2. /\ Cardinality(Those(FALSE, n + 1)) = Cardinality(Those(FALSE, n)) + 1
          /\ Cardinality(Those(TRUE, n + 1)) = Cardinality(Those(TRUE, n))
      BY <1>1, <3>1, OneMore
    <3> QED  BY <1>3, <2>2, <3>2
  <2> QED  BY <2>1, <2>2
<1>6. Args' = Args /\ \A m : \A f \in BOOLEAN : Those(f, m)' = Those(f, m)
  BY SameFunction
<1>7. /\ Those(FALSE, gargs + fargs)' = Those(FALSE, n + 1)
      /\ Those(TRUE, gargs + fargs)' = Those(TRUE, n + 1)
  BY <1>2, <1>6 DEF Those
<1>8. gargs' + fargs' <= Args'
  BY <1>1, <1>2, <1>6
<1> QED  BY <1>2, <1>5, <1>7, <1>8 DEF Counted

LEMMA KeepsArg == CodeGenInv /\ StoreArg => GenInv'
<1> SUFFICES ASSUME FrameType, GenInv, StoreArg PROVE GenInv'
  BY DEF CodeGenInv, FrameInv
<1> DEFINE d == gargs + fargs + 1
           float == TypeOf(d) = "float"
           n == IF float THEN fargs ELSE gargs
<1>1. /\ phase = "args" /\ gargs + fargs < Args /\ fn' = fn /\ at' = at
  BY DEF StoreArg
<1>2. Emitted(output) /\ at = 0 /\ Counted /\ OnlyBefore(output, 1)
  BY <1>1 DEF GenInv
<1>3. d \in 1 .. Args /\ gargs \in 0 .. 8 /\ fargs \in 0 .. 8
  <2>1. Args \in Nat
    BY FunctionTypes DEF FrameType, Args
  <2> QED  BY <1>1, <1>2, <2>1 DEF Counted
<1>4. float \in BOOLEAN /\ IsFloatArg(d) = float
  BY DEF IsFloatArg
<1>5. CASE n > 7
  <2>1. phase' = "run" /\ fault' = "assert" /\ output' = output
    BY <1>5 DEF StoreArg, StopWith
  <2>2. ClassSize(float) > 8
    <3> HIDE DEF float
    <3> QED  BY <1>1, <1>2, <1>4, <1>5, TooMany
  <2>3. \A f \in BOOLEAN : ClassSize(f)' = ClassSize(f)
    BY <1>1, SameFunction
  <2>4. ClassSize(TRUE)' > 8 \/ ClassSize(FALSE)' > 8
    <3>1. CASE float = TRUE
      BY <2>2, <2>3, <3>1
    <3>2. CASE float = FALSE
      BY <2>2, <2>3, <3>2
    <3> QED  BY <1>4, <3>1, <3>2
  <2>5. StopsAtFirstTodo'
    BY <1>1, <1>2, <2>1, <2>4 DEF StopsAtFirstTodo
  <2> QED  BY <1>2, <2>1, <2>5 DEF GenInv, Emitted
<1>6. CASE ~(n > 7)
  <2>1. /\ phase' = phase
        /\ Emit(0, IF float THEN StoreFromFreg(d, FloatArgReg[n + 1])
                   ELSE StoreFromGreg(d, ArgReg[n + 1]))
        /\ fargs' = (IF float THEN fargs + 1 ELSE fargs)
        /\ gargs' = (IF float THEN gargs ELSE gargs + 1)
    BY <1>6 DEF StoreArg
  <2>2. /\ d \in Defs /\ (~float => TypeOf(d) \in {"i1", "int", "ptr"})
    BY <1>3, ArgTypes
  <2>3. PICK code : Code(code) /\ Appends(output', output, 0, code)
    <3>1. CASE float
      BY <2>1, <2>2, <3>1, StoreFits DEF Emit, Appends, Tagged
    <3>2. CASE ~float
      BY <2>1, <2>2, <3>2, StoreFits DEF Emit, Appends, Tagged
    <3> QED  BY <3>1, <3>2
  <2>4. Emitted(output') /\ OnlyBefore(output', 1)
    BY <1>2, <2>3, Appended
  <2>5. /\ float => fargs < 8 /\ fargs' = fargs + 1 /\ gargs' = gargs
        /\ ~float => gargs < 8 /\ gargs' = gargs + 1 /\ fargs' = fargs
    <3> HIDE DEF float
    <3> QED  BY <1>3, <1>6, <2>1
  <2>6. Counted'
    <3> HIDE DEF float
    <3> QED  BY <1>1, <1>2, <1>4, <2>5, CountsArg
  <2> QED  BY <1>1, <1>2, <2>1, <2>4, <2>6 DEF GenInv, Emitted, OnlyBefore
<1> QED  BY <1>5, <1>6

LEMMA KeepsArgsStored == CodeGenInv /\ ArgsStored => GenInv'
<1> SUFFICES ASSUME GenInv, ArgsStored PROVE GenInv'
  BY DEF CodeGenInv
<1>1. /\ phase = "args" /\ phase' = "gen" /\ at' = 1 /\ gargs + fargs = Args
      /\ UNCHANGED <<fn, output, gargs, fargs>>
  BY DEF ArgsStored
<1>2. Emitted(output) /\ Counted /\ OnlyBefore(output, 1)
  BY <1>1 DEF GenInv
<1>3. Counted' /\ Args' = Args
  BY <1>1, <1>2, CountedSame, SameFunction
<1>4. Emitted(output)' /\ OnlyBefore(output, at)'
  BY <1>1, <1>2 DEF Emitted, OnlyBefore
<1>5. \A i \in 1 .. at' - 1 : Behind(i)'
  <2>1. 1 .. at' - 1 = {}
    BY <1>1
  <2> QED  BY <2>1
<1> QED  BY <1>1, <1>3, <1>4, <1>5 DEF GenInv

-----------------------------------------------------------------------------
(* An instruction translated lies behind, and so do those before it.       *)
LEMMA KeepsTranslated ==
    ASSUME GenInv, phase = "gen", ~Todo(at),
           NEW code, Code(code), code # << >> <=> Instr.op # "srem", Translated(code)
    PROVE  GenInv'
<1>1. /\ Appends(output', output, at, code)
      /\ at' = at + 1 /\ UNCHANGED <<fn, phase, gargs, fargs>>
  BY DEF Translated, Emit, Appends, Tagged, frameVars
<1>2. /\ Emitted(output) /\ Counted /\ gargs + fargs = Args
      /\ at \in Nat /\ at > 0 /\ OnlyBefore(output, at)
      /\ \A i \in 1 .. at - 1 : Behind(i)
  BY DEF GenInv
<1>3. /\ Emitted(output')
      /\ \A i : CodeFrom(output', i) <=> CodeFrom(output, i) \/ (i = at /\ code # << >>)
      /\ OnlyBefore(output, at + 1) => OnlyBefore(output', at + 1)
  BY <1>1, <1>2, Appended
<1>4. OnlyBefore(output, at + 1) /\ ~CodeFrom(output, at)
  <2>1. \A x \in 0 .. at - 1 : x \in 0 .. (at + 1) - 1 /\ x # at
    BY <1>2
  <2> QED  BY <1>2, <2>1 DEF OnlyBefore, CodeFrom
<1>5. ASSUME NEW i \in 1 .. at PROVE Behind(i)'
  <2>1. Todo(i)' = Todo(i) /\ fn' = fn
    BY <1>1, SameFunction
  <2>2. ~Todo(i) /\ (CodeFrom(output', i) <=> fn.code[i].op # "srem")
    <3>1. CASE i = at
      BY <1>3, <1>4, <3>1 DEF Instr
    <3>2. CASE i # at
      <4>1. i \in 1 .. at - 1
        BY <1>2, <3>2
      <4> QED  BY <1>2, <1>3, <3>2, <4>1 DEF Behind
    <3> QED  BY <3>1, <3>2
  <2> QED  BY <2>1, <2>2 DEF Behind, CodeFrom
<1>6. \A i \in 1 .. at' - 1 : Behind(i)'
  <2>1. 1 .. at' - 1 = 1 .. at
    BY <1>1, <1>2
  <2> QED  BY <1>5, <2>1
<1>7. Counted' /\ Args' = Args
  BY <1>1, <1>2, CountedSame, SameFunction
<1>8. Emitted(output)' /\ OnlyBefore(output, at)'
  BY <1>1, <1>3, <1>4 DEF Emitted, OnlyBefore
<1>9. at' \in Nat /\ at' > 0
  BY <1>1, <1>2
<1> QED  BY <1>1, <1>2, <1>6, <1>7, <1>8, <1>9 DEF GenInv

(* The instruction at hand is one of the function's.                       *)
LEMMA Present ==
    ASSUME FrameType, GenInv, phase = "gen"
    PROVE  /\ at \in 1 .. Len(fn.code) /\ fn \in Functions /\ Instr = fn.code[at]
           /\ This \in Defs /\ TypeOf(This) = Instr.ty
<1>1. at \in Nat /\ at > 0 /\ \A i \in 1 .. at - 1 : Behind(i)
  BY DEF GenInv
<1> QED  BY <1>1, InRange DEF FrameType, Instr

LEMMA KeepsLabelBr == CodeGenInv /\ (GenLabel \/ GenBr) => GenInv'
<1> SUFFICES ASSUME FrameType, GenInv, GenLabel \/ GenBr PROVE GenInv'
  BY DEF CodeGenInv, FrameInv
<1>1. phase = "gen" /\ Instr.op \in {"label", "br"} /\ Instr = fn.code[at]
  BY DEF GenLabel, GenBr, Translates, Instr
<1>2. ~Todo(at) /\ Instr.op # "srem"
  BY <1>1 DEF Todo, IsTodo, Implemented
<1> DEFINE x == <<"label", Instr.ops[1]>>
           y == <<"b", Instr.ops[1]>>
<1>3. Fit(x) /\ Fit(y)
  BY DEF Fit
<1>4. Translated(<<x>>) \/ Translated(<<y>>)
  BY DEF GenLabel, GenBr
<1> HIDE DEF x, y
<1>5. /\ Code(<<x>>) /\ <<x>> # << >>
      /\ Code(<<y>>) /\ <<y>> # << >>
  BY <1>3, CodeOne
<1> QED  BY <1>1, <1>2, <1>4, <1>5, KeepsTranslated

LEMMA KeepsBinary == CodeGenInv /\ GenBinary => GenInv'
<1> SUFFICES ASSUME FrameType, GenInv, GenBinary PROVE GenInv'
  BY DEF CodeGenInv, FrameInv
<1>1. phase = "gen" /\ Instr.op \in Arithmetic
  BY DEF GenBinary, Translates
<1>2. /\ at \in 1 .. Len(fn.code) /\ fn \in Functions /\ Instr = fn.code[at]
      /\ This \in Defs /\ TypeOf(This) = Instr.ty
  BY <1>1, Present
<1>3. /\ Instr.ty = "int"
      /\ IsOperand(fn, Instr.ops[1], "int") /\ IsOperand(fn, Instr.ops[2], "int")
  BY <1>1, <1>2, CodeAssumption
<1>4. ~Todo(at) /\ Instr.op # "srem"
  BY <1>1, <1>2 DEF Todo, IsTodo, Implemented, Arithmetic
<1> DEFINE a == LoadToGreg(Instr.ops[1], "t0")
           b == LoadToGreg(Instr.ops[2], "t1")
           c == <<<<MachineOp(Instr.op), "t2", "t0", "t1">>>>
           e == StoreFromGreg(This, "t2")
<1>5. Code(a) /\ Code(b)
  BY <1>3, LoadFits
<1>6. Code(c)
  <2>1. MachineOp(Instr.op) \in {"add.w", "sub.w", "mul.w", "div.w"}
    BY <1>1 DEF MachineOp, Arithmetic
  <2>2. Fit(<<MachineOp(Instr.op), "t2", "t0", "t1">>)
    BY <2>1 DEF Fit
  <2> QED  BY <2>2, CodeOne
<1>7. Code(e) /\ e # << >>
  BY <1>2, <1>3, StoreFits
<1>8. Translated(a \o b \o c \o e)
  BY DEF GenBinary
<1> HIDE DEF a, b, c, e
<1>9. Code(a \o b \o c \o e) /\ a \o b \o c \o e # << >>
  <2>1. Code(a \o b)
    BY <1>5, CodeConcat
  <2>2. Code(a \o b \o c)
    BY <1>6, <2>1, CodeConcat
  <2> QED  BY <1>7, <2>2, CodeConcat
<1> QED  BY <1>1, <1>4, <1>8, <1>9, KeepsTranslated

LEMMA KeepsLoad == CodeGenInv /\ GenLoad => GenInv'
<1> SUFFICES ASSUME FrameType, GenInv, GenLoad PROVE GenInv'
  BY DEF CodeGenInv, FrameInv
<1>1. phase = "gen" /\ Instr.op = "load" /\ Instr.ty = "float"
  BY DEF GenLoad, Translates
<1>2. /\ at \in 1 .. Len(fn.code) /\ fn \in Functions /\ Instr = fn.code[at]
      /\ This \in Defs
  BY <1>1, Present
<1>3. IsOperand(fn, Instr.ops[1], "ptr")
  BY <1>1, <1>2, CodeAssumption
<1>4. ~Todo(at) /\ Instr.op # "srem"
  BY <1>1, <1>2 DEF Todo, IsTodo
<1> DEFINE a == LoadToGreg(Instr.ops[1], "t0")
           b == <<<<"fld.s", "ft0", "t0", 0>>>>
           c == StoreFromFreg(This, "ft0")
<1>5. Code(a)
  BY <1>3, LoadFits
<1>6. Code(b)
  <2>1. Fit(<<"fld.s", "ft0", "t0", 0>>)
    BY SmallFits DEF Fit, FitsImm12
  <2> QED  BY <2>1, CodeOne
<1>7. Code(c) /\ c # << >>
  BY <1>2, StoreFits
<1>8. Translated(a \o b \o c)
  BY DEF GenLoad
<1> HIDE DEF a, b, c
<1>9. Code(a \o b \o c) /\ a \o b \o c # << >>
  <2>1. Code(a \o b)
    BY <1>5, <1>6, CodeConcat
  <2> QED  BY <1>7, <2>1, CodeConcat
<1> QED  BY <1>1, <1>4, <1>8, <1>9, KeepsTranslated

LEMMA KeepsRem == CodeGenInv /\ SkipRem => GenInv'
<1> SUFFICES ASSUME GenInv, SkipRem PROVE GenInv'
  BY DEF CodeGenInv
<1>1. phase = "gen" /\ Instr.op = "srem" /\ Translated(<< >>) /\ Instr = fn.code[at]
  BY DEF SkipRem, Translates, Instr
<1>2. ~Todo(at)
  BY <1>1 DEF Todo, IsTodo, Implemented
<1> DEFINE none == << >>
<1>3. Code(none) /\ none = << >> /\ Translated(none)
  BY <1>1, CodeNone
<1> HIDE DEF none
<1> QED  BY <1>1, <1>2, <1>3, KeepsTranslated

(* The first instruction with no code, when all arguments were stored.     *)
LEMMA KeepsThrow == CodeGenInv /\ Throw => GenInv'
<1> SUFFICES ASSUME FrameType, GenInv, Throw PROVE GenInv'
  BY DEF CodeGenInv, FrameInv
<1> DEFINE code == IF Instr.op = "load" THEN LoadToGreg(Instr.ops[1], "t0") ELSE << >>
<1>1. /\ phase = "gen" /\ phase' = "run" /\ fault' = "todo"
      /\ Appends(output', output, at, code)
      /\ UNCHANGED <<fn, gargs, fargs, at>>
  BY DEF Throw, StopWith, Emit, Appends, Tagged
<1>2. /\ at \in 1 .. Len(fn.code) /\ fn \in Functions /\ Instr = fn.code[at]
  BY <1>1, Present
<1>3. Todo(at)
  BY <1>2 DEF Throw, Todo, IsTodo
<1>4. Code(code)
  <2>1. CASE Instr.op = "load"
    <3>1. IsOperand(fn, Instr.ops[1], "ptr")
      BY <1>2, <2>1, CodeAssumption
    <3> QED  BY <2>1, <3>1, LoadFits
  <2>2. CASE Instr.op # "load"
    BY <2>2, CodeNone
  <2> QED  BY <2>1, <2>2
<1> HIDE DEF code
<1>5. /\ Emitted(output) /\ Counted /\ gargs + fargs = Args
      /\ at \in Nat /\ at > 0
      /\ \A i \in 1 .. at - 1 : Behind(i)
  BY <1>1 DEF GenInv
<1>6. /\ Emitted(output')
      /\ \A i : CodeFrom(output', i) <=> CodeFrom(output, i) \/ (i = at /\ code # << >>)
  BY <1>1, <1>4, <1>5, Appended
<1>7. ~(ClassSize(TRUE)' > 8) /\ ~(ClassSize(FALSE)' > 8)
  <2>1. /\ ClassSize(TRUE)' = ClassSize(TRUE)
        /\ ClassSize(FALSE)' = ClassSize(FALSE)
    BY <1>1, SameFunction
  <2>2. /\ ClassSize(TRUE) = Cardinality(Those(TRUE, Args))
        /\ ClassSize(FALSE) = Cardinality(Those(FALSE, Args))
    BY DEF ClassSize, Those
  <2>3. ClassSize(TRUE) = fargs /\ ClassSize(FALSE) = gargs
    BY <1>5, <2>2 DEF Counted
  <2>4. ~(fargs > 8) /\ ~(gargs > 8)
    BY <1>5 DEF Counted
  <2> QED  BY <2>1, <2>3, <2>4
<1>8. ASSUME NEW i \in 1 .. at - 1
      PROVE  ~Todo(i)' /\ (HasCode(i)' <=> fn.code[i].op # "srem")
  <2>1. Todo(i)' = Todo(i)
    BY <1>1, SameFunction
  <2>2. i # at
    BY <1>5
  <2>3. Behind(i)
    BY <1>5
  <2>4. HasCode(i)' <=> CodeFrom(output', i)
    BY DEF HasCode, CodeFrom
  <2> QED  BY <1>6, <2>1, <2>2, <2>3, <2>4 DEF Behind
<1>9. StopsAtFirstTodo'
  <2>1. Todo(at)'
    BY <1>1, <1>3 DEF Todo, IsTodo
  <2> QED  BY <1>1, <1>7, <1>8, <2>1 DEF StopsAtFirstTodo
<1> QED  BY <1>1, <1>6, <1>9 DEF GenInv, Emitted

-----------------------------------------------------------------------------
LEMMA GenStep == CodeGenInv /\ [Next]_vars => GenInv'
<1> SUFFICES ASSUME CodeGenInv, [Next]_vars PROVE GenInv'
  OBVIOUS
<1>1. GenInv
  BY DEF CodeGenInv
<1> USE DEF frameVars, genVars
<1>2. CASE Layout
  BY <1>1, <1>2, GenSame DEF Layout, Allocate, AllocateNext, AllocateDone
<1>3. CASE Generate
  BY <1>3, KeepsSave, KeepsArg, KeepsArgsStored, KeepsLabelBr, KeepsBinary, KeepsLoad,
     KeepsRem, KeepsThrow DEF Generate
<1>4. CASE Execute
  BY <1>1, <1>4, GenSame
     DEF Execute, ExecImmediate, ExecRegister, Computes, ExecLoad, ExecStore, ExecJump, Then
<1>5. CASE Stopped \/ UNCHANGED vars
  BY <1>1, <1>5, GenSame DEF Stopped, vars
<1> QED  BY <1>2, <1>3, <1>4, <1>5 DEF Next

(* The inductive invariant of the frame and of generation together.        *)
THEOREM CodeGenInvariant == Spec => []CodeGenInv
<1>1. Init => CodeGenInv
  BY FrameInit, GenInvInit DEF Init, CodeGenInv
<1>2. CodeGenInv /\ [Next]_vars => CodeGenInv'
  BY FrameStep, GenStep DEF CodeGenInv
<1> QED  BY <1>1, <1>2, PTL DEF Spec

(* Every operand fits the field of its instruction, whatever the offset of *)
(* a slot, the size of the frame or the value of a constant.               *)
THEOREM OperandsFit == Spec => []ImmediatesFit
<1>1. CodeGenInv => ImmediatesFit
  <2> SUFFICES ASSUME Emitted(output) PROVE ImmediatesFit
    BY DEF CodeGenInv, GenInv
  <2>1. PICK S : output \in Seq(S) /\ \A x \in S : Fit(x.ins)
    BY DEF Emitted
  <2>2. \A i \in DOMAIN output : output[i] \in S
    BY <2>1
  <2>3. \A i \in DOMAIN output : Fit(output[i].ins)
    BY <2>1, <2>2
  <2> QED  BY <2>3 DEF ImmediatesFit, Fit
<1> QED  BY <1>1, CodeGenInvariant, PTL

(* Generation fails on a ninth argument of a class and otherwise at the    *)
(* first instruction without a translation, with code for all before it.   *)
THEOREM GenerationStops == Spec => []StopsAtFirstTodo
<1>1. CodeGenInv => StopsAtFirstTodo
  BY DEF CodeGenInv, GenInv, StopsAtFirstTodo
<1> QED  BY <1>1, CodeGenInvariant, PTL

-----------------------------------------------------------------------------
(* What a piece of code is made of, instruction by instruction.            *)
Straight(ins) == ins[1] \notin {"b", "label"}
Listing(s) == \E S : s \in Seq(S) /\ \A x \in S : Straight(x)

(* Sequences of straight instructions: their lengths and members.          *)
LEMMA ListNone == Listing(<< >>) /\ Len(<< >>) = 0
<1> DEFINE S == {}
           s == << >>
<1>1. s \in Seq(S) /\ Len(s) = 0
  OBVIOUS
<1>2. \A z \in S : Straight(z)
  OBVIOUS
<1> HIDE DEF S
<1> QED  BY <1>1, <1>2 DEF Listing

(* One instruction.                                                        *)
LEMMA ListOne ==
    ASSUME NEW x, Straight(x)
    PROVE  Listing(<<x>>) /\ Len(<<x>>) = 1 /\ <<x>>[1] = x
<1> DEFINE S == {x}
           s == <<x>>
<1>1. s \in Seq(S) /\ Len(s) = 1 /\ s[1] = x
  OBVIOUS
<1>2. \A z \in S : Straight(z)
  OBVIOUS
<1> HIDE DEF S
<1> QED  BY <1>1, <1>2 DEF Listing

(* Two of them.                                                            *)
LEMMA ListTwo ==
    ASSUME NEW x, NEW y, Straight(x), Straight(y)
    PROVE  Listing(<<x, y>>) /\ Len(<<x, y>>) = 2 /\ <<x, y>>[1] = x /\ <<x, y>>[2] = y
<1> DEFINE S == {x, y}
           s == <<x, y>>
<1>1. s \in Seq(S) /\ Len(s) = 2 /\ s[1] = x /\ s[2] = y
  OBVIOUS
<1>2. \A z \in S : Straight(z)
  OBVIOUS
<1> HIDE DEF S
<1> QED  BY <1>1, <1>2 DEF Listing

(* Four of them.                                                           *)
LEMMA ListFour ==
    ASSUME NEW x, NEW y, NEW z, NEW w, Straight(x), Straight(y), Straight(z), Straight(w)
    PROVE  /\ Listing(<<x, y, z, w>>) /\ Len(<<x, y, z, w>>) = 4
           /\ <<x, y, z, w>>[1] = x /\ <<x, y, z, w>>[2] = y
           /\ <<x, y, z, w>>[3] = z /\ <<x, y, z, w>>[4] = w
<1> DEFINE S == {x, y, z, w}
           s == <<x, y, z, w>>
<1>1. s \in Seq(S) /\ Len(s) = 4 /\ s[1] = x /\ s[2] = y /\ s[3] = z /\ s[4] = w
  OBVIOUS
<1>2. \A e \in S : Straight(e)
  OBVIOUS
<1> HIDE DEF S
<1> QED  BY <1>1, <1>2 DEF Listing

(* Every member of a listing is straight.                                  *)
LEMMA ListLen ==
    ASSUME NEW s, Listing(s)
    PROVE  /\ Len(s) \in Nat /\ DOMAIN s = 1 .. Len(s)
           /\ \A k \in 1 .. Len(s) : Straight(s[k])
           /\ Len(s) = 0 <=> s = << >>
<1>1. PICK S : s \in Seq(S) /\ \A x \in S : Straight(x)
  BY DEF Listing
<1>2. Len(s) \in Nat /\ DOMAIN s = 1 .. Len(s)
  BY <1>1, LenProperties
<1>3. \A k \in 1 .. Len(s) : s[k] \in S
  BY <1>1, ElementOfSeq
<1> QED  BY <1>1, <1>2, <1>3, EmptySeq

(* The instructions of two pieces joined.                                  *)
LEMMA ListConcat ==
    ASSUME NEW s, NEW t, Listing(s), Listing(t)
    PROVE  /\ Listing(s \o t) /\ Len(s \o t) = Len(s) + Len(t)
           /\ \A k \in 1 .. Len(s) : (s \o t)[k] = s[k]
           /\ \A k \in 1 .. Len(t) : (s \o t)[Len(s) + k] = t[k]
<1>1. PICK S : s \in Seq(S) /\ \A x \in S : Straight(x)
  BY DEF Listing
<1>2. PICK T : t \in Seq(T) /\ \A x \in T : Straight(x)
  BY DEF Listing
<1>3. s \in Seq(S \cup T) /\ t \in Seq(S \cup T)
  BY <1>1, <1>2
<1>4. /\ s \o t \in Seq(S \cup T) /\ Len(s \o t) = Len(s) + Len(t)
      /\ \A k \in 1 .. Len(s) + Len(t) :
            (s \o t)[k] = IF k <= Len(s) THEN s[k] ELSE t[k - Len(s)]
      /\ Len(s) \in Nat /\ Len(t) \in Nat
  BY <1>3, ConcatProperties, LenProperties
<1>5. \A x \in S \cup T : Straight(x)
  BY <1>1, <1>2
<1>6. Listing(s \o t)
  BY <1>4, <1>5 DEF Listing
<1> DEFINE a == Len(s)
           b == Len(t)
<1>7. a \in Nat /\ b \in Nat
  BY <1>4
<1> DEFINE u == s \o t
<1>8. \A k \in 1 .. a + b : u[k] = IF k <= a THEN s[k] ELSE t[k - a]
  BY <1>4
<1> HIDE DEF a, b, u
<1>9. \A k \in 1 .. a : u[k] = s[k]
  BY <1>7, <1>8
<1>10. \A k \in 1 .. b : u[a + k] = t[k]
  <2> TAKE k \in 1 .. b
  <2>1. a + k \in 1 .. a + b /\ ~(a + k <= a) /\ (a + k) - a = k
    BY <1>7
  <2> QED  BY <1>8, <2>1
<1> QED  BY <1>4, <1>6, <1>9, <1>10 DEF a, b, u

-----------------------------------------------------------------------------
(* What gen_large_int emits for a number of one word.                      *)
Word32 == -Half .. Half - 1
Top32(n) == IF n < 0 THEN -1 ELSE 0

(* The fields lu32i.d and lu52i.d set, of a number of 32 bits.             *)
LEMMA HighParts ==
    ASSUME NEW n \in Word32
    PROVE  /\ Signed(n, Word) = n
           /\ n \div Word = Top32(n)
           /\ Signed(n \div Word, High) = Top32(n)
           /\ Signed(n \div Word, Word) \div High = Top32(n)
<1>1. /\ Half \in Nat /\ Word = 2 * Half /\ Half > 0 /\ Word \div 2 = Half
      /\ High \in Nat /\ High > 0 /\ High % 2 = 0
  BY Widths, HalfAssumption DEF Word
<1>2. PICK h \in Nat : High = 2 * h
  BY <1>1
<1>3. h > 0 /\ High \div 2 = h
  BY <1>1, <1>2
<1>4. n \in Int /\ -Half <= n /\ n < Half
  BY <1>1 DEF Word32
<1>5. n \div Word = Top32(n)
  <2>1. CASE n < 0
    <3>1. n \div Word = -1
      BY <1>1, <1>4, <2>1
    <3> QED  BY <2>1, <3>1 DEF Top32
  <2>2. CASE ~(n < 0)
    <3>1. n \div Word = 0
      BY <1>1, <1>4, <2>2
    <3> QED  BY <2>2, <3>1 DEF Top32
  <2> QED  BY <2>1, <2>2
<1>6. Signed(n, Word) = n
  <2>1. (n + Half) % Word = n + Half
    BY <1>1, <1>4
  <2> QED  BY <1>1, <1>4, <2>1 DEF Signed
<1>7. \A x \in {-1, 0} : Signed(x, High) = x
  <2>1. \A x \in {-1, 0} : (x + h) % High = x + h
    BY <1>2, <1>3
  <2> QED  BY <1>2, <1>3, <2>1 DEF Signed
<1>8. \A x \in {-1, 0} : Signed(x, Word) = x /\ x \div High = x
  <2>1. \A x \in {-1, 0} : (x + Half) % Word = x + Half
    BY <1>1
  <2>2. \A x \in {-1, 0} : x \div High = x
    BY <1>1
  <2> QED  BY <1>1, <2>1, <2>2 DEF Signed
<1>9. Top32(n) \in {-1, 0}
  BY DEF Top32
<1> QED  BY <1>5, <1>6, <1>7, <1>8, <1>9

(* gen_large_int of 32 bits is two straight instructions.                  *)
LEMMA Int32Code ==
    ASSUME NEW n, NEW r
    PROVE  /\ Listing(LargeInt32(n, r)) /\ Len(LargeInt32(n, r)) = 2
           /\ LargeInt32(n, r)[1] = <<"lu12i.w", r, n \div Low>>
           /\ LargeInt32(n, r)[2] = <<"ori", r, r, Unsigned(n, Low)>>
<1> DEFINE x == <<"lu12i.w", r, n \div Low>>
           y == <<"ori", r, r, Unsigned(n, Low)>>
<1>1. Straight(x) /\ Straight(y)
  BY DEF Straight
<1>2. LargeInt32(n, r) = <<x, y>>
  BY DEF LargeInt32
<1> HIDE DEF x, y
<1>3. Listing(<<x, y>>) /\ Len(<<x, y>>) = 2 /\ <<x, y>>[1] = x /\ <<x, y>>[2] = y
  BY <1>1, ListTwo
<1> QED  BY <1>2, <1>3 DEF x, y

(* gen_large_int of 64 bits is four straight instructions.                 *)
LEMMA Int64Code ==
    ASSUME NEW n \in Word32, NEW r
    PROVE  /\ Listing(LargeInt64(n, r)) /\ Len(LargeInt64(n, r)) = 4
           /\ LargeInt64(n, r)[1] = <<"lu12i.w", r, n \div Low>>
           /\ LargeInt64(n, r)[2] = <<"ori", r, r, Unsigned(n, Low)>>
           /\ LargeInt64(n, r)[3] = <<"lu32i.d", r, Top32(n)>>
           /\ LargeInt64(n, r)[4] = <<"lu52i.d", r, r, Top32(n)>>
<1> DEFINE x == <<"lu32i.d", r, Top32(n)>>
           y == <<"lu52i.d", r, r, Top32(n)>>
           s == LargeInt32(n, r)
           t == <<x, y>>
<1>1. LargeInt64(n, r) = s \o t
  BY HighParts DEF LargeInt64
<1>2. Straight(x) /\ Straight(y)
  BY DEF Straight
<1>3. /\ Listing(s) /\ Len(s) = 2
      /\ s[1] = <<"lu12i.w", r, n \div Low>>
      /\ s[2] = <<"ori", r, r, Unsigned(n, Low)>>
  BY Int32Code
<1> HIDE DEF x, y, s
<1>4. Listing(t) /\ Len(t) = 2 /\ t[1] = x /\ t[2] = y
  BY <1>2, ListTwo
<1> HIDE DEF t
<1>5. /\ Listing(s \o t) /\ Len(s \o t) = Len(s) + Len(t)
      /\ \A k \in 1 .. Len(s) : (s \o t)[k] = s[k]
      /\ \A k \in 1 .. Len(t) : (s \o t)[Len(s) + k] = t[k]
  <2>1. Listing(s) /\ Listing(t)
    BY <1>3, <1>4
  <2>2. Listing(s \o t)
    BY <2>1, ListConcat
  <2>3. Len(s \o t) = Len(s) + Len(t)
    BY <2>1, ListConcat
  <2>4. \A k \in 1 .. Len(s) : (s \o t)[k] = s[k]
    BY <2>1, ListConcat
  <2>5. \A k \in 1 .. Len(t) : (s \o t)[Len(s) + k] = t[k]
    BY <2>1, ListConcat
  <2> QED BY <2>2, <2>3, <2>4, <2>5
<1>6. /\ 1 \in 1 .. Len(s) /\ 2 \in 1 .. Len(s) /\ Len(s) + Len(t) = 4
      /\ 1 \in 1 .. Len(t) /\ 2 \in 1 .. Len(t) /\ Len(s) + 2 = 4 /\ Len(s) + 1 = 3
  BY <1>3, <1>4
<1>7. (s \o t)[3] = t[1] /\ (s \o t)[4] = t[2] /\ Len(s \o t) = 4
      /\ (s \o t)[1] = s[1] /\ (s \o t)[2] = s[2]
  BY <1>5, <1>6
<1> QED  BY <1>1, <1>3, <1>4, <1>5, <1>7 DEF x, y

-----------------------------------------------------------------------------
(* An access of a slot is one instruction, or six.                         *)
AccessLen(n) == IF FitsImm12(n) THEN 1 ELSE 6

AccessOf(s, op, r, n, addr) ==
    /\ FitsImm12(n) => s[1] = <<op, r, "fp", n>>
    /\ ~FitsImm12(n) =>
          /\ s[1] = <<"lu12i.w", addr, n \div Low>>
          /\ s[2] = <<"ori", addr, addr, Unsigned(n, Low)>>
          /\ s[3] = <<"lu32i.d", addr, Top32(n)>>
          /\ s[4] = <<"lu52i.d", addr, addr, Top32(n)>>
          /\ s[5] = <<"add.d", addr, "fp", addr>>
          /\ s[6] = <<op, r, addr, 0>>

(* SlotAccess is such an access.                                           *)
LEMMA SlotCode ==
    ASSUME NEW op, op \notin {"b", "label"}, NEW r, NEW d, NEW addr,
           NEW n \in Word32, slot[d] = n
    PROVE  /\ Listing(SlotAccess(op, r, d, addr))
           /\ Len(SlotAccess(op, r, d, addr)) = AccessLen(n)
           /\ AccessOf(SlotAccess(op, r, d, addr), op, r, n, addr)
<1>0. PICK s : s = SlotAccess(op, r, d, addr)
  OBVIOUS
<1>1. CASE FitsImm12(n)
  <2> DEFINE x == <<op, r, "fp", n>>
  <2>1. Straight(x)
    BY DEF Straight
  <2>2. s = <<x>>
    BY <1>0, <1>1 DEF SlotAccess
  <2> HIDE DEF x
  <2>3. Listing(<<x>>) /\ Len(<<x>>) = 1 /\ <<x>>[1] = x
    BY <2>1, ListOne
  <2> QED  BY <1>0, <1>1, <2>2, <2>3 DEF x, AccessLen, AccessOf
<1>2. CASE ~FitsImm12(n)
  <2> DEFINE l == LargeInt64(n, addr)
             x == <<"add.d", addr, "fp", addr>>
             y == <<op, r, addr, 0>>
             t == <<x, y>>
  <2>1. s = l \o t
    BY <1>0, <1>2 DEF SlotAccess
  <2>2. Straight(x) /\ Straight(y)
    BY DEF Straight
  <2>3. /\ Listing(l) /\ Len(l) = 4
        /\ l[1] = <<"lu12i.w", addr, n \div Low>>
        /\ l[2] = <<"ori", addr, addr, Unsigned(n, Low)>>
        /\ l[3] = <<"lu32i.d", addr, Top32(n)>>
        /\ l[4] = <<"lu52i.d", addr, addr, Top32(n)>>
    BY Int64Code
  <2> HIDE DEF x, y, l
  <2>4. Listing(t) /\ Len(t) = 2 /\ t[1] = x /\ t[2] = y
    BY <2>2, ListTwo
  <2> HIDE DEF t
  <2>5. Listing(l) /\ Listing(t)
    BY <2>3, <2>4
  <2>6. /\ Listing(l \o t) /\ Len(l \o t) = Len(l) + Len(t)
        /\ \A k \in 1 .. Len(l) : (l \o t)[k] = l[k]
        /\ \A k \in 1 .. Len(t) : (l \o t)[Len(l) + k] = t[k]
    BY <2>5, ListConcat
  <2> DEFINE u == l \o t
  <2>7. /\ Listing(u) /\ Len(u) = 6
        /\ u[1] = l[1] /\ u[2] = l[2] /\ u[3] = l[3] /\ u[4] = l[4] /\ u[5] = x /\ u[6] = y
    <3> HIDE DEF u
    <3>1. /\ Len(u) = Len(l) + Len(t) /\ Len(l) = 4 /\ Len(t) = 2
          /\ \A k \in 1 .. Len(l) : u[k] = l[k]
          /\ \A k \in 1 .. Len(t) : u[Len(l) + k] = t[k]
      BY <2>3, <2>4, <2>6 DEF u
    <3>2. /\ 1 \in 1 .. Len(l) /\ 2 \in 1 .. Len(l) /\ 3 \in 1 .. Len(l) /\ 4 \in 1 .. Len(l)
          /\ 1 \in 1 .. Len(t) /\ 2 \in 1 .. Len(t) /\ Len(l) + 1 = 5 /\ Len(l) + 2 = 6
      BY <3>1
    <3>3. u[5] = t[1] /\ u[6] = t[2]
      BY <3>1, <3>2
    <3> QED  BY <2>4, <2>6, <3>1, <3>2, <3>3 DEF u
  <2> HIDE DEF u
  <2> QED  BY <1>0, <1>2, <2>1, <2>3, <2>7 DEF x, y, u, AccessLen, AccessOf
<1> QED  BY <1>1, <1>2

-----------------------------------------------------------------------------
(* What each machine instruction does.                                     *)
Sets(r, v) == regs' = [regs EXCEPT ![r] = v] /\ mem' = mem /\ mpc' = mpc + 1

(* The machine moves only when the code is complete, and changes nothing   *)
(* else.                                                                   *)
LEMMA Executed ==
    ASSUME Execute
    PROVE  /\ phase = "run" /\ mpc \in DOMAIN output
           /\ UNCHANGED <<frameVars, genVars, inputs>>
<1> USE DEF Executes, Then
<1>1. CASE ExecImmediate
  BY <1>1 DEF ExecImmediate, Computes
<1>2. CASE ExecRegister
  BY <1>2 DEF ExecRegister, Computes
<1>3. CASE ExecLoad \/ ExecStore \/ ExecJump
  BY <1>3 DEF ExecLoad, ExecStore, ExecJump
<1> QED  BY <1>1, <1>2, <1>3 DEF Execute

(* What each immediate form does, whichever action of the machine it is.   *)
LEMMA ExecutedImmediate ==
    ASSUME Execute
    PROVE  /\ Ins[1] = "addi.w" => Sets(Ins[2], Signed(regs[Ins[3]] + Ins[4], Word))
           /\ Ins[1] = "addi.d" => Sets(Ins[2], Signed(regs[Ins[3]] + Ins[4], Double))
           /\ Ins[1] = "lu12i.w" => Sets(Ins[2], Signed(Ins[3] * Low, Word))
           /\ Ins[1] = "ori" => Sets(Ins[2], regs[Ins[3]] + Ins[4])
           /\ Ins[1] = "lu32i.d" =>
                 Sets(Ins[2], Signed(Ins[3] * Word + Unsigned(regs[Ins[2]], Word), Double))
           /\ Ins[1] = "lu52i.d" =>
                 Sets(Ins[2], Signed(Ins[4] * Word * High + Unsigned(regs[Ins[3]], Word * High), Double))
           /\ Ins[1] = "la.local" => Sets(Ins[2], GlobalAt(Ins[3]))
<1> USE DEF Executes, Then
<1>1. CASE ExecImmediate
  BY <1>1 DEF ExecImmediate, Computes, SetReg, Sets
<1>2. CASE ExecRegister
  BY <1>2 DEF ExecRegister, Computes
<1>3. CASE ExecLoad \/ ExecStore \/ ExecJump
  BY <1>3 DEF ExecLoad, ExecStore, ExecJump
<1> QED  BY <1>1, <1>2, <1>3 DEF Execute

(* The same of the register forms.                                         *)
LEMMA ExecutedRegister ==
    ASSUME Execute
    PROVE  /\ Ins[1] = "add.d" => Sets(Ins[2], Signed(Left + Right, Double))
           /\ Ins[1] = "sub.d" => Sets(Ins[2], Signed(Left - Right, Double))
           /\ Ins[1] = "add.w" => Sets(Ins[2], Signed(LeftWord + RightWord, Word))
           /\ Ins[1] = "sub.w" => Sets(Ins[2], Signed(LeftWord - RightWord, Word))
           /\ Ins[1] = "mul.w" => Sets(Ins[2], Signed(LeftWord * RightWord, Word))
           /\ Ins[1] = "div.w" => Sets(Ins[2], Signed(Quot(LeftWord, RightWord), Word))
<1> USE DEF Executes, Then
<1>1. CASE ExecImmediate
  BY <1>1 DEF ExecImmediate, Computes
<1>2. CASE ExecRegister
  BY <1>2 DEF ExecRegister, Computes, SetReg, Sets
<1>3. CASE ExecLoad \/ ExecStore \/ ExecJump
  BY <1>3 DEF ExecLoad, ExecStore, ExecJump
<1> QED  BY <1>1, <1>2, <1>3 DEF Execute

(* The same of loads, stores, labels and jumps.                            *)
LEMMA ExecutedMemory ==
    ASSUME Execute
    PROVE  /\ Ins[1] \in {"ld.b", "ld.w", "ld.d", "fld.s"} =>
                 Sets(Ins[2], Read(regs[Ins[3]] + Ins[4], Bytes(Ins[1])))
           /\ Ins[1] \in {"st.b", "st.w", "st.d", "fst.s"} =>
                 /\ mem' = Over(Cells(regs[Ins[3]] + Ins[4], Bytes(Ins[1]),
                                      Stored(Ins[1], regs[Ins[2]])), mem)
                 /\ regs' = regs /\ mpc' = mpc + 1
           /\ Ins[1] = "label" => UNCHANGED <<regs, mem>> /\ mpc' = mpc + 1
           /\ Ins[1] = "b" => UNCHANGED <<regs, mem>> /\ mpc' \in Label(Ins[2])
<1> USE DEF Executes, Then
<1>1. CASE ExecImmediate
  BY <1>1 DEF ExecImmediate, Computes
<1>2. CASE ExecRegister
  BY <1>2 DEF ExecRegister, Computes
<1>3. CASE ExecLoad
  BY <1>3 DEF ExecLoad, SetReg, Sets
<1>4. CASE ExecStore
  BY <1>4 DEF ExecStore
<1>5. CASE ExecJump
  BY <1>5 DEF ExecJump
<1> QED  BY <1>1, <1>2, <1>3, <1>4, <1>5 DEF Execute

-----------------------------------------------------------------------------
(* One register is written, and nothing else.                              *)
OnlySets(r) ==
    /\ DOMAIN regs' = DOMAIN regs /\ mem' = mem /\ mpc' = mpc + 1
    /\ \A q \in Registers : q # r => regs'[q] = regs[q]

(* An instruction that sets a register sets only that one.                 *)
LEMMA SetsOne ==
    ASSUME DOMAIN regs = Registers, NEW r \in Registers, NEW v, Sets(r, v)
    PROVE  OnlySets(r) /\ regs'[r] = v
BY DEF Sets, OnlySets

(* What is in the register an address or another number is built in,       *)
(* before its k-th instruction.                                            *)
Building(r, n, k) ==
    /\ k = 2 => regs[r] = (n \div Low) * Low
    /\ k \in 3 .. 5 => regs[r] = n
    /\ k = 6 => regs[r] = Frame0 + n

(* The widths in one place.                                                *)
LEMMA Numbers ==
    /\ Double = Word * Word /\ Double \in Nat /\ Double \div 2 = Half * Word /\ Double % 2 = 0
    /\ Word \in Nat /\ Word = 2 * Half /\ Half \in Nat /\ Half > 16
    /\ Low \in Nat /\ Low > 0 /\ High \in Nat /\ High > 1
    /\ Frame0 \in Nat /\ Half <= Frame0 /\ Frame0 < Half * Word
<1>1. /\ Word \in Nat /\ Word = 2 * Half /\ Half \in Nat /\ Half > 16
      /\ Low \in Nat /\ Low > 0 /\ High \in Nat /\ High > 0 /\ High % 2 = 0
  BY Widths, HalfAssumption DEF Word
<1>2. High > 1
  BY <1>1
<1> DEFINE m == Half * Word
<1>3. m \in Nat
  BY <1>1
<1>4. Double = 2 * m
  BY <1>1 DEF Double
<1> HIDE DEF m
<1>5. Double \in Nat /\ Double \div 2 = m /\ Double % 2 = 0
  BY <1>3, <1>4
<1>6. Frame0 \in Half .. m - 1
  BY <1>5, MachineAssumption
<1>7. Frame0 \in Nat /\ Half <= Frame0 /\ Frame0 < m
  BY <1>1, <1>3, <1>6
<1> QED  BY <1>1, <1>2, <1>5, <1>7 DEF m, Double

(* The values of the four instructions: each stays the number it is, since *)
(* the upper fields only repeat its sign.                                  *)
LEMMA SignedSame ==
    ASSUME NEW m \in Nat, m % 2 = 0, NEW n \in Int, -(m \div 2) <= n, n < m \div 2
    PROVE  Signed(n, m) = n
<1>1. PICK h \in Nat : m = 2 * h
  OBVIOUS
<1>2. m \div 2 = h
  BY <1>1
<1>3. (n + h) \in 0 .. m - 1
  BY <1>1, <1>2
<1>4. (n + h) % m = n + h
  BY <1>1, <1>3
<1> QED  BY <1>2, <1>4 DEF Signed

(* The low bits, then the sign: what each step of gen_large_int computes.  *)
LEMMA BuiltValues ==
    ASSUME NEW n \in Word32
    PROVE  /\ Signed((n \div Low) * Low, Word) = (n \div Low) * Low
           /\ (n \div Low) * Low + Unsigned(n, Low) = n
           /\ Signed(Top32(n) * Word + Unsigned(n, Word), Double) = n
           /\ Signed(Top32(n) * Word * High + Unsigned(n, Word * High), Double) = n
           /\ Signed(0 + n, Word) = n
           /\ n <= 0 => Signed(Frame0 + n, Double) = Frame0 + n
<1>1. /\ Word \in Nat /\ Word = 2 * Half /\ Half \in Nat /\ Half > 16
      /\ Low \in Nat /\ Low > 0 /\ High \in Nat /\ High > 1
      /\ Frame0 \in Nat /\ Half <= Frame0 /\ Frame0 < Half * Word
      /\ Double \in Nat /\ Double \div 2 = Half * Word /\ Double % 2 = 0
  BY Numbers
<1>2. n \in Int /\ -Half <= n /\ n < Half
  BY <1>1 DEF Word32
<1>3. /\ (n \div Low) * Low + Unsigned(n, Low) = n
      /\ Unsigned(n, Low) \in 0 .. Low - 1 /\ (n \div Low) \in Int
  <2>1. n % Low \in 0 .. Low - 1 /\ n \div Low \in Int /\ n = Low * (n \div Low) + (n % Low)
    BY <1>1, <1>2
  <2> QED  BY <1>1, <2>1 DEF Unsigned
<1>4. PICK h \in Nat : Half = Low * h
  BY Widths
<1>5. -Half <= (n \div Low) * Low /\ (n \div Low) * Low < Half
  <2> DEFINE q == n \div Low
  <2>1. q \in Int /\ q * Low <= n /\ n < q * Low + Low
    BY <1>1, <1>2, <1>3
  <2> HIDE DEF q
  <2>2. -h <= q
    <3>1. -(Low * h) < (q + 1) * Low
      BY <1>1, <1>2, <1>4, <2>1
    <3>2. ASSUME q + 1 <= -h PROVE FALSE
      <4>1. (q + 1) * Low <= (-h) * Low
        BY <1>1, <1>4, <2>1, <3>2
      <4> QED  BY <1>1, <1>4, <2>1, <3>1, <4>1
    <3> QED  BY <1>4, <2>1, <3>2
  <2>3. (-h) * Low <= q * Low
    BY <1>1, <1>4, <2>1, <2>2
  <2> QED  BY <1>1, <1>2, <1>4, <2>1, <2>3 DEF q
<1>6. Signed((n \div Low) * Low, Word) = (n \div Low) * Low
  <2> DEFINE q == (n \div Low) * Low
  <2>1. q \in Int
    BY <1>1, <1>3
  <2> HIDE DEF q
  <2>2. -Half <= q /\ q < Half
    BY <1>5 DEF q
  <2>3. Signed(q, Word) = q
    <3>1. Word % 2 = 0 /\ Word \div 2 = Half
      BY <1>1
    <3> QED  BY <1>1, <2>1, <2>2, <3>1, SignedSame
  <2> QED  BY <2>3 DEF q
<1>7. Half <= Half * Word /\ Half * Word \in Nat
  BY <1>1
<1> DEFINE m == Half * Word
<1>8. m \in Nat /\ Half <= m /\ Double \div 2 = m
  BY <1>1, <1>7
<1>9. Signed(n, Double) = n
  <2> HIDE DEF m
  <2> QED  BY <1>1, <1>2, <1>8, SignedSame
<1>10. ASSUME n <= 0 PROVE Signed(Frame0 + n, Double) = Frame0 + n
  <2>1. Frame0 < m
    BY <1>1
  <2> HIDE DEF m
  <2>2. Frame0 + n \in Int /\ -m <= Frame0 + n /\ Frame0 + n < m
    BY <1>1, <1>2, <1>8, <1>10, <2>1
  <2> QED  BY <1>1, <1>8, <2>2, SignedSame
<1>11. Signed(0 + n, Word) = n
  BY <1>2, HighParts
<1>12. ASSUME NEW w \in Nat, w >= Word
       PROVE  Top32(n) * w + Unsigned(n, w) = n
  <2>1. CASE n < 0
    <3>1. n % w = n + w
      BY <1>1, <1>2, <1>12, <2>1
    <3> QED  BY <1>2, <1>12, <2>1, <3>1 DEF Top32, Unsigned
  <2>2. CASE ~(n < 0)
    <3>1. n % w = n
      BY <1>1, <1>2, <1>12, <2>2
    <3> QED  BY <1>2, <1>12, <2>2, <3>1 DEF Top32, Unsigned
  <2> QED  BY <2>1, <2>2
<1>13. Top32(n) * Word + Unsigned(n, Word) = n
  BY <1>1, <1>12
<1>14. Top32(n) * Word * High + Unsigned(n, Word * High) = n
  <2>1. Word * High \in Nat /\ Word * High >= Word
    BY <1>1
  <2>2. Top32(n) * (Word * High) + Unsigned(n, Word * High) = n
    BY <1>12, <2>1
  <2>3. Top32(n) * Word * High = Top32(n) * (Word * High)
    BY <1>1 DEF Top32
  <2> QED  BY <2>2, <2>3
<1> QED  BY <1>3, <1>6, <1>9, <1>10, <1>11, <1>13, <1>14

(* gen_large_int in the machine: each of its instructions adds a field.    *)
LEMMA BuildStep ==
    ASSUME Execute, DOMAIN regs = Registers, NEW n \in Word32, NEW r \in Registers,
           NEW k \in 1 .. 4, Ins = LargeInt64(n, r)[k], Building(r, n, k)
    PROVE  OnlySets(r) /\ Building(r, n, k + 1)'
<1>1. CASE k = 1
  <2>1. Ins = <<"lu12i.w", r, n \div Low>>
    BY <1>1, Int64Code
  <2>2. Sets(r, (n \div Low) * Low)
    BY <2>1, ExecutedImmediate, BuiltValues
  <2>3. OnlySets(r) /\ regs'[r] = (n \div Low) * Low
    BY <2>2, SetsOne
  <2> QED  BY <1>1, <2>3 DEF Building
<1>2. CASE k = 2
  <2>1. Ins = <<"ori", r, r, Unsigned(n, Low)>>
    BY <1>2, Int64Code
  <2>2. regs[r] = (n \div Low) * Low
    BY <1>2 DEF Building
  <2>3. Sets(r, n)
    BY <2>1, <2>2, ExecutedImmediate, BuiltValues
  <2>4. OnlySets(r) /\ regs'[r] = n
    BY <2>3, SetsOne
  <2> QED  BY <1>2, <2>4 DEF Building
<1>3. CASE k = 3
  <2>1. Ins = <<"lu32i.d", r, Top32(n)>>
    BY <1>3, Int64Code
  <2>2. regs[r] = n
    BY <1>3 DEF Building
  <2>3. Sets(r, n)
    BY <2>1, <2>2, ExecutedImmediate, BuiltValues
  <2>4. OnlySets(r) /\ regs'[r] = n
    BY <2>3, SetsOne
  <2> QED  BY <1>3, <2>4 DEF Building
<1>4. CASE k = 4
  <2>1. Ins = <<"lu52i.d", r, r, Top32(n)>>
    BY <1>4, Int64Code
  <2>2. regs[r] = n
    BY <1>4 DEF Building
  <2>3. Sets(r, n)
    BY <2>1, <2>2, ExecutedImmediate, BuiltValues
  <2>4. OnlySets(r) /\ regs'[r] = n
    BY <2>3, SetsOne
  <2> QED  BY <1>4, <2>4 DEF Building
<1> QED  BY <1>1, <1>2, <1>3, <1>4

(* The first two alone build an int.                                       *)
LEMMA BuildIntStep ==
    ASSUME Execute, DOMAIN regs = Registers, NEW n \in Word32, NEW r \in Registers,
           NEW k \in 1 .. 2, Ins = LargeInt32(n, r)[k], Building(r, n, k)
    PROVE  OnlySets(r) /\ Building(r, n, k + 1)'
<1>1. k \in 1 .. 4 /\ LargeInt32(n, r)[k] = LargeInt64(n, r)[k]
  BY Int32Code, Int64Code
<1> QED  BY <1>1, BuildStep

(* An access of a slot: before its last instruction the address is built,  *)
(* and the last one has it.                                                *)
LEMMA AccessStep ==
    ASSUME Execute, DOMAIN regs = Registers, regs["fp"] = Frame0,
           NEW op, op \notin {"b", "label"}, NEW r, NEW d, NEW addr \in Registers,
           NEW n \in Word32, n <= 0, slot[d] = n, NEW k \in 1 .. AccessLen(n),
           Ins = SlotAccess(op, r, d, addr)[k], Building(addr, n, k)
    PROVE  /\ k < AccessLen(n) => OnlySets(addr) /\ Building(addr, n, k + 1)'
           /\ k = AccessLen(n) => /\ Ins[1] = op /\ Ins[2] = r
                                  /\ regs[Ins[3]] + Ins[4] = Frame0 + n
<1>0. Frame0 \in Nat /\ n \in Int
  BY Numbers DEF Word32
<1> DEFINE s == SlotAccess(op, r, d, addr)
<1>c. AccessOf(s, op, r, n, addr) /\ Ins = s[k]
  BY SlotCode
<1> HIDE DEF s
<1>1. CASE FitsImm12(n)
  <2>1. AccessLen(n) = 1 /\ k = 1
    BY <1>1 DEF AccessLen
  <2>2. Ins = <<op, r, "fp", n>>
    BY <1>1, <2>1, <1>c DEF AccessOf
  <2>3. Ins[1] = op /\ Ins[2] = r /\ Ins[3] = "fp" /\ Ins[4] = n
    BY <2>2
  <2> QED  BY <2>1, <2>3
<1>2. CASE ~FitsImm12(n)
  <2>1. AccessLen(n) = 6
    BY <1>2 DEF AccessLen
  <2>2. CASE k \in 1 .. 4
    <3>1. Ins = LargeInt64(n, addr)[k]
      BY <1>2, <2>2, <1>c, Int64Code DEF AccessOf
    <3>2. OnlySets(addr) /\ Building(addr, n, k + 1)'
      BY <2>2, <3>1, BuildStep
    <3> QED  BY <2>1, <2>2, <3>2
  <2>3. CASE k = 5
    <3>1. Ins = <<"add.d", addr, "fp", addr>>
      BY <1>2, <2>3, <1>c DEF AccessOf
    <3>2. regs[addr] = n
      BY <2>3 DEF Building
    <3>3. Sets(addr, Frame0 + n)
      BY <3>1, <3>2, ExecutedRegister, BuiltValues DEF Left, Right
    <3>4. OnlySets(addr) /\ regs'[addr] = Frame0 + n
      BY <3>3, SetsOne
    <3> QED  BY <2>1, <2>3, <3>4 DEF Building
  <2>4. CASE k = 6
    <3>1. Ins = <<op, r, addr, 0>>
      BY <1>2, <2>4, <1>c DEF AccessOf
    <3>2. regs[addr] = Frame0 + n
      BY <2>4 DEF Building
    <3>3. Ins[1] = op /\ Ins[2] = r /\ Ins[3] = addr /\ Ins[4] = 0
      BY <3>1
    <3>4. regs[Ins[3]] + Ins[4] = Frame0 + n
      BY <1>0, <3>2, <3>3
    <3> QED  BY <2>1, <2>4, <3>3, <3>4
  <2> QED  BY <2>1, <2>2, <2>3, <2>4
<1> QED  BY <1>1, <1>2

-----------------------------------------------------------------------------
(* What is stored can be read back, and elsewhere nothing changes.         *)
LEMMA Written ==
    ASSUME NEW a \in Int, NEW n \in {1, 4, 8}, NEW v, mem' = Over(Cells(a, n, v), mem)
    PROVE  /\ DOMAIN mem' = DOMAIN mem \cup (a .. a + n - 1)
           /\ Read(a, n)' = v
           /\ \A b \in Int, m \in {1, 4, 8} :
                 b + m <= a \/ a + n <= b => Read(b, m)' = Read(b, m)
<1> DEFINE c == Cells(a, n, v)
<1>1. DOMAIN c = a .. a + n - 1 /\ \A x \in a .. a + n - 1 : c[x] = <<v, x - a, n>>
  BY DEF Cells
<1> HIDE DEF c
<1>2. /\ DOMAIN mem' = DOMAIN c \cup DOMAIN mem
      /\ \A x \in DOMAIN c : mem'[x] = c[x]
      /\ \A x \in DOMAIN mem : x \notin DOMAIN c => mem'[x] = mem[x]
  BY DEF Over, c
<1>3. DOMAIN mem' = DOMAIN mem \cup (a .. a + n - 1)
  BY <1>1, <1>2
<1>4. Read(a, n)' = v
  <2>1. ASSUME NEW i \in 0 .. n - 1
        PROVE  a + i \in DOMAIN mem' /\ mem'[a + i] = <<v, i, n>>
    <3>1. a + i \in a .. a + n - 1 /\ (a + i) - a = i
      OBVIOUS
    <3> QED  BY <1>1, <1>2, <3>1
  <2>2. 0 \in 0 .. n - 1 /\ a + 0 = a
    OBVIOUS
  <2>3. mem'[a] = <<v, 0, n>>
    BY <2>1, <2>2
  <2>4. mem'[a][1] = v
    BY <2>3
  <2> QED  BY <2>1, <2>4 DEF Read
<1>5. ASSUME NEW b \in Int, NEW m \in {1, 4, 8}, b + m <= a \/ a + n <= b
      PROVE  Read(b, m)' = Read(b, m)
  <2>1. ASSUME NEW i \in 0 .. m - 1
        PROVE  /\ b + i \in DOMAIN mem' <=> b + i \in DOMAIN mem
               /\ b + i \in DOMAIN mem => mem'[b + i] = mem[b + i]
    <3>1. b + i \notin a .. a + n - 1
      BY <1>5
    <3> QED  BY <1>1, <1>2, <3>1
  <2>2. 0 \in 0 .. m - 1 /\ b + 0 = b
    OBVIOUS
  <2>3. (b \in DOMAIN mem' <=> b \in DOMAIN mem) /\ (b \in DOMAIN mem => mem'[b] = mem[b])
    BY <2>1, <2>2
  <2> DEFINE Whole == \A i \in 0 .. m - 1 : b + i \in DOMAIN mem /\ mem[b + i] = <<mem[b][1], i, m>>
             Whole2 == \A i \in 0 .. m - 1 : b + i \in DOMAIN mem' /\ mem'[b + i] = <<mem'[b][1], i, m>>
  <2>4. Whole2 <=> Whole
    <3>1. ASSUME Whole PROVE Whole2
      <4>1. b \in DOMAIN mem
        BY <2>2, <3>1
      <4> QED  BY <2>1, <2>3, <3>1, <4>1
    <3>2. ASSUME Whole2 PROVE Whole
      <4>1. b \in DOMAIN mem
        BY <2>2, <2>3, <3>2
      <4> QED  BY <2>1, <2>3, <3>2, <4>1
    <3> QED  BY <3>1, <3>2
  <2>5. Whole => mem'[b][1] = mem[b][1]
    BY <2>2, <2>3
  <2>6. Read(b, m) = IF Whole THEN mem[b][1] ELSE Undef
    BY DEF Read
  <2>7. Read(b, m)' = IF Whole2 THEN mem'[b][1] ELSE Undef
    BY DEF Read
  <2> HIDE DEF Whole, Whole2
  <2> QED  BY <2>4, <2>5, <2>6, <2>7
<1> QED  BY <1>3, <1>4, <1>5

(* A cell that is not there cannot be read.                                *)
LEMMA NotThere ==
    ASSUME NEW a \in Int, a \notin DOMAIN mem, NEW n \in {1, 4, 8}
    PROVE  Read(a, n) = Undef
<1>1. 0 \in 0 .. n - 1 /\ a + 0 = a
  OBVIOUS
<1> QED  BY <1>1 DEF Read

(* A read depends on the memory alone.                                     *)
LEMMA SameMemory ==
    ASSUME mem' = mem, NEW a, NEW n
    PROVE  Read(a, n)' = Read(a, n)
BY DEF Read

(* What the layout gives the machine: every slot is below the saved        *)
(* registers, inside the frame, and apart from every other.                *)
Width(d) == SizeOf(TypeOf(d))

Settled ==
    /\ frameSize \in Nat /\ frameSize >= Base /\ frameSize < Half
    /\ \A d \in Defs : HasSlot(d) =>
          /\ slot[d] \in Word32 /\ Width(d) \in {1, 4, 8}
          /\ -frameSize <= slot[d] /\ slot[d] + Width(d) <= -Base
          /\ \A e \in Defs : HasSlot(e) /\ e # d =>
                slot[e] + Width(e) <= slot[d] \/ slot[d] + Width(d) <= slot[e]

(* A frame that fits is settled once it is laid out.                       *)
LEMMA FrameSettled ==
    ASSUME FrameInv, Fits, phase # "allocate"
    PROVE  Settled
<1>1. FrameType /\ Packed /\ Framed /\ fn \in Functions
  BY DEF FrameInv, FrameType
<1>2. /\ placed = Args + Len(fn.code) /\ frameSize < Half /\ frameSize >= offset
      /\ offset >= Base /\ frameSize \in Int /\ offset \in Int
  BY <1>1 DEF Framed, Packed, FrameType
<1>3. Defs = 1 .. placed
  BY <1>2 DEF Defs
<1>4. frameSize \in Nat /\ frameSize >= Base /\ frameSize < Half
  BY <1>2 DEF Base
<1>5. ASSUME NEW d \in Defs, HasSlot(d)
      PROVE  /\ slot[d] \in Int /\ Width(d) \in {1, 4, 8} /\ AreaOf(d) \in Nat
             /\ Top(d) <= -Base /\ Bottom(d) >= -offset
             /\ \A e \in Defs : HasSlot(e) /\ e # d => Apart(d, e)
  BY <1>1, <1>3, <1>5, DefinitionTypes DEF Packed, Between, FrameType, Width
<1>6. ASSUME NEW d \in Defs, HasSlot(d)
      PROVE  /\ slot[d] \in Word32
             /\ -frameSize <= slot[d] /\ slot[d] + Width(d) <= -Base
  <2>1. /\ slot[d] \in Int /\ Width(d) \in {1, 4, 8} /\ AreaOf(d) \in Nat
        /\ slot[d] + Width(d) <= -Base /\ slot[d] - AreaOf(d) >= -offset
    BY <1>5, <1>6 DEF Top, Bottom, Width
  <2>2. Half \in Nat
    BY HalfAssumption
  <2> QED  BY <1>2, <2>1, <2>2 DEF Base, Word32
<1>7. ASSUME NEW d \in Defs, HasSlot(d), NEW e \in Defs, HasSlot(e), e # d
      PROVE  slot[e] + Width(e) <= slot[d] \/ slot[d] + Width(d) <= slot[e]
  <2>1. Top(e) <= Bottom(d) \/ Top(d) <= Bottom(e)
    BY <1>5, <1>7 DEF Apart
  <2>2. /\ slot[d] \in Int /\ AreaOf(d) \in Nat /\ Width(d) \in {1, 4, 8}
        /\ slot[e] \in Int /\ AreaOf(e) \in Nat /\ Width(e) \in {1, 4, 8}
    BY <1>5, <1>7
  <2> QED  BY <2>1, <2>2 DEF Top, Bottom, Width
<1>8. \A d \in Defs : HasSlot(d) => Width(d) \in {1, 4, 8}
  BY <1>5
<1> QED  BY <1>4, <1>6, <1>7, <1>8 DEF Settled

-----------------------------------------------------------------------------
(* Loading an operand: what its register holds before the k-th of the      *)
(* instructions, and after the last of them.                               *)
SlotValue(d) == Read(Frame0 + slot[d], Width(d))

OperandValue(o) ==
    IF o[1] = "const" THEN o[2] ELSE IF o[1] = "global" THEN GlobalAt(o[2])
    ELSE SlotValue(o[2])

NumberIn(o) == IF o[1] = "const" THEN o[2] ELSE IF o[1] = "global" THEN 0 ELSE slot[o[2]]

LoadLen(o) ==
    IF o[1] = "const" THEN IF FitsImm12(o[2]) THEN 1 ELSE 2
    ELSE IF o[1] = "global" THEN 1 ELSE AccessLen(slot[o[2]])

Loading(o, r, k) ==
    /\ k = LoadLen(o) + 1 => regs[r] = OperandValue(o)
    /\ k <= LoadLen(o) => Building(r, NumberIn(o), k)

(* Loads and stores of ints and pointers move as many bytes as a slot has. *)
LEMMA LoadWidths ==
    ASSUME NEW ty \in {"int", "ptr"}
    PROVE  /\ LoadOp(ty) \in {"ld.w", "ld.d"} /\ Bytes(LoadOp(ty)) = SizeOf(ty)
           /\ StoreOp(ty) \in {"st.w", "st.d"} /\ Bytes(StoreOp(ty)) = SizeOf(ty)
           /\ SizeOf(ty) \in {4, 8}
BY DEF LoadOp, StoreOp, Bytes, SizeOf

(* So do those of floats.                                                  *)
LEMMA FloatWidths ==
    /\ Bytes("fst.s") = SizeOf("float") /\ SizeOf("float") = 4 /\ SizeOf("int") = 4
    /\ Bytes("fld.s") = 4
BY DEF Bytes, SizeOf

(* The operands of the code there is.                                      *)
LEMMA OperandForms ==
    ASSUME Settled, NEW o, NEW ty \in {"int", "ptr"}, IsOperand(fn, o, ty)
    PROVE  \/ o[1] = "const" /\ o[2] \in Word32
           \/ o[1] = "global" /\ o[2] \in DOMAIN Globals
           \/ /\ o[1] = "def" /\ o[2] \in Defs /\ HasSlot(o[2]) /\ TypeOf(o[2]) = ty
              /\ slot[o[2]] \in Word32 /\ slot[o[2]] <= 0
<1>1. CASE o[1] = "def"
  <2>1. o[2] \in Defs /\ TypeOf(o[2]) = ty
    BY <1>1 DEF IsOperand, Defs, Args, TypeOf
  <2>2. HasSlot(o[2])
    BY <2>1 DEF HasSlot
  <2>3. slot[o[2]] \in Word32 /\ Width(o[2]) \in {1, 4, 8} /\ slot[o[2]] + Width(o[2]) <= -Base
    BY <2>1, <2>2 DEF Settled
  <2>4. slot[o[2]] <= 0
    BY <2>3, HalfAssumption DEF Base, Word32
  <2> QED  BY <1>1, <2>1, <2>2, <2>3, <2>4
<1> QED  BY <1>1 DEF IsOperand, Word32

(* The code of a load is straight, and as long as LoadLen says.            *)
LEMMA LoadCode ==
    ASSUME Settled, NEW o, NEW ty \in {"int", "ptr"}, IsOperand(fn, o, ty), NEW r
    PROVE  Listing(LoadToGreg(o, r)) /\ Len(LoadToGreg(o, r)) = LoadLen(o)
<1>1. CASE o[1] = "const" /\ o[2] \in Word32
  <2>1. CASE FitsImm12(o[2])
    <3>1. Straight(<<"addi.w", r, "zero", o[2]>>)
      BY DEF Straight
    <3>2. LoadToGreg(o, r) = <<<<"addi.w", r, "zero", o[2]>>>> /\ LoadLen(o) = 1
      BY <1>1, <2>1 DEF LoadToGreg, LoadLen
    <3> QED  BY <3>1, <3>2, ListOne
  <2>2. CASE ~FitsImm12(o[2])
    <3>1. LoadToGreg(o, r) = LargeInt32(o[2], r) /\ LoadLen(o) = 2
      BY <1>1, <2>2 DEF LoadToGreg, LoadLen
    <3> QED  BY <3>1, Int32Code
  <2> QED  BY <2>1, <2>2
<1>2. CASE o[1] = "global"
  <2>1. Straight(<<"la.local", r, o[2]>>)
    BY DEF Straight
  <2>2. LoadToGreg(o, r) = <<<<"la.local", r, o[2]>>>> /\ LoadLen(o) = 1
    BY <1>2 DEF LoadToGreg, LoadLen
  <2> QED  BY <2>1, <2>2, ListOne
<1>3. CASE o[1] = "def" /\ TypeOf(o[2]) = ty /\ slot[o[2]] \in Word32
  <2>1. LoadToGreg(o, r) = SlotAccess(LoadOp(ty), r, o[2], r) /\ LoadLen(o) = AccessLen(slot[o[2]])
    BY <1>3 DEF LoadToGreg, LoadLen, LoadFromStackToGreg
  <2>2. LoadOp(ty) \notin {"b", "label"}
    BY LoadWidths
  <2> QED  BY <1>3, <2>1, <2>2, SlotCode
<1> QED  BY <1>1, <1>2, <1>3, OperandForms

(* Each of its instructions brings the register closer to the operand.     *)
LEMMA LoadStep ==
    ASSUME Execute, DOMAIN regs = Registers, regs["fp"] = Frame0, regs["zero"] = 0,
           Settled, NEW o, NEW ty \in {"int", "ptr"}, IsOperand(fn, o, ty),
           NEW r \in Registers, NEW k \in 1 .. LoadLen(o),
           Ins = LoadToGreg(o, r)[k], Loading(o, r, k)
    PROVE  OnlySets(r) /\ Loading(o, r, k + 1)'
<1>1. UNCHANGED <<fn, slot>>
  BY Executed DEF frameVars
<1>2. LoadLen(o)' = LoadLen(o) /\ NumberIn(o)' = NumberIn(o)
  BY <1>1 DEF LoadLen, NumberIn
<1>3. mem' = mem => OperandValue(o)' = OperandValue(o)
  BY <1>1, SameMemory DEF OperandValue, SlotValue, Width, TypeOf, TypeIn, Read
<1>4. LoadLen(o) \in Nat
  BY DEF LoadLen, AccessLen
<1>5. CASE k = LoadLen(o)
  <2> SUFFICES OnlySets(r) /\ regs'[r] = OperandValue(o)
    BY <1>2, <1>3, <1>4, <1>5 DEF Loading, OnlySets
  <2>1. CASE o[1] = "const" /\ o[2] \in Word32
    <3>1. OperandValue(o) = o[2] /\ NumberIn(o) = o[2]
      BY <2>1 DEF OperandValue, NumberIn
    <3>2. CASE FitsImm12(o[2])
      <4>1. k = 1 /\ LoadToGreg(o, r) = <<<<"addi.w", r, "zero", o[2]>>>>
        BY <1>5, <2>1, <3>2 DEF LoadToGreg, LoadLen
      <4>2. Ins = <<"addi.w", r, "zero", o[2]>>
        BY <4>1
      <4>3. Sets(r, Signed(0 + o[2], Word))
        BY <4>2, ExecutedImmediate
      <4>4. Sets(r, o[2])
        BY <2>1, <4>3, BuiltValues
      <4> QED  BY <3>1, <4>4, SetsOne
    <3>3. CASE ~FitsImm12(o[2])
      <4>1. k = 2 /\ LoadToGreg(o, r) = LargeInt32(o[2], r)
        BY <1>5, <2>1, <3>3 DEF LoadToGreg, LoadLen
      <4>2. Building(r, o[2], k)
        BY <1>5, <3>1 DEF Loading
      <4> DEFINE n == o[2]
      <4>3. n \in Word32 /\ Ins = LargeInt32(n, r)[k] /\ Building(r, n, k) /\ k \in 1 .. 2
        BY <2>1, <4>1, <4>2
      <4> HIDE DEF n
      <4>4. OnlySets(r) /\ Building(r, n, k + 1)'
        BY <4>3, BuildIntStep
      <4>5. regs'[r] = n
        BY <4>1, <4>4 DEF Building
      <4> QED  BY <3>1, <4>4, <4>5 DEF n
    <3> QED  BY <3>2, <3>3
  <2>2. CASE o[1] = "global"
    <3>1. k = 1 /\ LoadToGreg(o, r) = <<<<"la.local", r, o[2]>>>>
      BY <1>5, <2>2 DEF LoadToGreg, LoadLen
    <3>2. Ins = <<"la.local", r, o[2]>>
      BY <3>1
    <3>3. Sets(r, GlobalAt(o[2]))
      BY <3>2, ExecutedImmediate
    <3> QED  BY <2>2, <3>3, SetsOne DEF OperandValue
  <2>3. CASE /\ o[1] = "def" /\ o[2] \in Defs /\ HasSlot(o[2]) /\ TypeOf(o[2]) = ty
             /\ slot[o[2]] \in Word32 /\ slot[o[2]] <= 0
    <3>1. PICK n : n = slot[o[2]]
      OBVIOUS
    <3>2. LoadToGreg(o, r) = SlotAccess(LoadOp(ty), r, o[2], r) /\ LoadLen(o) = AccessLen(n)
      BY <2>3, <3>1 DEF LoadToGreg, LoadLen, LoadFromStackToGreg
    <3>3. Building(r, n, k)
      BY <1>5, <2>3, <3>1 DEF Loading, NumberIn
    <3>4. LoadOp(ty) \in {"ld.w", "ld.d"} /\ Bytes(LoadOp(ty)) = Width(o[2])
      BY <2>3, LoadWidths DEF Width
    <3>5. Ins[1] = LoadOp(ty) /\ Ins[2] = r /\ regs[Ins[3]] + Ins[4] = Frame0 + n
      <4>1. /\ LoadOp(ty) \notin {"b", "label"} /\ n \in Word32 /\ n <= 0 /\ slot[o[2]] = n
            /\ Ins = SlotAccess(LoadOp(ty), r, o[2], r)[k]
            /\ k \in 1 .. AccessLen(n) /\ k = AccessLen(n)
        BY <1>5, <2>3, <3>1, <3>2, <3>4
      <4> QED  BY <3>3, <4>1, AccessStep
    <3>6. Sets(r, Read(Frame0 + n, Width(o[2])))
      BY <3>4, <3>5, ExecutedMemory
    <3>7. OperandValue(o) = Read(Frame0 + n, Width(o[2]))
      BY <2>3, <3>1 DEF OperandValue, SlotValue
    <3> QED  BY <3>6, <3>7, SetsOne
  <2> QED  BY <2>1, <2>2, <2>3, OperandForms
<1>6. CASE k # LoadLen(o)
  <2>1. k < LoadLen(o) /\ k + 1 <= LoadLen(o) /\ k + 1 # LoadLen(o) + 1
    BY <1>4, <1>6
  <2>2. PICK n : n = NumberIn(o)
    OBVIOUS
  <2> SUFFICES OnlySets(r) /\ Building(r, n, k + 1)'
    BY <1>2, <2>1, <2>2 DEF Loading, Building
  <2>3. Building(r, n, k)
    BY <1>4, <2>1, <2>2 DEF Loading
  <2>4. CASE o[1] = "const" /\ o[2] \in Word32
    <3>1. k \in 1 .. 2 /\ LoadToGreg(o, r) = LargeInt32(n, r) /\ n \in Word32
      BY <2>1, <2>2, <2>4 DEF LoadToGreg, LoadLen, NumberIn
    <3> QED  BY <2>3, <3>1, BuildIntStep
  <2>5. CASE o[1] = "global"
    BY <2>1, <2>5 DEF LoadLen
  <2>6. CASE /\ o[1] = "def" /\ o[2] \in Defs /\ HasSlot(o[2]) /\ TypeOf(o[2]) = ty
             /\ slot[o[2]] \in Word32 /\ slot[o[2]] <= 0
    <3>1. n = slot[o[2]] /\ LoadLen(o) = AccessLen(n)
      BY <2>2, <2>6 DEF NumberIn, LoadLen
    <3>2. LoadToGreg(o, r) = SlotAccess(LoadOp(ty), r, o[2], r)
      BY <2>6 DEF LoadToGreg, LoadFromStackToGreg
    <3>3. LoadOp(ty) \notin {"b", "label"}
      BY LoadWidths
    <3>4. /\ n \in Word32 /\ n <= 0 /\ slot[o[2]] = n /\ k \in 1 .. AccessLen(n) /\ k < AccessLen(n)
          /\ Ins = SlotAccess(LoadOp(ty), r, o[2], r)[k]
      BY <2>1, <2>6, <3>1, <3>2
    <3> QED  BY <2>3, <3>3, <3>4, AccessStep
  <2> QED  BY <2>4, <2>5, <2>6, OperandForms
<1> QED  BY <1>5, <1>6

-----------------------------------------------------------------------------
(* The pieces a function is emitted in: the saving of the registers, the   *)
(* stores of the arguments, and the code of each instruction.              *)
SaveCode ==
    IF FitsImm12(-AsInt(frameSize))
    THEN <<<<"st.d", "ra", "sp", -8>>, <<"st.d", "fp", "sp", -16>>,
           <<"addi.d", "fp", "sp", 0>>, <<"addi.d", "sp", "sp", -AsInt(frameSize)>>>>
    ELSE LargeInt64(frameSize, "t0")
         \o <<<<"st.d", "ra", "sp", -8>>, <<"st.d", "fp", "sp", -16>>,
              <<"sub.d", "sp", "sp", "t0">>, <<"add.d", "fp", "sp", "t0">>>>

Rank(d) == Cardinality(Those(IsFloatArg(d), d))
ArgCode(d) ==
    IF IsFloatArg(d) THEN StoreFromFreg(d, FloatArgReg[Rank(d)])
    ELSE StoreFromGreg(d, ArgReg[Rank(d)])

BinaryCode(ins, d) ==
    LoadToGreg(ins.ops[1], "t0") \o LoadToGreg(ins.ops[2], "t1")
    \o <<<<MachineOp(ins.op), "t2", "t0", "t1">>>> \o StoreFromGreg(d, "t2")

FloatLoadCode(ins, d) ==
    LoadToGreg(ins.ops[1], "t0") \o <<<<"fld.s", "ft0", "t0", 0>>>> \o StoreFromFreg(d, "ft0")

CodeFor(ins, d) ==
    IF ins.op = "label" THEN <<<<"label", ins.ops[1]>>>>
    ELSE IF ins.op = "br" THEN <<<<"b", ins.ops[1]>>>>
    ELSE IF ins.op \in Arithmetic THEN BinaryCode(ins, d)
    ELSE IF ins.op = "load" /\ ins.ty = "float" THEN FloatLoadCode(ins, d)
    ELSE IF ins.op = "load" THEN LoadToGreg(ins.ops[1], "t0") ELSE << >>

PieceCode(p) ==
    IF p = 0 THEN SaveCode ELSE IF p <= Args THEN ArgCode(p)
    ELSE CodeFor(fn.code[p - Args], p)

PieceFrom(p) == IF p <= Args THEN 0 ELSE p - Args

(* How many of them there are so far.                                      *)
Pieces ==
    IF phase = "gen" THEN Args + at
    ELSE IF phase = "run" /\ at # 0 THEN Args + at + 1 ELSE gargs + fargs + 1

IsSeq(s) == \E S : s \in Seq(S)

(* The output is these pieces, one after the other: each instruction is    *)
(* some step of some piece, and the next one is the next step of it or the *)
(* first step of the next piece that is not empty.                         *)
InPiece(o, n, piece, step, k) ==
    /\ piece[k] \in 0 .. n - 1 /\ step[k] \in 1 .. Len(PieceCode(piece[k]))
    /\ o[k].from = PieceFrom(piece[k])
    /\ o[k].ins = PieceCode(piece[k])[step[k]]

EmptyBetween(p, q) == \A r \in p + 1 .. q - 1 : Len(PieceCode(r)) = 0

Onwards(o, n, piece, step, k) ==
    /\ step[k] < Len(PieceCode(piece[k])) =>
          k < Len(o) /\ piece[k + 1] = piece[k] /\ step[k + 1] = step[k] + 1
    /\ step[k] = Len(PieceCode(piece[k])) =>
          /\ k = Len(o) => EmptyBetween(piece[k], n)
          /\ k < Len(o) => /\ piece[k + 1] > piece[k] /\ step[k + 1] = 1
                           /\ EmptyBetween(piece[k], piece[k + 1])

Laid(o, n, piece, step) ==
    /\ IsSeq(o)
    /\ \A k \in 1 .. Len(o) :
          InPiece(o, n, piece, step, k) /\ Onwards(o, n, piece, step, k)
    /\ Len(o) > 0 => piece[1] = 0 /\ step[1] = 1
    /\ n > 0 => Len(o) > 0

(* The pieces depend on the function and its frame alone.                  *)
LEMMA SameCode ==
    ASSUME UNCHANGED <<fn, slot, frameSize>>
    PROVE  /\ Args' = Args
           /\ \A p : PieceCode(p)' = PieceCode(p) /\ PieceFrom(p)' = PieceFrom(p)
<1>1. /\ Args' = Args /\ SaveCode' = SaveCode
      /\ \A d : IsFloatArg(d)' = IsFloatArg(d) /\ TypeOf(d)' = TypeOf(d)
      /\ \A d : slot[d]' = slot[d]
  BY DEF Args, SaveCode, IsFloatArg, TypeOf, TypeIn
<1>2. \A d : Rank(d)' = Rank(d)
  BY <1>1 DEF Rank, Those
<1>3. \A op, r, d, addr : SlotAccess(op, r, d, addr)' = SlotAccess(op, r, d, addr)
  BY <1>1 DEF SlotAccess
<1>4. \A d, r : /\ StoreFromFreg(d, r)' = StoreFromFreg(d, r)
                /\ StoreFromGreg(d, r)' = StoreFromGreg(d, r)
                /\ LoadFromStackToGreg(d, r)' = LoadFromStackToGreg(d, r)
  BY <1>1, <1>3 DEF StoreFromFreg, StoreFromGreg, LoadFromStackToGreg
<1>5. \A d : ArgCode(d)' = ArgCode(d)
  BY <1>1, <1>2, <1>4 DEF ArgCode
<1>6. \A o, r : LoadToGreg(o, r)' = LoadToGreg(o, r)
  BY <1>4 DEF LoadToGreg
<1>7. \A ins, d : CodeFor(ins, d)' = CodeFor(ins, d)
  BY <1>4, <1>6 DEF CodeFor, BinaryCode, FloatLoadCode
<1> QED  BY <1>1, <1>5, <1>7 DEF PieceCode, PieceFrom

(* So does the layout of an output.                                        *)
LEMMA SameLaid ==
    ASSUME UNCHANGED <<fn, slot, frameSize>>, NEW o, NEW n, NEW piece, NEW step
    PROVE  Laid(o, n, piece, step)' <=> Laid(o, n, piece, step)
BY SameCode DEF Laid, InPiece, Onwards, EmptyBetween

(* Nothing has been emitted yet.                                           *)
LEMMA NoneLaid == Laid(<< >>, 0, << >>, << >>)
<1>1. IsSeq(<< >>)
  <2>1. << >> \in Seq({})
    OBVIOUS
  <2> QED  BY <2>1 DEF IsSeq
<1>2. Len(<< >>) = 0
  OBVIOUS
<1> QED  BY <1>1, <1>2 DEF Laid

(* A piece is added.                                                       *)
LEMMA LaidOn ==
    ASSUME NEW o, NEW n \in Nat, NEW piece, NEW step, Laid(o, n, piece, step),
           IsSeq(PieceCode(n)), n = 0 => PieceCode(n) # << >>,
           n = 0 => o = << >>,
           NEW s, s = o \o Tagged(PieceFrom(n), PieceCode(n))
    PROVE  \E piece2, step2 : Laid(s, n + 1, piece2, step2)
<1> DEFINE code == PieceCode(n)
           from == PieceFrom(n)
           t == Tagged(from, code)
           a == Len(o)
           b == Len(code)
<1>1. PICK S : o \in Seq(S)
  BY DEF Laid, IsSeq
<1>2. PICK T : code \in Seq(T)
  BY DEF IsSeq
<1>3. DOMAIN code = 1 .. b /\ b \in Nat /\ \A i \in 1 .. b : code[i] \in T
  BY <1>2, LenProperties, ElementOfSeq
<1> DEFINE R == {[from |-> from, ins |-> x] : x \in T}
           U == S \cup R
<1>4. t \in Seq(R) /\ Len(t) = b /\ \A i \in 1 .. b : t[i] = [from |-> from, ins |-> code[i]]
  <2>1. t \in [1 .. b -> R] /\ \A i \in 1 .. b : t[i] = [from |-> from, ins |-> code[i]]
    BY <1>3 DEF Tagged
  <2>2. PICK m \in Nat : m = b
    BY <1>3
  <2>3. PICK w : w = t
    OBVIOUS
  <2>4. PICK Q : Q = R
    OBVIOUS
  <2>5. w \in [1 .. m -> Q]
    BY <2>1, <2>2, <2>3, <2>4
  <2> HIDE DEF t, R, b
  <2>6. w \in Seq(Q) /\ Len(w) = m
    BY <2>5
  <2> QED  BY <2>1, <2>2, <2>3, <2>4, <2>6
<1> HIDE DEF R, U
<1>5. o \in Seq(U) /\ t \in Seq(U)
  BY <1>1, <1>4 DEF U
<1> HIDE DEF t, code, from
<1>6. s = o \o t
  BY DEF t, code, from
<1>7. /\ IsSeq(s) /\ Len(s) = Len(o) + Len(t) /\ Len(o) \in Nat
      /\ \A i \in 1 .. Len(o) + Len(t) : s[i] = IF i <= Len(o) THEN o[i] ELSE t[i - Len(o)]
  BY <1>5, <1>6, ConcatProperties, LenProperties DEF IsSeq
<1>8. /\ Len(s) = a + b /\ a \in Nat /\ b \in Nat
      /\ \A i \in 1 .. a + b : s[i] = IF i <= a THEN o[i] ELSE t[i - a]
  BY <1>3, <1>4, <1>7
<1>9. /\ b = 0 <=> code = << >>
  BY <1>2, EmptySeq
<1>10. /\ \A k \in 1 .. a : InPiece(o, n, piece, step, k) /\ Onwards(o, n, piece, step, k)
       /\ a > 0 => piece[1] = 0 /\ step[1] = 1
       /\ n > 0 => a > 0
  BY DEF Laid
<1>11. n = 0 => a = 0 /\ b > 0
  <2>1. ASSUME n = 0 PROVE a = 0 /\ b > 0
    <3>1. o = << >>
      BY <2>1
    <3>2. a = 0
      BY <3>1
    <3>3. code # << >>
      BY <2>1 DEF code
    <3> QED  BY <1>3, <1>9, <3>2, <3>3
  <2> QED  BY <2>1
<1> HIDE DEF a, b
<1> DEFINE piece2 == [k \in 1 .. a + b |-> IF k <= a THEN piece[k] ELSE n]
           step2 == [k \in 1 .. a + b |-> IF k <= a THEN step[k] ELSE k - a]
<1>12. /\ \A k \in 1 .. a : /\ k \in 1 .. a + b /\ s[k] = o[k]
                            /\ piece2[k] = piece[k] /\ step2[k] = step[k]
       /\ \A j \in 1 .. b : /\ a + j \in 1 .. a + b /\ s[a + j] = t[j]
                            /\ piece2[a + j] = n /\ step2[a + j] = j
  <2>1. ASSUME NEW k \in 1 .. a
        PROVE  k \in 1 .. a + b /\ k <= a
    BY <1>8
  <2>2. ASSUME NEW j \in 1 .. b
        PROVE  a + j \in 1 .. a + b /\ ~(a + j <= a) /\ (a + j) - a = j
    BY <1>8
  <2> QED  BY <1>8, <2>1, <2>2
<1>13. \A k \in 1 .. a + b : k \in 1 .. a \/ \E j \in 1 .. b : k = a + j
  <2> TAKE k \in 1 .. a + b
  <2>1. CASE k <= a
    BY <1>8, <2>1
  <2>2. CASE k > a
    <3>1. k - a \in 1 .. b /\ k = a + (k - a)
      BY <1>8, <2>2
    <3> QED  BY <3>1
  <2> QED  BY <1>8, <2>1, <2>2
<1> HIDE DEF piece2, step2
<1>14. ASSUME NEW k \in 1 .. a
       PROVE  InPiece(s, n + 1, piece2, step2, k) /\ Onwards(s, n + 1, piece2, step2, k)
  <2>1. /\ InPiece(o, n, piece, step, k) /\ Onwards(o, n, piece, step, k)
        /\ s[k] = o[k] /\ piece2[k] = piece[k] /\ step2[k] = step[k]
    BY <1>10, <1>12
  <2>2. piece[k] \in 0 .. n - 1 /\ piece[k] \in 0 .. (n + 1) - 1
    BY <2>1 DEF InPiece
  <2>3. InPiece(s, n + 1, piece2, step2, k)
    BY <2>1, <2>2 DEF InPiece
  <2>4. CASE k < a
    <3>1. k + 1 \in 1 .. a /\ k < a + b
      BY <1>8, <2>4
    <3>2. piece2[k + 1] = piece[k + 1] /\ step2[k + 1] = step[k + 1]
      BY <1>12, <3>1
    <3>3. k < Len(o) /\ k # Len(o) /\ k < Len(s) /\ k # Len(s)
      BY <1>8, <2>4, <3>1 DEF a
    <3> QED  BY <2>1, <2>3, <3>2, <3>3 DEF Onwards
  <2>5. CASE k = a
    <3>1. ~(k < Len(o)) /\ k = Len(o)
      BY <1>8, <2>5 DEF a
    <3>2. /\ ~(step[k] < Len(PieceCode(piece[k])))
          /\ step[k] = Len(PieceCode(piece[k])) => EmptyBetween(piece[k], n)
      BY <2>1, <3>1 DEF Onwards
    <3>3. CASE b = 0
      <4>1. k = Len(s) /\ ~(k < Len(s))
        BY <1>8, <2>5, <3>3
      <4>2. EmptyBetween(piece[k], n) => EmptyBetween(piece[k], n + 1)
        <5>1. ASSUME EmptyBetween(piece[k], n), NEW r \in piece[k] + 1 .. (n + 1) - 1
              PROVE  Len(PieceCode(r)) = 0
          <6>1. CASE r = n
            BY <3>3, <6>1 DEF b, code
          <6>2. CASE r # n
            <7>1. r \in piece[k] + 1 .. n - 1
              BY <2>2, <5>1, <6>2
            <7> QED  BY <5>1, <7>1 DEF EmptyBetween
          <6> QED  BY <6>1, <6>2
        <5> QED  BY <5>1 DEF EmptyBetween
      <4> QED  BY <2>1, <2>3, <3>2, <4>1, <4>2 DEF Onwards
    <3>4. CASE b > 0
      <4>1. 1 \in 1 .. b /\ k + 1 = a + 1 /\ k < Len(s) /\ k # Len(s)
        BY <1>8, <2>5, <3>4
      <4>2. piece2[k + 1] = n /\ step2[k + 1] = 1
        BY <1>12, <4>1
      <4>3. n > piece[k]
        BY <2>2
      <4> QED  BY <2>1, <2>3, <3>2, <4>1, <4>2, <4>3 DEF Onwards
    <3> QED  BY <1>8, <3>3, <3>4
  <2> QED  BY <1>8, <2>3, <2>4, <2>5
<1>15. ASSUME NEW j \in 1 .. b, NEW k, k = a + j
       PROVE  InPiece(s, n + 1, piece2, step2, k) /\ Onwards(s, n + 1, piece2, step2, k)
  <2>1. /\ piece2[k] = n /\ step2[k] = j /\ s[k] = [from |-> from, ins |-> code[j]]
        /\ n \in 0 .. (n + 1) - 1
    <3>1. n \in 0 .. (n + 1) - 1
      OBVIOUS
    <3>2. /\ piece2[a + j] = n /\ step2[a + j] = j /\ s[a + j] = t[j]
      BY <1>12
    <3>3. t[j] = [from |-> from, ins |-> code[j]]
      BY <1>4
    <3> QED  BY <1>15, <3>1, <3>2, <3>3
  <2>2. PieceCode(n) = code /\ PieceFrom(n) = from /\ Len(code) = b
    BY DEF code, from, b
  <2>3. InPiece(s, n + 1, piece2, step2, k)
    BY <2>1, <2>2 DEF InPiece
  <2>4. CASE j < b
    <3>1. j + 1 \in 1 .. b /\ k + 1 = a + (j + 1) /\ k < Len(s)
      BY <1>8, <1>15, <2>4
    <3>2. piece2[k + 1] = n /\ step2[k + 1] = j + 1
      BY <1>12, <3>1
    <3>3. j # b
      BY <1>8, <2>4
    <3> QED  BY <2>1, <2>2, <2>3, <3>1, <3>2, <3>3 DEF Onwards
  <2>5. CASE j = b
    <3>1. k = Len(s) /\ ~(k < Len(s)) /\ ~(j < b)
      BY <1>8, <1>15, <2>5
    <3>2. EmptyBetween(n, n + 1)
      BY DEF EmptyBetween
    <3> QED  BY <2>1, <2>2, <2>3, <2>5, <3>1, <3>2 DEF Onwards
  <2> QED  BY <1>8, <2>3, <2>4, <2>5
<1>16. a + b > 0 => piece2[1] = 0 /\ step2[1] = 1
  <2>1. CASE a > 0
    <3>1. 1 \in 1 .. a
      BY <1>8, <2>1
    <3> QED  BY <1>10, <1>12, <2>1, <3>1
  <2>2. CASE a = 0 /\ b > 0
    <3>1. n = 0 /\ 1 \in 1 .. b /\ a + 1 = 1
      BY <1>8, <1>10, <2>2
    <3> QED  BY <1>12, <3>1
  <2> QED  BY <1>8, <2>1, <2>2
<1>17. a + b > 0
  BY <1>8, <1>10, <1>11
<1>18. Laid(s, n + 1, piece2, step2)
  BY <1>7, <1>8, <1>13, <1>14, <1>15, <1>16, <1>17 DEF Laid
<1> QED  BY <1>18

(* Two pieces of code with an instruction between them, and a third.       *)
Segments(s, a, b, x, c) ==
    /\ Len(s) = Len(a) + Len(b) + 1 + Len(c)
    /\ \A k \in 1 .. Len(a) : s[k] = a[k]
    /\ \A k \in 1 .. Len(b) : s[Len(a) + k] = b[k]
    /\ s[Len(a) + Len(b) + 1] = x
    /\ \A k \in 1 .. Len(c) : s[Len(a) + Len(b) + 1 + k] = c[k]

(* The concatenations GenBinary and GenLoad emit.                          *)
LEMMA JoinFour ==
    ASSUME NEW a, NEW b, NEW x, NEW c, Listing(a), Listing(b), Straight(x), Listing(c)
    PROVE  Listing(a \o b \o <<x>> \o c) /\ Segments(a \o b \o <<x>> \o c, a, b, x, c)
<1> DEFINE y == <<x>>
           t == a \o b
           u == t \o y
           s == u \o c
<1>1. Listing(y) /\ Len(y) = 1 /\ y[1] = x
  BY ListOne
<1> HIDE DEF y
<1>2. /\ Listing(t) /\ Len(t) = Len(a) + Len(b)
      /\ \A k \in 1 .. Len(a) : t[k] = a[k]
      /\ \A k \in 1 .. Len(b) : t[Len(a) + k] = b[k]
  BY ListConcat
<1> HIDE DEF t
<1>3. Listing(t) /\ Listing(y)
  BY <1>1, <1>2
<1>4. /\ Listing(u) /\ Len(u) = Len(t) + Len(y)
      /\ \A k \in 1 .. Len(t) : u[k] = t[k]
      /\ \A k \in 1 .. Len(y) : u[Len(t) + k] = y[k]
  BY <1>3, ListConcat
<1> HIDE DEF u
<1>5. Listing(u) /\ Listing(c)
  BY <1>4
<1>6. /\ Listing(s) /\ Len(s) = Len(u) + Len(c)
      /\ \A k \in 1 .. Len(u) : s[k] = u[k]
      /\ \A k \in 1 .. Len(c) : s[Len(u) + k] = c[k]
  BY <1>5, ListConcat
<1> HIDE DEF s
<1> DEFINE la == Len(a)
           lb == Len(b)
           lc == Len(c)
<1>7. la \in Nat /\ lb \in Nat /\ lc \in Nat
  BY ListLen
<1>8. /\ Len(t) = la + lb /\ Len(u) = la + lb + 1 /\ Len(s) = la + lb + 1 + lc
      /\ \A k \in 1 .. la : t[k] = a[k]
      /\ \A k \in 1 .. lb : t[la + k] = b[k]
      /\ \A k \in 1 .. la + lb : u[k] = t[k]
      /\ \A k \in 1 .. la + lb + 1 : s[k] = u[k]
      /\ \A k \in 1 .. lc : s[la + lb + 1 + k] = c[k]
  BY <1>1, <1>2, <1>4, <1>6
<1>9. u[la + lb + 1] = x
  <2>1. 1 \in 1 .. Len(y) /\ Len(t) = la + lb
    BY <1>1, <1>8
  <2>2. u[Len(t) + 1] = y[1]
    BY <1>4, <2>1
  <2> QED  BY <1>1, <2>1, <2>2
<1> HIDE DEF la, lb, lc
<1>10. \A k \in 1 .. la : s[k] = a[k]
  <2> TAKE k \in 1 .. la
  <2>1. k \in 1 .. la + lb /\ k \in 1 .. la + lb + 1
    BY <1>7
  <2> QED  BY <1>8, <2>1
<1>11. \A k \in 1 .. lb : s[la + k] = b[k]
  <2> TAKE k \in 1 .. lb
  <2>1. la + k \in 1 .. la + lb /\ la + k \in 1 .. la + lb + 1
    BY <1>7
  <2> QED  BY <1>8, <2>1
<1>12. s[la + lb + 1] = x
  <2>1. la + lb + 1 \in 1 .. la + lb + 1
    BY <1>7
  <2> QED  BY <1>8, <1>9, <2>1
<1>13. Segments(s, a, b, x, c)
  BY <1>8, <1>10, <1>11, <1>12 DEF Segments, la, lb, lc
<1>14. s = a \o b \o <<x>> \o c
  BY DEF s, u, t, y
<1> QED  BY <1>6, <1>13, <1>14

(* Without the second piece.                                               *)
LEMMA JoinThree ==
    ASSUME NEW a, NEW x, NEW c, Listing(a), Straight(x), Listing(c)
    PROVE  /\ Listing(a \o <<x>> \o c)
           /\ Segments(a \o <<x>> \o c, a, << >>, x, c)
<1> DEFINE none == << >>
<1>1. Listing(none)
  BY ListNone
<1>2. PICK S : a \in Seq(S)
  BY DEF Listing
<1>3. a \o none = a
  BY <1>2, ConcatEmptySeq
<1> HIDE DEF none
<1>4. /\ Listing(a \o none \o <<x>> \o c)
      /\ Segments(a \o none \o <<x>> \o c, a, none, x, c)
  BY <1>1, JoinFour
<1> QED  BY <1>3, <1>4 DEF none

-----------------------------------------------------------------------------
(* The saving of the registers: four instructions, after the four that     *)
(* build a large frame size.                                               *)
SaveAt(n) == IF FitsImm12(-n) THEN 0 ELSE 4

SaveOf(s, n) ==
    /\ Len(s) = SaveAt(n) + 4
    /\ s[SaveAt(n) + 1] = <<"st.d", "ra", "sp", -8>>
    /\ s[SaveAt(n) + 2] = <<"st.d", "fp", "sp", -16>>
    /\ FitsImm12(-n) => /\ s[3] = <<"addi.d", "fp", "sp", 0>>
                        /\ s[4] = <<"addi.d", "sp", "sp", -n>>
    /\ ~FitsImm12(-n) => /\ \A k \in 1 .. 4 : s[k] = LargeInt64(n, "t0")[k]
                         /\ s[7] = <<"sub.d", "sp", "sp", "t0">>
                         /\ s[8] = <<"add.d", "fp", "sp", "t0">>

(* The prologue is straight code of that form.                             *)
LEMMA SaveListed ==
    ASSUME NEW n \in Nat, n < Half, frameSize = n
    PROVE  Listing(SaveCode) /\ SaveOf(SaveCode, n)
<1> DEFINE x == <<"st.d", "ra", "sp", -8>>
           y == <<"st.d", "fp", "sp", -16>>
           z == <<"addi.d", "fp", "sp", 0>>
           w == <<"addi.d", "sp", "sp", -n>>
           u == <<"sub.d", "sp", "sp", "t0">>
           v == <<"add.d", "fp", "sp", "t0">>
           l == LargeInt64(n, "t0")
<1>1. AsInt(frameSize) = n /\ n \in Word32
  BY HalfAssumption DEF AsInt, Word32
<1>2. SaveCode = IF FitsImm12(-n) THEN <<x, y, z, w>> ELSE l \o <<x, y, u, v>>
  BY <1>1 DEF SaveCode
<1>3. Straight(x) /\ Straight(y) /\ Straight(z) /\ Straight(w) /\ Straight(u) /\ Straight(v)
  BY DEF Straight
<1>4. Listing(l) /\ Len(l) = 4
  BY <1>1, Int64Code
<1> HIDE DEF x, y, z, w, u, v, l
<1>5. CASE FitsImm12(-n)
  <2> DEFINE s == <<x, y, z, w>>
  <2>1. Listing(s) /\ Len(s) = 4 /\ s[1] = x /\ s[2] = y /\ s[3] = z /\ s[4] = w
    BY <1>3, ListFour
  <2>2. SaveCode = s /\ SaveAt(n) = 0
    BY <1>2, <1>5 DEF SaveAt
  <2> HIDE DEF s
  <2>3. SaveOf(s, n)
    BY <1>5, <2>1, <2>2 DEF SaveOf, x, y, z, w
  <2> QED  BY <2>1, <2>2, <2>3
<1>6. CASE ~FitsImm12(-n)
  <2> DEFINE t == <<x, y, u, v>>
             s == l \o t
  <2>1. Listing(t) /\ Len(t) = 4 /\ t[1] = x /\ t[2] = y /\ t[3] = u /\ t[4] = v
    BY <1>3, ListFour
  <2>2. SaveCode = s /\ SaveAt(n) = 4
    BY <1>2, <1>6 DEF SaveAt
  <2> HIDE DEF t
  <2>3. Listing(l) /\ Listing(t)
    BY <1>4, <2>1
  <2>4. /\ Listing(s) /\ Len(s) = Len(l) + Len(t)
        /\ \A k \in 1 .. Len(l) : s[k] = l[k]
        /\ \A k \in 1 .. Len(t) : s[Len(l) + k] = t[k]
    BY <2>3, ListConcat
  <2> HIDE DEF s
  <2>5. /\ Len(s) = 8 /\ \A k \in 1 .. 4 : s[k] = l[k]
        /\ s[5] = t[1] /\ s[6] = t[2] /\ s[7] = t[3] /\ s[8] = t[4]
    <3>1. /\ 1 \in 1 .. Len(t) /\ 2 \in 1 .. Len(t) /\ 3 \in 1 .. Len(t) /\ 4 \in 1 .. Len(t)
          /\ Len(l) + 1 = 5 /\ Len(l) + 2 = 6 /\ Len(l) + 3 = 7 /\ Len(l) + 4 = 8
          /\ Len(l) + Len(t) = 8
      BY <1>4, <2>1
    <3> QED  BY <1>4, <2>4, <3>1
  <2>6. /\ s[4 + 1] = x /\ s[4 + 2] = y /\ s[7] = u /\ s[8] = v /\ Len(s) = 4 + 4
    BY <2>1, <2>5
  <2>7. SaveOf(s, n)
    BY <1>6, <2>2, <2>5, <2>6 DEF SaveOf, x, y, u, v, l
  <2> QED  BY <2>2, <2>4, <2>7
<1> QED  BY <1>5, <1>6

(* A listing is a sequence.                                                *)
LEMMA ListingSeq == ASSUME NEW s, Listing(s) PROVE IsSeq(s)
BY DEF Listing, IsSeq

(* So is a single instruction, straight or not.                            *)
LEMMA OneSeq == ASSUME NEW x PROVE IsSeq(<<x>>) /\ Len(<<x>>) = 1 /\ <<x>>[1] = x
<1> DEFINE s == <<x>>
<1>1. s \in Seq({x}) /\ Len(s) = 1 /\ s[1] = x
  OBVIOUS
<1> HIDE DEF s
<1>2. IsSeq(s)
  BY <1>1 DEF IsSeq
<1> QED  BY <1>1, <1>2 DEF s

(* The code of a store, of an argument, of a binary operation and of a     *)
(* load of a float.                                                        *)
LEMMA StoreCode ==
    ASSUME Settled, NEW d \in Defs, HasSlot(d), NEW r
    PROVE  /\ Listing(StoreFromFreg(d, r)) /\ Len(StoreFromFreg(d, r)) = AccessLen(slot[d])
           /\ TypeOf(d) \in {"int", "ptr"} =>
                 Listing(StoreFromGreg(d, r)) /\ Len(StoreFromGreg(d, r)) = AccessLen(slot[d])
<1>1. slot[d] \in Word32
  BY DEF Settled
<1>2. "fst.s" \notin {"b", "label"}
  OBVIOUS
<1>3. TypeOf(d) \in {"int", "ptr"} => StoreOp(TypeOf(d)) \notin {"b", "label"}
  BY LoadWidths
<1> QED  BY <1>1, <1>2, <1>3, SlotCode DEF StoreFromFreg, StoreFromGreg

(* The store of an argument is one access.                                 *)
LEMMA ArgListed ==
    ASSUME FrameType, Settled, NEW d \in 1 .. Args
    PROVE  Listing(ArgCode(d)) /\ Len(ArgCode(d)) = AccessLen(slot[d])
<1>1. d \in Defs /\ TypeOf(d) \in {"int", "float", "ptr"}
  BY ArgTypes
<1>2. HasSlot(d) /\ (~IsFloatArg(d) => TypeOf(d) \in {"int", "ptr"})
  BY <1>1 DEF HasSlot, IsFloatArg
<1> QED  BY <1>1, <1>2, StoreCode DEF ArgCode

(* An instruction of the function and its definition.                      *)
LEMMA CodeTypes ==
    ASSUME FrameType, NEW i \in 1 .. Len(fn.code)
    PROVE  /\ Args + i \in Defs /\ ~(Args + i <= Args) /\ (Args + i) - Args = i
           /\ Args + i # 0 /\ Args \in Nat
           /\ TypeOf(Args + i) = fn.code[i].ty
           /\ fn.code[i].op \in Arithmetic =>
                 /\ fn.code[i].ty = "int"
                 /\ IsOperand(fn, fn.code[i].ops[1], "int")
                 /\ IsOperand(fn, fn.code[i].ops[2], "int")
           /\ fn.code[i].op = "load" => IsOperand(fn, fn.code[i].ops[1], "ptr")
           /\ fn.code[i].op = "load" /\ fn.code[i].ty = "float" =>
                 fn.code[i].ops[1][1] = "global" \/ \E j \in 1 .. i - 1 : Todo(j)
           /\ fn.code[i].op \in {"label", "br"} =>
                 fn.code[i].ops = <<fn.code[i].ops[1]>>
<1>1. fn \in Functions /\ Len(fn.args) \in Nat /\ Len(fn.code) \in Nat
  BY FunctionTypes DEF FrameType
<1>2. /\ Len(fn.args) + i \in 1 .. Len(fn.args) + Len(fn.code)
      /\ ~(Len(fn.args) + i <= Len(fn.args)) /\ (Len(fn.args) + i) - Len(fn.args) = i
      /\ Len(fn.args) + i # 0
  <2>1. \A a \in Nat : a + i # 0
    BY <1>1
  <2> QED  BY <1>1, <2>1, Numbered
<1>3. /\ Args + i \in Defs /\ ~(Args + i <= Args) /\ (Args + i) - Args = i
      /\ Args + i # 0 /\ Args \in Nat
  BY <1>1, <1>2 DEF Defs, Args
<1>4. TypeOf(Args + i) = fn.code[i].ty
  BY <1>2 DEF Args, TypeOf, TypeIn
<1> QED  BY <1>1, <1>3, <1>4, CodeAssumption DEF Todo

(* The code of a binary operation, in its segments.                        *)
LEMMA BinaryListed ==
    ASSUME FrameType, Settled, NEW i \in 1 .. Len(fn.code), fn.code[i].op \in Arithmetic,
           NEW ins, ins = fn.code[i]
    PROVE  /\ Listing(BinaryCode(ins, Args + i))
           /\ Segments(BinaryCode(ins, Args + i), LoadToGreg(ins.ops[1], "t0"),
                       LoadToGreg(ins.ops[2], "t1"), <<MachineOp(ins.op), "t2", "t0", "t1">>,
                       StoreFromGreg(Args + i, "t2"))
<1> DEFINE d == Args + i
           a == LoadToGreg(ins.ops[1], "t0")
           b == LoadToGreg(ins.ops[2], "t1")
           x == <<MachineOp(ins.op), "t2", "t0", "t1">>
           c == StoreFromGreg(d, "t2")
<1>1. /\ d \in Defs /\ TypeOf(d) = "int"
      /\ IsOperand(fn, ins.ops[1], "int") /\ IsOperand(fn, ins.ops[2], "int")
  BY CodeTypes
<1>2. HasSlot(d)
  BY <1>1 DEF HasSlot
<1>3. Listing(a) /\ Listing(b)
  BY <1>1, LoadCode
<1>4. Listing(c)
  BY <1>1, <1>2, StoreCode
<1>5. Straight(x)
  BY DEF Straight, MachineOp, Arithmetic
<1> HIDE DEF a, b, x, c
<1>6. Listing(a \o b \o <<x>> \o c) /\ Segments(a \o b \o <<x>> \o c, a, b, x, c)
  BY <1>3, <1>4, <1>5, JoinFour
<1> QED  BY <1>6 DEF a, b, x, c, d, BinaryCode

(* The code of a load of a float, in its segments.                         *)
LEMMA FloatLoadListed ==
    ASSUME FrameType, Settled, NEW i \in 1 .. Len(fn.code), fn.code[i].op = "load",
           fn.code[i].ty = "float", NEW ins, ins = fn.code[i]
    PROVE  /\ Listing(FloatLoadCode(ins, Args + i))
           /\ Segments(FloatLoadCode(ins, Args + i), LoadToGreg(ins.ops[1], "t0"), << >>,
                       <<"fld.s", "ft0", "t0", 0>>, StoreFromFreg(Args + i, "ft0"))
<1> DEFINE d == Args + i
           a == LoadToGreg(ins.ops[1], "t0")
           x == <<"fld.s", "ft0", "t0", 0>>
           c == StoreFromFreg(d, "ft0")
<1>1. /\ d \in Defs /\ TypeOf(d) = "float" /\ IsOperand(fn, ins.ops[1], "ptr")
  BY CodeTypes
<1>2. HasSlot(d)
  BY <1>1 DEF HasSlot
<1>3. Listing(a)
  BY <1>1, LoadCode
<1>4. Listing(c)
  BY <1>1, <1>2, StoreCode
<1>5. Straight(x)
  BY DEF Straight
<1> HIDE DEF a, x, c
<1>6. Listing(a \o <<x>> \o c) /\ Segments(a \o <<x>> \o c, a, << >>, x, c)
  BY <1>3, <1>4, <1>5, JoinThree
<1> QED  BY <1>6 DEF a, x, c, d, FloatLoadCode

(* Every piece is a sequence, and only labels and jumps are not straight.  *)
LEMMA CodeForSeq ==
    ASSUME FrameType, Settled, NEW i \in 1 .. Len(fn.code), NEW ins, ins = fn.code[i]
    PROVE  /\ IsSeq(CodeFor(ins, Args + i))
           /\ ins.op \notin {"label", "br"} => Listing(CodeFor(ins, Args + i))
<1>1. CASE ins.op = "label"
  BY <1>1, OneSeq DEF CodeFor
<1>2. CASE ins.op = "br"
  BY <1>2, OneSeq DEF CodeFor
<1>3. CASE ins.op \in Arithmetic
  <2>1. CodeFor(ins, Args + i) = BinaryCode(ins, Args + i)
    BY <1>3 DEF CodeFor, Arithmetic
  <2> QED  BY <1>3, <2>1, BinaryListed, ListingSeq
<1>4. CASE ins.op = "load" /\ ins.ty = "float"
  <2>1. CodeFor(ins, Args + i) = FloatLoadCode(ins, Args + i)
    BY <1>4 DEF CodeFor, Arithmetic
  <2> QED  BY <1>4, <2>1, FloatLoadListed, ListingSeq
<1>5. CASE ins.op = "load" /\ ins.ty # "float"
  <2>1. CodeFor(ins, Args + i) = LoadToGreg(ins.ops[1], "t0")
    BY <1>5 DEF CodeFor, Arithmetic
  <2>2. IsOperand(fn, ins.ops[1], "ptr")
    BY <1>5, CodeTypes
  <2> QED  BY <2>1, <2>2, LoadCode, ListingSeq
<1>6. CASE ins.op \notin {"label", "br", "load"} \cup Arithmetic
  <2>1. CodeFor(ins, Args + i) = << >>
    BY <1>6 DEF CodeFor
  <2> QED  BY <2>1, ListNone, ListingSeq
<1> QED  BY <1>1, <1>2, <1>3, <1>4, <1>5, <1>6

(* The same of a piece; those of the prologue are never empty.             *)
LEMMA PieceSeq ==
    ASSUME FrameType, Settled, NEW p \in 0 .. Args + Len(fn.code)
    PROVE  /\ IsSeq(PieceCode(p))
           /\ p <= Args => Listing(PieceCode(p)) /\ Len(PieceCode(p)) > 0
<1>1. Len(fn.args) \in Nat /\ Len(fn.code) \in Nat /\ Args \in Nat
  BY FunctionTypes DEF FrameType, Args
<1>2. CASE p = 0
  <2>1. frameSize \in Nat /\ frameSize < Half
    BY DEF Settled
  <2>2. Listing(SaveCode) /\ SaveOf(SaveCode, frameSize)
    <3>1. PICK n \in Nat : frameSize = n
      BY <2>1
    <3> QED  BY <2>1, <3>1, SaveListed
  <2>3. Len(SaveCode) > 0
    BY <2>2 DEF SaveOf, SaveAt
  <2> QED  BY <1>2, <2>2, <2>3, ListingSeq DEF PieceCode
<1>3. CASE p # 0 /\ p <= Args
  <2>1. p \in 1 .. Args
    BY <1>1, <1>3
  <2>2. Listing(ArgCode(p)) /\ Len(ArgCode(p)) = AccessLen(slot[p])
    BY <2>1, ArgListed
  <2>3. PieceCode(p) = ArgCode(p)
    BY <1>3 DEF PieceCode
  <2>4. AccessLen(slot[p]) > 0
    BY DEF AccessLen
  <2> QED  BY <2>2, <2>3, <2>4, ListingSeq
<1>4. CASE ~(p <= Args)
  <2>1. p - Args \in 1 .. Len(fn.code) /\ p = Args + (p - Args) /\ p # 0
    BY <1>1, <1>4
  <2>2. PieceCode(p) = CodeFor(fn.code[p - Args], p)
    BY <1>4, <2>1 DEF PieceCode
  <2>3. IsSeq(CodeFor(fn.code[p - Args], p))
    <3>1. PICK i \in 1 .. Len(fn.code) : i = p - Args
      BY <2>1
    <3>2. IsSeq(CodeFor(fn.code[i], Args + i))
      BY CodeForSeq
    <3> QED  BY <2>1, <3>1, <3>2
  <2> QED  BY <1>4, <2>2, <2>3
<1> QED  BY <1>2, <1>3, <1>4

(* Every phase has emitted the pieces it has gone through, in order.       *)
LaidInv ==
    /\ Counted
    /\ phase \in {"allocate", "save"} => output = << >> /\ gargs + fargs = 0
    /\ phase = "run" => IF at = 0 THEN gargs + fargs < Args
                        ELSE gargs + fargs = Args /\ at \in 1 .. Len(fn.code)
    /\ Fits /\ phase \in {"args", "gen", "run"} =>
          \E piece, step : Laid(output, Pieces, piece, step)

(* Nothing is laid out at the start.                                       *)
LEMMA LaidInit == Init => LaidInv
<1> SUFFICES ASSUME Init PROVE LaidInv
  OBVIOUS
<1>1. phase = "allocate" /\ output = << >> /\ gargs = 0 /\ fargs = 0
  BY DEF Init, AllocateInit
<1>2. Counted
  BY <1>1, GenInvInit DEF GenInv
<1> QED  BY <1>1, <1>2 DEF LaidInv

(* Whatever leaves the output alone keeps its layout.                      *)
LEMMA LaidSame ==
    ASSUME LaidInv, UNCHANGED <<fn, slot, frameSize, need, phase, output, gargs, fargs, at>>
    PROVE  LaidInv'
<1>1. Counted' /\ Args' = Args /\ Fits' = Fits
  BY CountedSame, SameFunction DEF LaidInv, Fits
<1>2. Pieces' = Pieces
  BY <1>1 DEF Pieces
<1>3. ASSUME NEW piece, NEW step, Laid(output, Pieces, piece, step)
      PROVE  Laid(output, Pieces, piece, step)'
  <2>1. PICK o, n : o = output /\ n = Pieces
    OBVIOUS
  <2>2. Laid(o, n, piece, step)'
    BY <1>3, <2>1, SameLaid
  <2> QED  BY <1>2, <2>1, <2>2
<1> QED  BY <1>1, <1>3 DEF LaidInv

(* The next piece is emitted.                                              *)
LEMMA LaidMore ==
    ASSUME FrameInv, LaidInv, phase \in {"save", "args", "gen"}, Fits,
           NEW n \in 0 .. Args + Len(fn.code),
           phase = "save" => n = 0, phase # "save" => n = Pieces /\ n > 0,
           NEW from, from = PieceFrom(n), NEW code, code = PieceCode(n),
           Emit(from, code), UNCHANGED <<fn, slot, frameSize>>, Pieces' = n + 1
    PROVE  \E piece, step : Laid(output, Pieces, piece, step)'
<1>1. Settled
  BY FrameSettled
<1>2. FrameType /\ Len(fn.code) \in Nat /\ Args \in Nat
  BY FunctionTypes DEF FrameInv, FrameType, Args
<1>3. n \in Nat
  BY <1>2
<1>4. IsSeq(PieceCode(n)) /\ (n = 0 => PieceCode(n) # << >>)
  <2>1. Len(<< >>) = 0
    OBVIOUS
  <2> QED  BY <1>1, <1>2, <2>1, PieceSeq
<1>5. PICK o : o = output
  OBVIOUS
<1>6. \E piece, step : Laid(o, n, piece, step)
  <2>1. CASE phase = "save"
    BY <1>5, <2>1, NoneLaid DEF LaidInv
  <2>2. CASE phase # "save"
    BY <1>5, <2>2 DEF LaidInv
  <2> QED  BY <2>1, <2>2
<1>7. n = 0 => o = << >>
  BY <1>5 DEF LaidInv
<1>8. PICK s : s = output'
  OBVIOUS
<1>9. s = o \o Tagged(PieceFrom(n), PieceCode(n))
  BY <1>5, <1>8 DEF Emit, Tagged
<1>10. PICK piece, step : Laid(s, n + 1, piece, step)
  <2>1. PICK piece, step : Laid(o, n, piece, step)
    BY <1>6
  <2> QED  BY <1>3, <1>4, <1>7, <1>9, <2>1, LaidOn
<1>11. PICK m : m = n + 1
  OBVIOUS
<1>12. Laid(s, m, piece, step)'
  BY <1>10, <1>11, SameLaid
<1> QED  BY <1>8, <1>11, <1>12

(* The output stays, and the phase moves on without a new piece.           *)
LEMMA LaidStays ==
    ASSUME LaidInv, phase \in {"args", "gen"}, phase' \in {"args", "gen", "run"},
           UNCHANGED <<fn, slot, frameSize, need, output, gargs, fargs>>, Pieces' = Pieces,
           phase' = "run" => IF at' = 0 THEN gargs + fargs < Args
                             ELSE gargs + fargs = Args /\ at' \in 1 .. Len(fn.code)
    PROVE  LaidInv'
<1>1. Counted' /\ Args' = Args /\ Fits' = Fits
  BY CountedSame, SameFunction DEF LaidInv, Fits
<1>2. ASSUME Fits PROVE \E piece, step : Laid(output, Pieces, piece, step)'
  <2>1. PICK o, n : o = output /\ n = Pieces
    OBVIOUS
  <2>2. PICK piece, step : Laid(o, n, piece, step)
    BY <1>2, <2>1 DEF LaidInv
  <2>3. Laid(o, n, piece, step)'
    BY <2>2, SameLaid
  <2> QED  BY <2>1, <2>3
<1> QED  BY <1>1, <1>2 DEF LaidInv

(* A piece more, and the phase is not yet "run" unless it was the last.    *)
LEMMA LaidSave == FrameInv /\ GenInv /\ LaidInv /\ SaveRegisters => LaidInv'
<1> SUFFICES ASSUME FrameInv, GenInv, LaidInv, SaveRegisters PROVE LaidInv'
  OBVIOUS
<1>1. /\ phase = "save" /\ phase' = "args" /\ Emit(0, SaveCode)
      /\ UNCHANGED <<fn, slot, frameSize, need, gargs, fargs, at>>
  BY DEF SaveRegisters, SaveCode
<1>2. Counted' /\ Args' = Args /\ Fits' = Fits
  BY <1>1, CountedSame, SameFunction DEF LaidInv, Fits
<1>3. ASSUME Fits PROVE \E piece, step : Laid(output, Pieces, piece, step)'
  <2>1. 0 \in 0 .. Args + Len(fn.code) /\ Args \in Nat
    <3>1. Args \in Nat /\ Len(fn.code) \in Nat
      BY FunctionTypes DEF FrameInv, FrameType, Args
    <3> QED  BY <3>1
  <2>2. PieceFrom(0) = 0 /\ PieceCode(0) = SaveCode
    BY <2>1 DEF PieceFrom, PieceCode
  <2>3. gargs + fargs = 0 /\ gargs' = gargs /\ fargs' = fargs
    BY <1>1 DEF LaidInv
  <2>4. Pieces' = 0 + 1
    BY <1>1, <2>3 DEF Pieces
  <2> QED  BY <1>1, <1>3, <2>1, <2>2, <2>4, LaidMore
<1> QED  BY <1>1, <1>2, <1>3 DEF LaidInv

(* The argument the loop is at is the next of its class.                   *)
LEMMA RankOf ==
    ASSUME FrameType, Counted, gargs + fargs < Args, NEW d, d = gargs + fargs + 1
    PROVE  /\ d \in 1 .. Args
           /\ Rank(d) = IF IsFloatArg(d) THEN fargs + 1 ELSE gargs + 1
<1>1. Args \in Nat /\ gargs \in Nat /\ fargs \in Nat
  BY FunctionTypes DEF FrameType, Args, Counted
<1>2. d \in 1 .. Args /\ gargs + fargs \in Nat
  BY <1>1
<1>3. IsFloatArg(d) \in BOOLEAN
  BY DEF IsFloatArg
<1>4. PICK n \in Nat : n = gargs + fargs
  BY <1>2
<1>5. PICK float \in BOOLEAN : float = IsFloatArg(n + 1)
  BY DEF IsFloatArg
<1>6. Cardinality(Those(float, n + 1)) = Cardinality(Those(float, n)) + 1
  BY <1>5, OneMore
<1>7. Cardinality(Those(float, n)) = IF float THEN fargs ELSE gargs
  BY <1>4 DEF Counted
<1>8. Rank(d) = Cardinality(Those(float, n + 1))
  BY <1>4, <1>5 DEF Rank
<1> QED  BY <1>2, <1>4, <1>5, <1>6, <1>7, <1>8

(* The store of an argument is the next piece; the assertion ends the      *)
(* output.                                                                 *)
LEMMA LaidArg == FrameInv /\ GenInv /\ LaidInv /\ StoreArg => LaidInv'
<1> SUFFICES ASSUME FrameInv, GenInv, LaidInv, StoreArg PROVE LaidInv'
  OBVIOUS
<1>0. /\ phase = "args" /\ gargs + fargs < Args /\ at = 0 /\ at' = at
      /\ UNCHANGED <<fn, slot, frameSize, need, at>>
      /\ Counted /\ FrameType
  BY DEF StoreArg, GenInv, LaidInv, FrameInv
<1> DEFINE d == gargs + fargs + 1
           count == IF IsFloatArg(d) THEN fargs ELSE gargs
<1>1. CASE count > 7
  <2>1. phase' = "run" /\ UNCHANGED <<output, gargs, fargs>>
    BY <1>1 DEF StoreArg, StopWith, IsFloatArg
  <2>2. Pieces' = Pieces
    BY <1>0, <2>1 DEF Pieces
  <2> QED  BY <1>0, <2>1, <2>2, LaidStays
<1>2. CASE ~(count > 7)
  <2>1. /\ Emit(0, IF IsFloatArg(d) THEN StoreFromFreg(d, FloatArgReg[count + 1])
                   ELSE StoreFromGreg(d, ArgReg[count + 1]))
        /\ fargs' = IF IsFloatArg(d) THEN fargs + 1 ELSE fargs
        /\ gargs' = IF IsFloatArg(d) THEN gargs ELSE gargs + 1
        /\ phase' = phase
    BY <1>2 DEF StoreArg, IsFloatArg
  <2>2. gargs \in Nat /\ fargs \in Nat
    BY <1>0 DEF Counted
  <2>3. Counted'
    <3>1. PICK float \in BOOLEAN : float = IsFloatArg(gargs + fargs + 1)
      BY DEF IsFloatArg
    <3>2. (float => fargs < 8) /\ (~float => gargs < 8)
      BY <1>2, <2>2, <3>1
    <3> QED  BY <1>0, <2>1, <3>1, <3>2, CountsArg
  <2>4. Args' = Args /\ Fits' = Fits
    BY <1>0, SameFunction DEF Fits
  <2>5. ASSUME Fits PROVE \E piece, step : Laid(output, Pieces, piece, step)'
    <3>1. PICK n : n = d
      OBVIOUS
    <3>2. n \in 1 .. Args /\ Rank(n) = count + 1
      BY <1>0, <3>1, RankOf
    <3>3. Args \in Nat /\ Len(fn.code) \in Nat
      BY <1>0, FunctionTypes DEF FrameType, Args
    <3>4. n \in 0 .. Args + Len(fn.code) /\ n > 0 /\ n # 0 /\ n <= Args
      BY <3>2, <3>3
    <3>5. PieceFrom(n) = 0 /\ PieceCode(n) = ArgCode(n)
      BY <3>4 DEF PieceFrom, PieceCode
    <3>6. Emit(0, ArgCode(n))
      BY <2>1, <3>1, <3>2 DEF ArgCode
    <3>7. Pieces = n /\ Pieces' = n + 1
      <4>1. Pieces = gargs + fargs + 1 /\ Pieces' = gargs' + fargs' + 1
        BY <1>0, <2>1 DEF Pieces
      <4> QED  BY <2>1, <2>2, <3>1, <4>1
    <3> QED  BY <1>0, <2>5, <3>4, <3>5, <3>6, <3>7, LaidMore
  <2> QED  BY <1>0, <2>1, <2>3, <2>4, <2>5 DEF LaidInv
<1> QED  BY <1>1, <1>2

(* Leaving the loop over the arguments adds no piece.                      *)
LEMMA LaidArgsStored == FrameInv /\ GenInv /\ LaidInv /\ ArgsStored => LaidInv'
<1> SUFFICES ASSUME FrameInv, GenInv, LaidInv, ArgsStored PROVE LaidInv'
  OBVIOUS
<1>1. /\ phase = "args" /\ gargs + fargs = Args /\ phase' = "gen" /\ at' = 1
      /\ UNCHANGED <<fn, slot, frameSize, need, output, gargs, fargs>>
  BY DEF ArgsStored
<1>2. Args' = Args
  BY <1>1, SameFunction
<1>3. Pieces' = Pieces
  BY <1>1, <1>2 DEF Pieces
<1> QED  BY <1>1, <1>3, LaidStays

(* The code of the current instruction is emitted.                         *)
LEMMA LaidCode ==
    ASSUME FrameInv, GenInv, LaidInv, phase = "gen",
           Emit(at, CodeFor(Instr, This)), UNCHANGED <<fn, slot, frameSize, need, gargs, fargs>>,
           \/ phase' = "gen" /\ at' = at + 1
           \/ phase' = "run" /\ at' = at
    PROVE  LaidInv'
<1>1. /\ at \in 1 .. Len(fn.code) /\ fn \in Functions /\ FrameType
      /\ Counted /\ gargs + fargs = Args
  BY Present DEF FrameInv, GenInv
<1>2. Counted' /\ Args' = Args /\ Fits' = Fits
  BY <1>1, CountedSame, SameFunction DEF Fits
<1>3. Args \in Nat /\ Len(fn.code) \in Nat
  BY <1>1, FunctionTypes DEF Args
<1>4. ASSUME Fits PROVE \E piece, step : Laid(output, Pieces, piece, step)'
  <2>1. PICK n : n = Args + at
    OBVIOUS
  <2>2. n \in 0 .. Args + Len(fn.code) /\ n > 0 /\ n # 0 /\ ~(n <= Args) /\ n - Args = at
    BY <1>1, <1>3, <2>1
  <2>3. PieceFrom(n) = at /\ PieceCode(n) = CodeFor(Instr, This)
    BY <2>1, <2>2 DEF PieceFrom, PieceCode, Instr, This
  <2>4. Pieces = n
    BY <2>1 DEF Pieces
  <2>5. Pieces' = n + 1
    <3>1. at # 0 /\ (Args + at) + 1 = Args + (at + 1)
      BY <1>1, <1>3
    <3> QED  BY <1>2, <2>1, <3>1 DEF Pieces
  <2> QED  BY <1>4, <2>2, <2>3, <2>4, <2>5, LaidMore
<1>5. phase' = "run" => gargs + fargs = Args /\ at' \in 1 .. Len(fn.code) /\ at' # 0
  BY <1>1
<1> QED  BY <1>1, <1>2, <1>4, <1>5 DEF LaidInv

(* So does the code of every instruction that is translated.               *)
LEMMA LaidTranslated == FrameInv /\ GenInv /\ LaidInv
                        /\ (GenLabel \/ GenBr \/ GenBinary \/ GenLoad \/ SkipRem) => LaidInv'
<1> SUFFICES ASSUME FrameInv, GenInv, LaidInv,
                    GenLabel \/ GenBr \/ GenBinary \/ GenLoad \/ SkipRem
             PROVE  LaidInv'
  OBVIOUS
<1>1. phase = "gen" /\ Translated(CodeFor(Instr, This))
  <2>1. CASE GenLabel
    BY <2>1 DEF GenLabel, Translates, CodeFor
  <2>2. CASE GenBr
    BY <2>2 DEF GenBr, Translates, CodeFor
  <2>3. CASE GenBinary
    BY <2>3 DEF GenBinary, Translates, CodeFor, Arithmetic, BinaryCode
  <2>4. CASE GenLoad
    BY <2>4 DEF GenLoad, Translates, CodeFor, Arithmetic, FloatLoadCode
  <2>5. CASE SkipRem
    BY <2>5 DEF SkipRem, Translates, CodeFor, Arithmetic
  <2> QED  BY <2>1, <2>2, <2>3, <2>4, <2>5
<1>2. /\ Emit(at, CodeFor(Instr, This)) /\ at' = at + 1 /\ phase' = "gen"
      /\ UNCHANGED <<fn, slot, frameSize, need, gargs, fargs>>
  BY <1>1 DEF Translated, frameVars
<1> QED  BY <1>1, <1>2, LaidCode

(* So does the code of the one that is not.                                *)
LEMMA LaidThrow == FrameInv /\ GenInv /\ LaidInv /\ Throw => LaidInv'
<1> SUFFICES ASSUME FrameInv, GenInv, LaidInv, Throw PROVE LaidInv'
  OBVIOUS
<1>1. /\ phase = "gen" /\ phase' = "run" /\ at' = at /\ IsTodo(Instr)
      /\ UNCHANGED <<fn, slot, frameSize, need, gargs, fargs>>
      /\ Emit(at, IF Instr.op = "load" THEN LoadToGreg(Instr.ops[1], "t0") ELSE << >>)
  BY DEF Throw, StopWith
<1>2. Emit(at, CodeFor(Instr, This))
  BY <1>1 DEF IsTodo, Implemented, Arithmetic, CodeFor
<1> QED  BY <1>1, <1>2, LaidCode

(* The layout is kept by every step.                                       *)
LEMMA LaidStep == CodeGenInv /\ LaidInv /\ [Next]_vars => LaidInv'
<1> SUFFICES ASSUME FrameInv, GenInv, LaidInv, [Next]_vars PROVE LaidInv'
  BY DEF CodeGenInv
<1>1. CASE Layout
  <2>1. phase = "allocate" /\ phase' \in {"allocate", "save"}
        /\ UNCHANGED <<fn, output, gargs, fargs, at>>
    BY <1>1 DEF Layout, Allocate, AllocateNext, AllocateDone, genVars
  <2>2. Counted'
    BY <2>1, CountedSame DEF LaidInv
  <2> QED  BY <2>1, <2>2 DEF LaidInv
<1>2. CASE Execute
  <2>1. UNCHANGED <<fn, slot, frameSize, need, phase, output, gargs, fargs, at>>
    BY <1>2, Executed DEF frameVars, genVars
  <2> QED  BY <2>1, LaidSame
<1>3. CASE Stopped \/ UNCHANGED vars
  BY <1>3, LaidSame DEF Stopped, vars, frameVars, genVars
<1>4. CASE Generate
  BY <1>4, LaidSave, LaidArg, LaidArgsStored, LaidTranslated, LaidThrow DEF Generate
<1> QED  BY <1>1, <1>2, <1>3, <1>4 DEF Next

-----------------------------------------------------------------------------
(* The machine while the emitted code runs: memory outside the frame is    *)
(* that of the globals, and the caller's registers are saved.              *)
InFrame == \A a \in DOMAIN mem : a >= Frame0 - frameSize /\ (a < Frame0 \/ a >= 2 * Frame0)
GlobalsKept == \A g \in DOMAIN Globals : Read(GlobalAt(g), 4) = Globals[g]
Machine == DOMAIN regs = Registers /\ regs["zero"] = 0 /\ InFrame /\ GlobalsKept

Saved ==
    /\ regs["sp"] = Frame0 - frameSize /\ regs["fp"] = Frame0
    /\ Read(Frame0 - 8, 8) = ReturnAddress
    /\ Read(Frame0 - 16, 8) = CallerFp

(* The first m arguments are in their slots, the others in their           *)
(* registers, and no other slot has been written.                          *)
ArgRegister(e) == IF IsFloatArg(e) THEN FloatArgReg[Rank(e)] ELSE ArgReg[Rank(e)]
ArgsAt(m) ==
    /\ \A e \in 1 .. m : SlotValue(e) = InputOf(e)
    /\ \A e \in m + 1 .. Args : Rank(e) \in 1 .. 8 => regs[ArgRegister(e)] = InputOf(e)
    /\ \A d \in Defs : HasSlot(d) /\ d > m => Frame0 + slot[d] \notin DOMAIN mem

Ints == \A d \in Defs : TypeOf(d) = "int" => SlotValue(d) \in Int

Filled(m) == Machine /\ Saved /\ ArgsAt(m)
Going == Machine /\ Saved /\ Ints

Temporaries == {"t0", "t1", "t2", "t8", "ft0"}

(* What does not depend on the machine stays when only the machine moves.  *)
LEMMA Fixed ==
    ASSUME UNCHANGED <<frameVars, genVars, inputs>>
    PROVE  /\ UNCHANGED <<fn, slot, frameSize, need, phase, inputs, output, at, gargs, fargs>>
           /\ Args' = Args /\ Defs' = Defs /\ Pieces' = Pieces /\ Fits' = Fits
           /\ \A d : /\ HasSlot(d)' = HasSlot(d) /\ Width(d)' = Width(d)
                     /\ TypeOf(d)' = TypeOf(d) /\ InputOf(d)' = InputOf(d)
                     /\ Rank(d)' = Rank(d) /\ ArgRegister(d)' = ArgRegister(d)
                     /\ IsFloatArg(d)' = IsFloatArg(d) /\ slot'[d] = slot[d]
           /\ \A p : PieceCode(p)' = PieceCode(p) /\ PieceFrom(p)' = PieceFrom(p)
           /\ \A o : LoadLen(o)' = LoadLen(o) /\ NumberIn(o)' = NumberIn(o)
<1>1. UNCHANGED <<fn, slot, frameSize, need, phase, inputs, output, at, gargs, fargs>>
  BY DEF frameVars, genVars
<1>2. Args' = Args /\ Defs' = Defs /\ Fits' = Fits
  BY <1>1 DEF Args, Defs, Fits
<1>3. Pieces' = Pieces
  BY <1>1, <1>2 DEF Pieces
<1>4. \A d : TypeOf(d)' = TypeOf(d)
  BY <1>1 DEF TypeOf, TypeIn
<1>5. \A d : /\ HasSlot(d)' = HasSlot(d) /\ Width(d)' = Width(d)
             /\ InputOf(d)' = InputOf(d) /\ IsFloatArg(d)' = IsFloatArg(d)
  BY <1>1, <1>4 DEF HasSlot, Width, InputOf, IsFloatArg
<1>6. \A d : Rank(d)' = Rank(d)
  BY <1>5 DEF Rank, Those
<1>7. \A d : ArgRegister(d)' = ArgRegister(d)
  BY <1>5, <1>6 DEF ArgRegister
<1>8. \A p : PieceCode(p)' = PieceCode(p) /\ PieceFrom(p)' = PieceFrom(p)
  BY <1>1, SameCode
<1>9. \A o : LoadLen(o)' = LoadLen(o) /\ NumberIn(o)' = NumberIn(o)
  BY <1>1 DEF LoadLen, NumberIn
<1> QED  BY <1>1, <1>2, <1>3, <1>4, <1>5, <1>6, <1>7, <1>8, <1>9

(* Values depend on the memory and the frame.                              *)
LEMMA FixedValues ==
    ASSUME UNCHANGED <<frameVars, genVars, inputs>>, mem' = mem
    PROVE  /\ \A d : SlotValue(d)' = SlotValue(d)
           /\ \A o : OperandValue(o)' = OperandValue(o)
           /\ \A a, n : Read(a, n)' = Read(a, n)
<1>1. \A a, n : Read(a, n)' = Read(a, n)
  BY SameMemory
<1>2. ASSUME NEW d PROVE SlotValue(d)' = SlotValue(d)
  <2>1. slot'[d] = slot[d] /\ Width(d)' = Width(d)
    BY Fixed
  <2>2. SlotValue(d)' = Read(Frame0 + slot[d], Width(d))'
    BY <2>1 DEF SlotValue
  <2>3. PICK a, n : a = Frame0 + slot[d] /\ n = Width(d)
    OBVIOUS
  <2>4. Read(a, n)' = Read(a, n)
    BY <1>1
  <2> QED  BY <2>1, <2>3, <2>4 DEF SlotValue, Read
<1> QED  BY <1>1, <1>2 DEF OperandValue

(* What a machine instruction leaves alone.                                *)
LEMMA Unmoved ==
    ASSUME Execute
    PROVE  /\ UNCHANGED <<fn, slot, frameSize, need, phase, inputs, output, at, gargs, fargs>>
           /\ Args' = Args /\ Defs' = Defs /\ Pieces' = Pieces /\ Fits' = Fits
           /\ \A d : /\ HasSlot(d)' = HasSlot(d) /\ Width(d)' = Width(d)
                     /\ TypeOf(d)' = TypeOf(d) /\ InputOf(d)' = InputOf(d)
                     /\ Rank(d)' = Rank(d) /\ ArgRegister(d)' = ArgRegister(d)
                     /\ IsFloatArg(d)' = IsFloatArg(d) /\ slot'[d] = slot[d]
           /\ \A p : PieceCode(p)' = PieceCode(p) /\ PieceFrom(p)' = PieceFrom(p)
           /\ \A o : LoadLen(o)' = LoadLen(o) /\ NumberIn(o)' = NumberIn(o)
<1>1. UNCHANGED <<frameVars, genVars, inputs>>
  BY Executed
<1> QED  BY <1>1, Fixed

(* What an instruction that does not store leaves alone.                   *)
LEMMA SameValues ==
    ASSUME Execute, mem' = mem
    PROVE  /\ \A d : SlotValue(d)' = SlotValue(d)
           /\ \A o : OperandValue(o)' = OperandValue(o)
           /\ \A a, n : Read(a, n)' = Read(a, n)
<1>1. UNCHANGED <<frameVars, genVars, inputs>>
  BY Executed
<1> QED  BY <1>1, FixedValues

(* The registers of arguments are not those the code computes in.          *)
LEMMA ArgRegisters ==
    ASSUME NEW e, Rank(e) \in 1 .. 8
    PROVE  /\ ArgRegister(e) \in Registers
           /\ ArgRegister(e) \notin Temporaries \cup {"zero", "ra", "sp", "fp"}
<1>1. \A k \in 1 .. 8 : ArgReg[k] \in Range(ArgReg) /\ FloatArgReg[k] \in Range(FloatArgReg)
  BY DEF ArgReg, FloatArgReg, Range
<1>2. \A k \in 1 .. 8 :
        /\ ArgReg[k] \notin {"t0", "t1", "t2", "t8", "ft0", "zero", "ra", "sp", "fp"}
        /\ FloatArgReg[k] \notin {"t0", "t1", "t2", "t8", "ft0", "zero", "ra", "sp", "fp"}
  BY DEF ArgReg, FloatArgReg
<1> QED  BY <1>1, <1>2 DEF ArgRegister, Registers, Temporaries

(* The registers that are not for arguments.                               *)
LEMMA Named == Temporaries \cup {"zero", "ra", "sp", "fp"} \subseteq Registers
BY DEF Temporaries, Registers

(* A temporary is set.                                                     *)
LEMMA TemporarySet ==
    ASSUME Execute, Machine, NEW r \in Temporaries, OnlySets(r)
    PROVE  /\ Machine' /\ (Saved => Saved') /\ (Ints => Ints')
           /\ \A m : ArgsAt(m) => ArgsAt(m)'
<1>1. r \in Registers /\ r \notin {"zero", "ra", "sp", "fp"}
  BY Named DEF Temporaries
<1>2. /\ DOMAIN regs' = Registers /\ mem' = mem
      /\ regs'["zero"] = regs["zero"] /\ regs'["sp"] = regs["sp"] /\ regs'["fp"] = regs["fp"]
      /\ \A q \in Registers : q # r => regs'[q] = regs[q]
  BY <1>1, Named DEF OnlySets, Machine
<1>3. /\ UNCHANGED <<fn, slot, frameSize>> /\ Args' = Args /\ Defs' = Defs
      /\ \A d : /\ HasSlot(d)' = HasSlot(d) /\ TypeOf(d)' = TypeOf(d)
                /\ InputOf(d)' = InputOf(d) /\ Rank(d)' = Rank(d)
                /\ ArgRegister(d)' = ArgRegister(d) /\ slot'[d] = slot[d]
  BY Unmoved
<1>4. /\ \A d : SlotValue(d)' = SlotValue(d)
      /\ \A a, n : Read(a, n)' = Read(a, n)
  BY <1>2, SameValues
<1>5. Machine'
  <2>1. \A g : GlobalAt(g)' = GlobalAt(g)
    BY DEF GlobalAt
  <2>2. GlobalsKept'
    <3>1. ASSUME NEW g \in DOMAIN Globals PROVE (Read(GlobalAt(g), 4) = Globals[g])'
      <4>1. PICK a : a = GlobalAt(g)
        OBVIOUS
      <4>2. Read(a, 4)' = Read(a, 4)
        BY <1>4
      <4>3. Read(a, 4) = Globals[g]
        BY <4>1 DEF Machine, GlobalsKept
      <4> QED  BY <4>1, <4>2, <4>3
    <3> QED  BY <3>1 DEF GlobalsKept
  <2> QED  BY <1>2, <1>3, <2>2 DEF Machine, InFrame
<1>6. ASSUME Saved PROVE Saved'
  <2>1. Read(Frame0 - 8, 8)' = Read(Frame0 - 8, 8) /\ Read(Frame0 - 16, 8)' = Read(Frame0 - 16, 8)
    BY <1>4
  <2> QED  BY <1>2, <1>3, <1>6, <2>1 DEF Saved
<1>7. Ints => Ints'
  BY <1>3, <1>4 DEF Ints
<1>8. ASSUME NEW m, ArgsAt(m) PROVE ArgsAt(m)'
  <2>1. ASSUME NEW e \in m + 1 .. Args, Rank(e) \in 1 .. 8
        PROVE  regs'[ArgRegister(e)] = InputOf(e)
    <3>1. ArgRegister(e) \in Registers /\ ArgRegister(e) # r
      BY <2>1, ArgRegisters
    <3> QED  BY <1>2, <1>8, <2>1, <3>1 DEF ArgsAt
  <2> QED  BY <1>2, <1>3, <1>4, <1>8, <2>1 DEF ArgsAt
<1> QED  BY <1>5, <1>6, <1>7, <1>8

(* The cells of two slots, and those of the saved registers.               *)
LEMMA SlotCells ==
    ASSUME Settled, NEW d \in Defs, HasSlot(d)
    PROVE  /\ Frame0 + slot[d] \in Int /\ slot[d] \in Int /\ Width(d) \in {1, 4, 8}
           /\ Frame0 + slot[d] >= Frame0 - frameSize
           /\ (Frame0 + slot[d]) + Width(d) <= Frame0 - 16
           /\ \A e \in Defs : HasSlot(e) /\ e # d =>
                 \/ (Frame0 + slot[e]) + Width(e) <= Frame0 + slot[d]
                 \/ (Frame0 + slot[d]) + Width(d) <= Frame0 + slot[e]
<1>0. Half \in Nat /\ Frame0 \in Nat /\ frameSize \in Nat
  BY Numbers DEF Settled
<1>1. /\ slot[d] \in Int /\ Width(d) \in {1, 4, 8}
      /\ -frameSize <= slot[d] /\ slot[d] + Width(d) <= -16
  BY <1>0 DEF Settled, Word32, Base
<1>2. ASSUME NEW e \in Defs, HasSlot(e), e # d
      PROVE  /\ slot[e] \in Int /\ Width(e) \in {1, 4, 8}
             /\ slot[e] + Width(e) <= slot[d] \/ slot[d] + Width(d) <= slot[e]
  BY <1>0, <1>2 DEF Settled, Word32
<1>3. ASSUME NEW e \in Defs, HasSlot(e), e # d
      PROVE  \/ (Frame0 + slot[e]) + Width(e) <= Frame0 + slot[d]
             \/ (Frame0 + slot[d]) + Width(d) <= Frame0 + slot[e]
  <2>1. /\ slot[e] \in Int /\ Width(e) \in {1, 4, 8}
        /\ slot[e] + Width(e) <= slot[d] \/ slot[d] + Width(d) <= slot[e]
    BY <1>2, <1>3
  <2> QED  BY <1>0, <1>1, <2>1
<1> QED  BY <1>0, <1>1, <1>3

(* A slot is stored to.                                                    *)
LEMMA SlotStored ==
    ASSUME Execute, Settled, Machine, NEW d \in Defs, HasSlot(d), NEW v,
           regs' = regs, mem' = Over(Cells(Frame0 + slot[d], Width(d), v), mem)
    PROVE  /\ Machine' /\ (Saved => Saved') /\ SlotValue(d)' = v
           /\ \A e \in Defs : HasSlot(e) /\ e # d =>
                 /\ SlotValue(e)' = SlotValue(e)
                 /\ Frame0 + slot[e] \notin DOMAIN mem => Frame0 + slot[e] \notin DOMAIN mem'
<1>1. PICK a : a = Frame0 + slot[d]
  OBVIOUS
<1>2. PICK n : n = Width(d)
  OBVIOUS
<1>3. /\ a \in Int /\ n \in {1, 4, 8} /\ a >= Frame0 - frameSize /\ a + n <= Frame0 - 16
      /\ Frame0 \in Nat /\ frameSize \in Nat
  BY <1>1, <1>2, SlotCells, Numbers DEF Settled
<1>4. /\ DOMAIN mem' = DOMAIN mem \cup (a .. a + n - 1)
      /\ Read(a, n)' = v
      /\ \A b \in Int, m \in {1, 4, 8} :
            b + m <= a \/ a + n <= b => Read(b, m)' = Read(b, m)
  <2>1. a \in Int /\ n \in {1, 4, 8} /\ mem' = Over(Cells(a, n, v), mem)
    BY <1>1, <1>2, <1>3
  <2> QED  BY <2>1, Written
<1>5. /\ UNCHANGED <<fn, slot, frameSize>>
      /\ \A e : Width(e)' = Width(e) /\ slot'[e] = slot[e]
  BY Unmoved
<1>6. SlotValue(d)' = v
  <2>1. slot'[d] = slot[d] /\ Width(d)' = Width(d)
    BY <1>5
  <2>2. SlotValue(d)' = Read(a, n)'
    BY <1>1, <1>2, <2>1 DEF SlotValue
  <2> QED  BY <1>4, <2>2
<1>7. InFrame'
  <2>1. ASSUME NEW c \in DOMAIN mem' PROVE c >= Frame0 - frameSize /\ (c < Frame0 \/ c >= 2 * Frame0)
    <3>1. CASE c \in DOMAIN mem
      BY <3>1 DEF Machine, InFrame
    <3>2. CASE c \in a .. a + n - 1
      BY <1>3, <3>2
    <3> QED  BY <1>4, <3>1, <3>2
  <2> QED  BY <1>5, <2>1 DEF InFrame
<1>8. GlobalsKept'
  <2>1. ASSUME NEW g \in DOMAIN Globals PROVE (Read(GlobalAt(g), 4) = Globals[g])'
    <3>1. g \in Nat
      BY MachineAssumption
    <3>2. PICK b : b = GlobalAt(g)
      OBVIOUS
    <3>3. b \in Int /\ a + n <= b
      BY <1>3, <3>1, <3>2 DEF GlobalAt
    <3>4. Read(b, 4)' = Read(b, 4)
      BY <1>4, <3>3
    <3>5. Read(b, 4) = Globals[g]
      BY <3>2 DEF Machine, GlobalsKept
    <3>6. GlobalAt(g)' = GlobalAt(g)
      BY DEF GlobalAt
    <3> QED  BY <3>2, <3>4, <3>5, <3>6
  <2> QED  BY <2>1 DEF GlobalsKept
<1>9. Machine'
  BY <1>7, <1>8 DEF Machine
<1>10. ASSUME Saved PROVE Saved'
  <2>1. /\ Frame0 - 8 \in Int /\ Frame0 - 16 \in Int
        /\ a + n <= Frame0 - 8 /\ a + n <= Frame0 - 16
    BY <1>3
  <2>2. Read(Frame0 - 8, 8)' = Read(Frame0 - 8, 8) /\ Read(Frame0 - 16, 8)' = Read(Frame0 - 16, 8)
    BY <1>4, <2>1
  <2> QED  BY <1>5, <1>10, <2>2 DEF Saved
<1>11. ASSUME NEW e \in Defs, HasSlot(e), e # d
       PROVE  /\ SlotValue(e)' = SlotValue(e)
              /\ Frame0 + slot[e] \notin DOMAIN mem => Frame0 + slot[e] \notin DOMAIN mem'
  <2>1. PICK b : b = Frame0 + slot[e]
    OBVIOUS
  <2>2. PICK m : m = Width(e)
    OBVIOUS
  <2>3. b \in Int /\ m \in {1, 4, 8} /\ (b + m <= a \/ a + n <= b)
    BY <1>1, <1>2, <1>11, <2>1, <2>2, SlotCells
  <2>4. Read(b, m)' = Read(b, m)
    BY <1>4, <2>3
  <2>5. SlotValue(e)' = Read(b, m)' /\ SlotValue(e) = Read(b, m)
    <3>1. slot'[e] = slot[e] /\ Width(e)' = Width(e)
      BY <1>5
    <3> QED  BY <2>1, <2>2, <3>1 DEF SlotValue
  <2>6. b \notin a .. a + n - 1
    BY <1>3, <2>3
  <2> QED  BY <1>4, <2>1, <2>4, <2>5, <2>6
<1> QED  BY <1>6, <1>9, <1>10, <1>11

(* A store to a slot: the address is built in t8, and the last instruction *)
(* writes.                                                                 *)
LEMMA StoreStep ==
    ASSUME Execute, Machine, Saved, Settled, NEW d \in Defs, HasSlot(d),
           NEW op \in {"st.w", "st.d", "fst.s"}, Bytes(op) = Width(d), NEW r,
           NEW k \in 1 .. AccessLen(slot[d]), Ins = SlotAccess(op, r, d, "t8")[k],
           Building("t8", slot[d], k)
    PROVE  /\ k < AccessLen(slot[d]) => OnlySets("t8") /\ Building("t8", slot[d], k + 1)'
           /\ k = AccessLen(slot[d]) =>
                 /\ regs' = regs /\ mpc' = mpc + 1
                 /\ mem' = Over(Cells(Frame0 + slot[d], Width(d), Stored(op, regs[r])), mem)
<1>1. PICK n : n = slot[d]
  OBVIOUS
<1>2. n \in Word32 /\ n <= 0
  <2>1. slot[d] \in Word32 /\ Width(d) \in {1, 4, 8} /\ slot[d] + Width(d) <= -Base
    BY DEF Settled
  <2> QED  BY <1>1, <2>1, HalfAssumption DEF Base, Word32
<1>3. DOMAIN regs = Registers /\ regs["fp"] = Frame0 /\ "t8" \in Registers
  BY Named DEF Machine, Saved, Temporaries
<1>4. /\ k < AccessLen(n) => OnlySets("t8") /\ Building("t8", n, k + 1)'
      /\ k = AccessLen(n) => /\ Ins[1] = op /\ Ins[2] = r
                             /\ regs[Ins[3]] + Ins[4] = Frame0 + n
  <2>1. /\ op \notin {"b", "label"} /\ n \in Word32 /\ n <= 0 /\ slot[d] = n
        /\ k \in 1 .. AccessLen(n) /\ Ins = SlotAccess(op, r, d, "t8")[k]
        /\ Building("t8", n, k)
    BY <1>1, <1>2
  <2> QED  BY <1>3, <2>1, AccessStep
<1>5. slot'[d] = n
  BY <1>1, Unmoved
<1>6. Building("t8", slot[d], k + 1)' <=> Building("t8", n, k + 1)'
  BY <1>5 DEF Building
<1>7. ASSUME k = AccessLen(n)
      PROVE  /\ regs' = regs /\ mpc' = mpc + 1
             /\ mem' = Over(Cells(Frame0 + n, Width(d), Stored(op, regs[r])), mem)
  <2>1. Ins[1] = op /\ Ins[2] = r /\ regs[Ins[3]] + Ins[4] = Frame0 + n
    BY <1>4, <1>7
  <2> QED  BY <2>1, ExecutedMemory
<1> QED  BY <1>1, <1>4, <1>6, <1>7

(* A store keeps the slots of ints ints.                                   *)
LEMMA IntsStored ==
    ASSUME Execute, Settled, Machine, Ints, NEW d \in Defs, HasSlot(d), NEW v,
           TypeOf(d) = "int" => v \in Int,
           regs' = regs, mem' = Over(Cells(Frame0 + slot[d], Width(d), v), mem)
    PROVE  Ints'
<1>1. /\ SlotValue(d)' = v
      /\ \A e \in Defs : HasSlot(e) /\ e # d => SlotValue(e)' = SlotValue(e)
  BY SlotStored
<1>2. Defs' = Defs /\ \A e : TypeOf(e)' = TypeOf(e)
  BY Unmoved
<1>3. ASSUME NEW e \in Defs, TypeOf(e) = "int" PROVE SlotValue(e)' \in Int
  <2>1. HasSlot(e)
    BY <1>3 DEF HasSlot
  <2> QED  BY <1>1, <1>3, <2>1 DEF Ints
<1> QED  BY <1>2, <1>3 DEF Ints

-----------------------------------------------------------------------------
(* A binary operation: before its k-th machine instruction the operands    *)
(* and then the result have been computed as far as this.                  *)
Computed(op, x, y) ==
    IF op = "add" THEN x + y ELSE IF op = "sub" THEN x - y
    ELSE IF op = "mul" THEN x * y ELSE Quot(x, y)

(* The value of a binary operation, and how far its code has come.         *)
Outcome(ins) ==
    Signed(Computed(ins.op, Signed(OperandValue(ins.ops[1]), Word),
                            Signed(OperandValue(ins.ops[2]), Word)), Word)

BinaryAt(x, y, v, n, a, b, k) ==
    /\ k <= a => Loading(x, "t0", k)
    /\ k > a /\ k <= a + b + 1 => regs["t0"] = OperandValue(x) /\ Loading(y, "t1", k - a)
    /\ k > a + b + 1 => regs["t2"] = v /\ Building("t8", n, k - (a + b + 1))

(* Nothing is asked of the machine before the first instruction of a load. *)
LEMMA LoadingFirst ==
    ASSUME NEW o, NEW r
    PROVE  Loading(o, r, 1) /\ LoadLen(o) \in 1 .. 6
BY DEF Loading, Building, LoadLen, AccessLen

(* Nor before the first one of an access.                                  *)
LEMMA BuildingFirst == ASSUME NEW n, NEW r PROVE Building(r, n, 1)
BY DEF Building

(* What is computed is an int.                                             *)
LEMMA OutcomeInt ==
    ASSUME NEW op, NEW x \in Int, NEW y \in Int
    PROVE  /\ Signed(Computed(op, Signed(x, Word), Signed(y, Word)), Word) \in -Half .. Half - 1
<1>0. Word \in Nat /\ Word > 0 /\ Word % 2 = 0 /\ Word \div 2 = Half /\ Half \in Nat
  BY Widths
<1>1. Signed(x, Word) \in Int /\ Signed(y, Word) \in Int
  BY <1>0, SignedRange
<1>2. \A p, q \in Int : Quot(p, q) \in Int
  <2> SUFFICES ASSUME NEW p \in Int, NEW q \in Int PROVE Quot(p, q) \in Int
    OBVIOUS
  <2>1. Abs(p) \in Nat /\ Abs(q) \in Nat /\ (q # 0 => Abs(q) > 0)
    BY DEF Abs
  <2>2. q # 0 => Abs(p) \div Abs(q) \in Int
    BY <2>1
  <2> QED  BY <2>2 DEF Quot
<1>3. \A p, q \in Int : p * q \in Int
  OBVIOUS
<1>4. Computed(op, Signed(x, Word), Signed(y, Word)) \in Int
  <2>1. PICK p \in Int : p = Signed(x, Word)
    BY <1>1
  <2>2. PICK q \in Int : q = Signed(y, Word)
    BY <1>1
  <2>3. p + q \in Int /\ p - q \in Int /\ p * q \in Int /\ Quot(p, q) \in Int
    BY <1>2, <1>3
  <2> QED  BY <2>1, <2>2, <2>3 DEF Computed
<1> QED  BY <1>0, <1>4, SignedRange

(* The instruction that computes.                                          *)
LEMMA BinaryMiddle ==
    ASSUME Execute, DOMAIN regs = Registers, NEW op \in Arithmetic, NEW x, NEW y,
           regs["t0"] = x, regs["t1"] = y, Ins = <<MachineOp(op), "t2", "t0", "t1">>,
           NEW v, v = Signed(Computed(op, Signed(x, Word), Signed(y, Word)), Word)
    PROVE  OnlySets("t2") /\ regs'["t2"] = v
<1>1. /\ Ins[1] = MachineOp(op) /\ Ins[2] = "t2" /\ Ins[3] = "t0" /\ Ins[4] = "t1"
  OBVIOUS
<1>2. LeftWord = Signed(x, Word) /\ RightWord = Signed(y, Word)
  BY <1>1 DEF LeftWord, RightWord, Left, Right
<1>3. "t2" \in Registers
  BY Named DEF Temporaries
<1>4. Sets("t2", v)
  <2>1. CASE op = "add"
    BY <1>1, <1>2, <2>1, ExecutedRegister DEF MachineOp, Computed
  <2>2. CASE op = "sub"
    BY <1>1, <1>2, <2>2, ExecutedRegister DEF MachineOp, Computed
  <2>3. CASE op = "mul"
    BY <1>1, <1>2, <2>3, ExecutedRegister DEF MachineOp, Computed
  <2>4. CASE op = "sdiv"
    BY <1>1, <1>2, <2>4, ExecutedRegister DEF MachineOp, Computed
  <2> QED  BY <2>1, <2>2, <2>3, <2>4 DEF Arithmetic
<1> QED  BY <1>3, <1>4, SetsOne

(* Counting through the parts of such a piece.                             *)
Parts(a, b, c, k) ==
    /\ k <= a \/ (k > a /\ k <= a + b) \/ k = a + b + 1 \/ k > a + b + 1
    /\ k <= a => /\ k + 1 <= a + 1 /\ ~(k + 1 > a + b + 1)
                 /\ (k + 1 > a => k + 1 = a + 1 /\ (k + 1) - a = 1)
    /\ k > a /\ k <= a + b =>
          /\ ~(k + 1 <= a) /\ k + 1 <= a + b + 1 /\ ~(k + 1 > a + b + 1)
          /\ (k + 1) - a = (k - a) + 1
          /\ (k - a) \in 1 .. b /\ k = a + (k - a)
    /\ k = a + b + 1 =>
          /\ ~(k + 1 <= a) /\ ~(k + 1 <= a + b + 1) /\ (k + 1) - (a + b + 1) = 1
          /\ k > a /\ k <= a + b + 1 /\ k - a = b + 1
    /\ k > a + b + 1 =>
          /\ k - (a + b + 1) \in 1 .. c /\ k = a + b + 1 + (k - (a + b + 1))
          /\ ~(k + 1 <= a) /\ ~(k + 1 <= a + b + 1)
          /\ (k + 1) - (a + b + 1) = (k - (a + b + 1)) + 1

(* Which segment the k-th instruction is in.                               *)
LEMMA Placed ==
    ASSUME NEW a \in Nat, NEW b \in Nat, NEW c \in Nat, NEW k \in 1 .. a + b + 1 + c, b > 0
    PROVE  Parts(a, b, c, k)
BY DEF Parts

(* One instruction of a binary operation: at the end the slot has the      *)
(* result.                                                                 *)
LEMMA BinaryStep ==
    ASSUME Execute, Going, Settled, NEW d \in Defs, TypeOf(d) = "int",
           NEW op \in Arithmetic, NEW x, NEW y, IsOperand(fn, x, "int"), IsOperand(fn, y, "int"),
           NEW s, Segments(s, LoadToGreg(x, "t0"), LoadToGreg(y, "t1"),
                           <<MachineOp(op), "t2", "t0", "t1">>, StoreFromGreg(d, "t2")),
           NEW a, a = LoadLen(x), NEW b, b = LoadLen(y), NEW n, n = slot[d],
           NEW v, v = Signed(Computed(op, Signed(OperandValue(x), Word),
                                          Signed(OperandValue(y), Word)), Word),
           NEW k \in 1 .. Len(s), Ins = s[k], BinaryAt(x, y, v, n, a, b, k)
    PROVE  /\ Len(s) \in Nat /\ Going' /\ mpc' = mpc + 1
           /\ k < Len(s) => mem' = mem /\ BinaryAt(x, y, v, n, a, b, k + 1)'
           /\ k = Len(s) => /\ SlotValue(d)' = v
                            /\ \A e \in Defs : HasSlot(e) /\ e # d => SlotValue(e)' = SlotValue(e)
<1>1. HasSlot(d) /\ Width(d) = 4
  BY FloatWidths DEF HasSlot, Width
<1>2. PICK c : c = AccessLen(n)
  OBVIOUS
<1>3. a \in 1 .. 6 /\ b \in 1 .. 6 /\ c \in {1, 6}
  BY <1>2, LoadingFirst DEF AccessLen
<1>4. /\ Len(LoadToGreg(x, "t0")) = a /\ Len(LoadToGreg(y, "t1")) = b
      /\ Len(StoreFromGreg(d, "t2")) = c
  BY <1>1, <1>2, LoadCode, StoreCode
<1>5. /\ Len(s) = a + b + 1 + c
      /\ \A j \in 1 .. a : s[j] = LoadToGreg(x, "t0")[j]
      /\ \A j \in 1 .. b : s[a + j] = LoadToGreg(y, "t1")[j]
      /\ s[a + b + 1] = <<MachineOp(op), "t2", "t0", "t1">>
      /\ \A j \in 1 .. c : s[a + b + 1 + j] = StoreFromGreg(d, "t2")[j]
  BY <1>4 DEF Segments
<1>16. Len(s) = a + b + 1 + c /\ k \in 1 .. a + b + 1 + c
  <2>1. Len(s) = a + b + 1 + c
    BY <1>5
  <2> QED  BY <2>1
<1>13. k \in Nat /\ k >= 1 /\ k <= a + b + 1 + c /\ Len(s) \in Nat
  BY <1>3, <1>16
<1>14. /\ a \in Nat /\ b \in Nat /\ b > 0 /\ c \in Nat /\ k \in 1 .. a + b + 1 + c
  <2>1. a \in Nat /\ b \in Nat /\ b > 0 /\ c \in Nat
    BY <1>3
  <2> QED  BY <1>16, <2>1
<1>15. Parts(a, b, c, k)
  BY <1>14, Placed
<1>6. /\ DOMAIN regs = Registers /\ regs["fp"] = Frame0 /\ regs["zero"] = 0
      /\ Machine /\ Saved /\ Ints
      /\ {"t0", "t1", "t2", "t8"} \subseteq Temporaries /\ Temporaries \subseteq Registers
  BY Named DEF Going, Machine, Saved, Temporaries
<1>7. /\ \A o : LoadLen(o)' = LoadLen(o) /\ NumberIn(o)' = NumberIn(o)
      /\ slot'[d] = n
  BY Unmoved
<1>8. ASSUME NEW r \in Temporaries, OnlySets(r), k < Len(s), BinaryAt(x, y, v, n, a, b, k + 1)'
      PROVE  /\ Going' /\ mpc' = mpc + 1 /\ mem' = mem
  BY <1>6, <1>8, TemporarySet DEF Going, OnlySets
<1>9. CASE k <= a
  <2>1. k \in 1 .. a /\ k < Len(s) /\ Ins = LoadToGreg(x, "t0")[k]
    BY <1>3, <1>5, <1>9
  <2>2. OnlySets("t0") /\ Loading(x, "t0", k + 1)'
    BY <1>6, <2>1, LoadStep DEF BinaryAt
  <2>3. PICK k1 : k1 = k + 1
    OBVIOUS
  <2>4. k1 \in Nat /\ k1 <= a + 1 /\ ~(k1 > a + b + 1) /\ (k1 > a => k1 = a + 1 /\ k1 - a = 1)
    BY <1>15, <1>13, <1>14, <1>9, <2>3 DEF Parts
  <2>5. Loading(x, "t0", k1)'
    BY <2>2, <2>3
  <2>6. k1 = a + 1 => regs'["t0"] = OperandValue(x)'
    BY <1>7, <2>5 DEF Loading
  <2>7. Loading(y, "t1", 1)'
    BY DEF Loading, Building, LoadLen, AccessLen
  <2>8. BinaryAt(x, y, v, n, a, b, k1)'
    BY <2>4, <2>5, <2>6, <2>7 DEF BinaryAt
  <2> QED  BY <1>3, <1>5, <1>6, <1>8, <2>1, <2>2, <2>3, <2>8
<1>10. CASE k > a /\ k <= a + b
  <2>1. PICK j : j = k - a
    OBVIOUS
  <2>2. j \in 1 .. b /\ k = a + j /\ k < Len(s)
    <3>1. j \in 1 .. b /\ k = a + j
      <4>1. ((k - a) \in 1 .. b) /\ (k = a + (k - a))
        BY <1>15, <1>10 DEF Parts
      <4> QED  BY <4>1, <2>1
    <3>2. k < a + b + 1 + c
      BY <1>13, <1>14, <1>10
    <3> QED  BY <1>16, <3>1, <3>2
  <2>3. Ins = LoadToGreg(y, "t1")[j]
    BY <1>5, <2>2
  <2>4. regs["t0"] = OperandValue(x) /\ Loading(y, "t1", j)
    BY <1>3, <1>10, <2>1 DEF BinaryAt
  <2>5. OnlySets("t1") /\ Loading(y, "t1", j + 1)'
    BY <1>6, <2>2, <2>3, <2>4, LoadStep
  <2>6. regs'["t0"] = regs["t0"] /\ mem' = mem
    BY <1>6, <2>5 DEF OnlySets
  <2>7. OperandValue(x)' = OperandValue(x)
    BY <2>6, SameValues
  <2>8. PICK k1 : k1 = k + 1
    OBVIOUS
  <2>9. ~(k1 <= a) /\ k1 <= a + b + 1 /\ ~(k1 > a + b + 1) /\ k1 - a = j + 1
    BY <1>10, <1>15, <2>1, <2>8 DEF Parts
  <2>10. BinaryAt(x, y, v, n, a, b, k1)'
    <3>1. Loading(y, "t1", k1 - a)'
      BY <2>5, <2>9
    <3> QED  BY <2>4, <2>6, <2>7, <2>9, <3>1 DEF BinaryAt
  <2> QED  BY <1>3, <1>5, <1>6, <1>8, <2>2, <2>5, <2>8, <2>10
<1>11. CASE k = a + b + 1
  <2>1. Ins = <<MachineOp(op), "t2", "t0", "t1">> /\ k < Len(s)
    BY <1>3, <1>5, <1>11
  <2>2. regs["t0"] = OperandValue(x) /\ Loading(y, "t1", b + 1)
    <3>1. k > a /\ k <= a + b + 1 /\ k - a = b + 1
      BY <1>15, <1>11 DEF Parts
    <3> QED  BY <3>1 DEF BinaryAt
  <2>3. regs["t1"] = OperandValue(y)
    BY <2>2 DEF Loading
  <2>4. OnlySets("t2") /\ regs'["t2"] = v
    BY <1>6, <2>1, <2>2, <2>3, BinaryMiddle
  <2>5. PICK k1 : k1 = k + 1
    OBVIOUS
  <2>6. ~(k1 <= a) /\ ~(k1 <= a + b + 1) /\ k1 - (a + b + 1) = 1
    BY <1>11, <1>15, <2>5 DEF Parts
  <2>7. Building("t8", n, 1)'
    BY DEF Building
  <2>8. BinaryAt(x, y, v, n, a, b, k1)'
    BY <2>4, <2>6, <2>7 DEF BinaryAt
  <2> QED  BY <1>3, <1>5, <1>6, <1>8, <2>1, <2>4, <2>5, <2>8
<1>12. CASE k > a + b + 1
  <2>1. PICK j : j = k - (a + b + 1)
    OBVIOUS
  <2>2. j \in 1 .. c /\ k = a + b + 1 + j
    BY <1>15, <1>12, <2>1 DEF Parts
  <2>3. Ins = SlotAccess("st.w", "t2", d, "t8")[j]
    <3>1. Ins = StoreFromGreg(d, "t2")[j]
      BY <1>5, <2>2
    <3>2. StoreOp("int") = "st.w"
      BY DEF StoreOp
    <3> QED  BY <3>1, <3>2 DEF StoreFromGreg
  <2>4. regs["t2"] = v /\ Building("t8", n, j)
    BY <1>12, <2>1 DEF BinaryAt
  <2>5. Bytes("st.w") = Width(d)
    BY <1>1 DEF Bytes
  <2>6. /\ j < c => OnlySets("t8") /\ Building("t8", slot[d], j + 1)'
        /\ j = c =>
              /\ regs' = regs /\ mpc' = mpc + 1
              /\ mem' = Over(Cells(Frame0 + slot[d], Width(d), Stored("st.w", regs["t2"])), mem)
    BY <1>1, <1>2, <1>6, <2>2, <2>3, <2>4, <2>5, StoreStep
  <2>7. CASE j < c
    <3>1. k < Len(s)
      BY <1>3, <1>5, <2>2, <2>7
    <3>2. PICK k1 : k1 = k + 1
      OBVIOUS
    <3>3. ~(k1 <= a) /\ ~(k1 <= a + b + 1) /\ k1 - (a + b + 1) = j + 1
      BY <1>12, <1>15, <2>1, <3>2 DEF Parts
    <3>4. Building("t8", n, j + 1)'
      BY <1>7, <2>6, <2>7 DEF Building
    <3>5. regs'["t2"] = v
      BY <1>6, <2>4, <2>6, <2>7 DEF OnlySets
    <3>6. Building("t8", n, k1 - (a + b + 1))'
      BY <3>3, <3>4
    <3>7. BinaryAt(x, y, v, n, a, b, k1)'
      BY <3>3, <3>5, <3>6 DEF BinaryAt
    <3> QED  BY <1>3, <1>5, <1>6, <1>8, <2>6, <2>7, <3>1, <3>2, <3>7
  <2>8. CASE j = c
    <3>1. k = Len(s) /\ ~(k < Len(s))
      BY <1>3, <1>5, <2>2, <2>8
    <3>2. OperandValue(x) \in Int /\ OperandValue(y) \in Int
      <4>1. ASSUME NEW o, IsOperand(fn, o, "int") PROVE OperandValue(o) \in Int
        <5>1. CASE o[1] = "const"
          BY <4>1, <5>1 DEF IsOperand, OperandValue
        <5>2. CASE o[1] = "def"
          BY <1>6, <4>1, <5>2, OperandForms DEF OperandValue, Ints
        <5> QED  BY <4>1, <5>1, <5>2 DEF IsOperand
      <4> QED  BY <4>1
    <3>3. v \in -Half .. Half - 1 /\ v \in Int
      BY <3>2, OutcomeInt, HalfAssumption
    <3>4. Stored("st.w", v) = v
      <4>1. Signed(v, Word) = v
        BY <3>3, HighParts DEF Word32
      <4> QED  BY <4>1 DEF Stored
    <3>5. mem' = Over(Cells(Frame0 + slot[d], Width(d), v), mem) /\ regs' = regs /\ mpc' = mpc + 1
      BY <2>4, <2>6, <2>8, <3>4
    <3>6. Ints'
      BY <1>1, <1>6, <3>3, <3>5, IntsStored
    <3>7. /\ Machine' /\ Saved' /\ SlotValue(d)' = v
          /\ \A e \in Defs : HasSlot(e) /\ e # d => SlotValue(e)' = SlotValue(e)
      BY <1>1, <1>6, <3>5, SlotStored
    <3> QED  BY <1>3, <1>5, <3>1, <3>5, <3>6, <3>7 DEF Going
  <2> QED  BY <1>3, <2>2, <2>7, <2>8
<1> QED  BY <1>13, <1>3, <1>9, <1>10, <1>11, <1>12

(* A load of a global float.                                               *)
FloatAt(g, n, k) ==
    /\ k = 2 => regs["t0"] = GlobalAt(g)
    /\ k > 2 => regs["ft0"] = Globals[g] /\ Building("t8", n, k - 2)

(* One instruction of a load of a float: at the end the slot has the       *)
(* value.                                                                  *)
LEMMA FloatStep ==
    ASSUME Execute, Going, Settled, NEW d \in Defs, TypeOf(d) = "float",
           NEW x, IsOperand(fn, x, "ptr"), x[1] = "global", NEW g, g = x[2],
           NEW s, Segments(s, LoadToGreg(x, "t0"), << >>, <<"fld.s", "ft0", "t0", 0>>,
                           StoreFromFreg(d, "ft0")),
           NEW n, n = slot[d], NEW k \in 1 .. Len(s), Ins = s[k], FloatAt(g, n, k)
    PROVE  /\ Len(s) \in Nat /\ Going' /\ mpc' = mpc + 1
           /\ k < Len(s) => mem' = mem /\ FloatAt(g, n, k + 1)'
           /\ k = Len(s) => /\ SlotValue(d)' = Globals[g]
                            /\ \A e \in Defs : HasSlot(e) /\ e # d => SlotValue(e)' = SlotValue(e)
<1>1. HasSlot(d) /\ Width(d) = 4
  BY FloatWidths DEF HasSlot, Width
<1>2. PICK c : c = AccessLen(n)
  OBVIOUS
<1>3. c \in {1, 6}
  BY <1>2 DEF AccessLen
<1>4. /\ LoadToGreg(x, "t0") = <<<<"la.local", "t0", g>>>>
      /\ Len(LoadToGreg(x, "t0")) = 1 /\ LoadToGreg(x, "t0")[1] = <<"la.local", "t0", g>>
      /\ Len(StoreFromFreg(d, "ft0")) = c /\ Len(<< >>) = 0
  <2>1. LoadToGreg(x, "t0") = <<<<"la.local", "t0", g>>>>
    BY DEF LoadToGreg
  <2>2. Len(StoreFromFreg(d, "ft0")) = c
    BY <1>1, <1>2, StoreCode
  <2> QED  BY <2>1, <2>2, OneSeq
<1>5. /\ Len(s) = 2 + c
      /\ s[1] = <<"la.local", "t0", g>>
      /\ s[2] = <<"fld.s", "ft0", "t0", 0>>
      /\ \A j \in 1 .. c : s[2 + j] = StoreFromFreg(d, "ft0")[j]
  <2>1. /\ Len(s) = 1 + 0 + 1 + c
        /\ \A j \in 1 .. 1 : s[j] = LoadToGreg(x, "t0")[j]
        /\ s[1 + 0 + 1] = <<"fld.s", "ft0", "t0", 0>>
        /\ \A j \in 1 .. c : s[1 + 0 + 1 + j] = StoreFromFreg(d, "ft0")[j]
    BY <1>4 DEF Segments
  <2>2. 1 \in 1 .. 1 /\ 1 + 0 + 1 = 2 /\ 1 + 0 + 1 + c = 2 + c
    BY <1>3
  <2> QED  BY <1>4, <2>1, <2>2
<1>6. /\ Machine /\ Saved /\ Ints /\ DOMAIN regs = Registers
      /\ {"t0", "ft0", "t8"} \subseteq Temporaries /\ Temporaries \subseteq Registers
  BY Named DEF Going, Machine, Saved, Temporaries
<1>7. g \in DOMAIN Globals /\ g \in Nat /\ Frame0 \in Nat
  BY MachineAssumption, Numbers DEF IsOperand
<1>8. ASSUME NEW r \in Temporaries, OnlySets(r)
      PROVE  /\ Going' /\ mpc' = mpc + 1 /\ mem' = mem
  BY <1>6, <1>8, TemporarySet DEF Going, OnlySets
<1>9. k \in Nat /\ (k = 1 \/ k = 2 \/ k > 2) /\ Len(s) \in Nat
  BY <1>3, <1>5
<1>10. CASE k = 1
  <2>1. Ins = <<"la.local", "t0", g>> /\ k < Len(s)
    BY <1>3, <1>5, <1>10
  <2>2. Sets("t0", GlobalAt(g))
    BY <2>1, ExecutedImmediate
  <2>3. OnlySets("t0") /\ regs'["t0"] = GlobalAt(g)
    BY <1>6, <2>2, SetsOne
  <2>4. FloatAt(g, n, k + 1)'
    BY <1>10, <2>3 DEF FloatAt, GlobalAt
  <2> QED  BY <1>6, <1>8, <1>9, <2>1, <2>3, <2>4
<1>11. CASE k = 2
  <2>1. Ins = <<"fld.s", "ft0", "t0", 0>> /\ k < Len(s)
    BY <1>3, <1>5, <1>11
  <2>2. Ins[1] = "fld.s" /\ Ins[2] = "ft0" /\ Ins[3] = "t0" /\ Ins[4] = 0
    BY <2>1
  <2>3. regs[Ins[3]] + Ins[4] = GlobalAt(g)
    BY <1>7, <1>11, <2>2 DEF FloatAt, GlobalAt
  <2>4. Sets("ft0", Read(GlobalAt(g), 4))
    BY <2>2, <2>3, ExecutedMemory, FloatWidths
  <2>5. Read(GlobalAt(g), 4) = Globals[g]
    BY <1>6, <1>7 DEF Machine, GlobalsKept
  <2>6. OnlySets("ft0") /\ regs'["ft0"] = Globals[g]
    BY <1>6, <2>4, <2>5, SetsOne
  <2>7. Building("t8", n, (k + 1) - 2)'
    BY <1>11 DEF Building
  <2>8. FloatAt(g, n, k + 1)'
    BY <1>11, <2>6, <2>7 DEF FloatAt
  <2> QED  BY <1>6, <1>8, <1>9, <2>1, <2>6, <2>8
<1>12. CASE k > 2
  <2>1. PICK j : j = k - 2
    OBVIOUS
  <2>2. j \in 1 .. c /\ k = 2 + j
    BY <1>3, <1>5, <1>9, <1>12, <2>1
  <2>3. Ins = SlotAccess("fst.s", "ft0", d, "t8")[j]
    BY <1>5, <2>2 DEF StoreFromFreg
  <2>4. regs["ft0"] = Globals[g] /\ Building("t8", n, j)
    BY <1>12, <2>1 DEF FloatAt
  <2>5. Bytes("fst.s") = Width(d)
    BY <1>1 DEF Bytes
  <2>6. /\ j < c => OnlySets("t8") /\ Building("t8", slot[d], j + 1)'
        /\ j = c =>
              /\ regs' = regs /\ mpc' = mpc + 1
              /\ mem' = Over(Cells(Frame0 + slot[d], Width(d), Stored("fst.s", regs["ft0"])), mem)
    BY <1>1, <1>2, <1>6, <2>2, <2>3, <2>4, <2>5, StoreStep
  <2>7. CASE j < c
    <3>1. k < Len(s) /\ k + 1 > 2 /\ k + 1 # 2 /\ (k + 1) - 2 = j + 1
      BY <1>3, <1>5, <2>2, <2>7
    <3>2. slot'[d] = n
      BY Unmoved
    <3>3. Building("t8", n, j + 1)'
      BY <2>6, <2>7, <3>2 DEF Building
    <3>4. regs'["ft0"] = Globals[g]
      BY <1>6, <2>4, <2>6, <2>7 DEF OnlySets, Temporaries
    <3>5. PICK k1 : k1 = k + 1
      OBVIOUS
    <3>6. Building("t8", n, k1 - 2)'
      BY <3>1, <3>3, <3>5
    <3>7. FloatAt(g, n, k1)'
      BY <3>1, <3>4, <3>5, <3>6 DEF FloatAt
    <3> QED  BY <1>6, <1>8, <1>9, <2>6, <2>7, <3>1, <3>5, <3>7
  <2>8. CASE j = c
    <3>1. k = Len(s) /\ ~(k < Len(s))
      BY <1>3, <1>5, <2>2, <2>8
    <3>2. Stored("fst.s", Globals[g]) = Globals[g]
      BY DEF Stored
    <3>3. PICK v : v = Globals[g]
      OBVIOUS
    <3>4. mem' = Over(Cells(Frame0 + slot[d], Width(d), v), mem) /\ regs' = regs /\ mpc' = mpc + 1
      BY <2>4, <2>6, <2>8, <3>2, <3>3
    <3>5. Ints'
      BY <1>1, <1>6, <3>4, IntsStored
    <3>6. /\ Machine' /\ Saved' /\ SlotValue(d)' = v
          /\ \A e \in Defs : HasSlot(e) /\ e # d => SlotValue(e)' = SlotValue(e)
      BY <1>1, <1>6, <3>4, SlotStored
    <3> QED  BY <1>9, <3>1, <3>3, <3>4, <3>5, <3>6 DEF Going
  <2> QED  BY <1>3, <2>2, <2>7, <2>8
<1> QED  BY <1>9, <1>10, <1>11, <1>12

(* An argument is stored.                                                  *)
LEMMA ArgStep ==
    ASSUME Execute, FrameType, Settled, inputs \in Inputs, NEW d \in 1 .. Args, Rank(d) \in 1 .. 8,
           Filled(d - 1), NEW k \in 1 .. AccessLen(slot[d]), Ins = ArgCode(d)[k],
           Building("t8", slot[d], k)
    PROVE  /\ mpc' = mpc + 1
           /\ k < AccessLen(slot[d]) => Filled(d - 1)' /\ Building("t8", slot[d], k + 1)'
           /\ k = AccessLen(slot[d]) => Filled(d)'
<1>1. d \in Defs /\ TypeOf(d) \in {"int", "float", "ptr"} /\ HasSlot(d)
  BY ArgTypes DEF HasSlot
<1>2. Machine /\ Saved /\ ArgsAt(d - 1)
  BY DEF Filled
<1>3. d \in Nat /\ Args \in Nat /\ d - 1 \in Nat /\ d <= Args
  BY FunctionTypes DEF FrameType, Args
<1>4. AccessLen(slot[d]) \in {1, 6}
  BY DEF AccessLen
<1>5. PICK op \in {"st.w", "st.d", "fst.s"} :
          /\ Ins = SlotAccess(op, ArgRegister(d), d, "t8")[k] /\ Bytes(op) = Width(d)
          /\ op = "st.w" => TypeOf(d) = "int"
  <2>1. CASE TypeOf(d) = "float"
    <3>1. IsFloatArg(d)
      BY <2>1 DEF IsFloatArg
    <3>2. Ins = SlotAccess("fst.s", ArgRegister(d), d, "t8")[k]
      BY <3>1 DEF ArgCode, StoreFromFreg, ArgRegister
    <3>3. Bytes("fst.s") = Width(d)
      BY <2>1, FloatWidths DEF Width
    <3> QED  BY <3>2, <3>3
  <2>2. CASE TypeOf(d) # "float"
    <3>1. ~IsFloatArg(d)
      BY <2>2 DEF IsFloatArg
    <3>2. Ins = SlotAccess(StoreOp(TypeOf(d)), ArgRegister(d), d, "t8")[k]
      BY <3>1 DEF ArgCode, StoreFromGreg, ArgRegister
    <3>3. TypeOf(d) \in {"int", "ptr"}
      BY <1>1, <2>2
    <3>4. Bytes(StoreOp(TypeOf(d))) = Width(d) /\ StoreOp(TypeOf(d)) \in {"st.w", "st.d"}
      BY <3>3, LoadWidths DEF Width
    <3>5. StoreOp("ptr") = "st.d"
      BY DEF StoreOp
    <3> QED  BY <3>2, <3>3, <3>4, <3>5
  <2> QED  BY <2>1, <2>2
<1>6. PICK r : r = ArgRegister(d)
  OBVIOUS
<1>7. /\ k < AccessLen(slot[d]) => OnlySets("t8") /\ Building("t8", slot[d], k + 1)'
      /\ k = AccessLen(slot[d]) =>
            /\ regs' = regs /\ mpc' = mpc + 1
            /\ mem' = Over(Cells(Frame0 + slot[d], Width(d), Stored(op, regs[r])), mem)
  BY <1>1, <1>2, <1>5, <1>6, StoreStep
<1>8. CASE k < AccessLen(slot[d])
  <2>1. "t8" \in Temporaries
    BY DEF Temporaries
  <2>2. PICK m : m = d - 1
    OBVIOUS
  <2>3. Machine' /\ Saved' /\ ArgsAt(m)'
    BY <1>2, <1>7, <1>8, <2>1, <2>2, TemporarySet
  <2> QED  BY <1>4, <1>7, <1>8, <2>2, <2>3 DEF Filled, OnlySets
<1>9. CASE k = AccessLen(slot[d])
  <2>1. PICK v : v = InputOf(d)
    OBVIOUS
  <2>2. regs[r] = v
    <3>1. d \in (d - 1) + 1 .. Args
      BY <1>3
    <3> QED  BY <1>2, <1>6, <2>1, <3>1 DEF ArgsAt
  <2>3. Stored(op, v) = v
    <3>1. CASE op = "st.w"
      <4>1. TypeOf(d) = "int" /\ fn.args[d] = "int" /\ fn \in Functions /\ d \in 1 .. Len(fn.args)
        BY <1>3, <1>5, <3>1 DEF TypeOf, TypeIn, Args, FrameType
      <4>2. v \in Word32
        BY <2>1, <4>1, MachineAssumption DEF InputOf, Word32
      <4>3. Signed(v, Word) = v
        BY <4>2, HighParts
      <4> QED  BY <3>1, <4>3 DEF Stored
    <3>2. CASE op # "st.w"
      BY <3>2 DEF Stored
    <3> QED  BY <3>1, <3>2
  <2>4. mem' = Over(Cells(Frame0 + slot[d], Width(d), v), mem) /\ regs' = regs /\ mpc' = mpc + 1
    BY <1>7, <1>9, <2>2, <2>3
  <2>5. /\ Machine' /\ Saved' /\ SlotValue(d)' = v
        /\ \A e \in Defs : HasSlot(e) /\ e # d =>
              /\ SlotValue(e)' = SlotValue(e)
              /\ Frame0 + slot[e] \notin DOMAIN mem => Frame0 + slot[e] \notin DOMAIN mem'
    BY <1>1, <1>2, <2>4, SlotStored
  <2>6. /\ Args' = Args /\ Defs' = Defs
        /\ \A e : /\ HasSlot(e)' = HasSlot(e) /\ InputOf(e)' = InputOf(e) /\ Rank(e)' = Rank(e)
                  /\ ArgRegister(e)' = ArgRegister(e) /\ slot'[e] = slot[e]
    BY Unmoved
  <2>7. ASSUME NEW e \in 1 .. d PROVE SlotValue(e)' = InputOf(e)
    <3>1. CASE e = d
      BY <2>1, <2>5, <3>1
    <3>2. CASE e # d
      <4>1. e \in 1 .. d - 1 /\ e \in 1 .. Args
        BY <1>3, <3>2
      <4>2. e \in Defs /\ HasSlot(e)
        BY <4>1, ArgTypes DEF HasSlot
      <4> QED  BY <1>2, <2>5, <3>2, <4>1, <4>2 DEF ArgsAt
    <3> QED  BY <3>1, <3>2
  <2>8. ASSUME NEW e \in d + 1 .. Args, Rank(e) \in 1 .. 8
        PROVE  regs'[ArgRegister(e)] = InputOf(e)
    <3>1. e \in (d - 1) + 1 .. Args
      BY <1>3
    <3> QED  BY <1>2, <2>4, <2>8, <3>1 DEF ArgsAt
  <2>9. ASSUME NEW e \in Defs, HasSlot(e), e > d
        PROVE  Frame0 + slot[e] \notin DOMAIN mem'
    <3>1. e \in Int
      BY DEF Defs
    <3>2. e > d - 1 /\ e # d
      BY <1>3, <2>9, <3>1
    <3> QED  BY <1>2, <2>5, <2>9, <3>2 DEF ArgsAt
  <2>10. ArgsAt(d)'
    BY <2>6, <2>7, <2>8, <2>9 DEF ArgsAt
  <2> QED  BY <1>4, <1>9, <2>4, <2>5, <2>10 DEF Filled
<1> QED  BY <1>4, <1>8, <1>9 , <1>7 DEF OnlySets

(* Saving the registers, before the k-th instruction of a frame of n bytes.*)
Saving(n, k) ==
    /\ regs["ra"] = ReturnAddress
    /\ k <= SaveAt(n) + 2 => regs["fp"] = CallerFp
    /\ k > SaveAt(n) + 1 => Read(Frame0 - 8, 8) = ReturnAddress
    /\ k > SaveAt(n) + 2 => Read(Frame0 - 16, 8) = CallerFp
    /\ k <= SaveAt(n) + 3 => regs["sp"] = Frame0
    /\ k = SaveAt(n) + 4 =>
          /\ FitsImm12(-n) => regs["sp"] = Frame0 /\ regs["fp"] = Frame0
          /\ ~FitsImm12(-n) => regs["sp"] = Frame0 - n
    /\ ~FitsImm12(-n) => (k <= 4 => Building("t0", n, k)) /\ (k >= 5 => regs["t0"] = n)

(* An instruction of the prologue that sets a register.                    *)
LEMMA PrologueSets ==
    ASSUME Execute, Machine, ArgsAt(0), NEW r \in {"t0", "sp", "fp"}, OnlySets(r)
    PROVE  /\ Machine' /\ ArgsAt(0)' /\ mpc' = mpc + 1
           /\ Read(Frame0 - 8, 8)' = Read(Frame0 - 8, 8)
           /\ Read(Frame0 - 16, 8)' = Read(Frame0 - 16, 8)
           /\ \A q \in {"ra", "sp", "fp", "t0"} : q # r => regs'[q] = regs[q]
<1>1. /\ DOMAIN regs' = Registers /\ mem' = mem /\ mpc' = mpc + 1
      /\ \A q \in Registers : q # r => regs'[q] = regs[q]
  BY DEF OnlySets, Machine
<1>2. {"ra", "sp", "fp", "t0", "zero"} \subseteq Registers
  BY Named DEF Temporaries
<1>3. /\ UNCHANGED <<fn, slot, frameSize>> /\ Args' = Args /\ Defs' = Defs
      /\ \A d : /\ HasSlot(d)' = HasSlot(d) /\ TypeOf(d)' = TypeOf(d)
                /\ InputOf(d)' = InputOf(d) /\ Rank(d)' = Rank(d)
                /\ ArgRegister(d)' = ArgRegister(d) /\ slot'[d] = slot[d]
  BY Unmoved
<1>4. \A d : SlotValue(d)' = SlotValue(d)
  BY <1>1, SameValues
<1>5. \A a, n : Read(a, n)' = Read(a, n)
  BY <1>1, SameValues
<1>6. GlobalsKept'
  <2>1. ASSUME NEW g \in DOMAIN Globals PROVE (Read(GlobalAt(g), 4) = Globals[g])'
    <3>1. PICK a : a = GlobalAt(g)
      OBVIOUS
    <3>2. Read(a, 4)' = Read(a, 4)
      BY <1>5
    <3>3. Read(a, 4) = Globals[g]
      BY <3>1 DEF Machine, GlobalsKept
    <3>4. GlobalAt(g)' = GlobalAt(g)
      BY DEF GlobalAt
    <3> QED  BY <3>1, <3>2, <3>3, <3>4
  <2> QED  BY <2>1 DEF GlobalsKept
<1>7. Machine'
  BY <1>1, <1>2, <1>3, <1>6 DEF Machine, InFrame
<1>8. ArgsAt(0)'
  <2>1. ASSUME NEW e \in 0 + 1 .. Args, Rank(e) \in 1 .. 8
        PROVE  regs'[ArgRegister(e)] = InputOf(e)
    <3>1. ArgRegister(e) \in Registers /\ ArgRegister(e) # r
      BY <2>1, ArgRegisters DEF Temporaries
    <3> QED  BY <1>1, <2>1, <3>1 DEF ArgsAt
  <2> QED  BY <1>1, <1>3, <1>4, <2>1 DEF ArgsAt
<1> QED  BY <1>1, <1>2, <1>5, <1>7, <1>8

(* An instruction of the prologue that saves a register.                   *)
LEMMA PrologueStores ==
    ASSUME Execute, Settled, Machine, ArgsAt(0), NEW a \in {Frame0 - 8, Frame0 - 16}, NEW v,
           regs' = regs, mem' = Over(Cells(a, 8, v), mem)
    PROVE  /\ Machine' /\ ArgsAt(0)' /\ Read(a, 8)' = v
           /\ a # Frame0 - 8 => Read(Frame0 - 8, 8)' = Read(Frame0 - 8, 8)
<1>1. /\ Frame0 \in Nat /\ frameSize \in Nat /\ frameSize >= 16 /\ a \in Int
      /\ a >= Frame0 - 16 /\ a + 8 <= Frame0
  BY Numbers DEF Settled, Base
<1>2. /\ DOMAIN mem' = DOMAIN mem \cup (a .. a + 8 - 1)
      /\ Read(a, 8)' = v
      /\ \A b \in Int, m \in {1, 4, 8} :
            b + m <= a \/ a + 8 <= b => Read(b, m)' = Read(b, m)
  BY <1>1, Written
<1>3. /\ UNCHANGED <<fn, slot, frameSize>> /\ Args' = Args /\ Defs' = Defs
      /\ \A d : /\ HasSlot(d)' = HasSlot(d) /\ InputOf(d)' = InputOf(d) /\ Rank(d)' = Rank(d)
                /\ ArgRegister(d)' = ArgRegister(d) /\ slot'[d] = slot[d]
  BY Unmoved
<1>4. InFrame'
  <2>1. ASSUME NEW c \in DOMAIN mem' PROVE c >= Frame0 - frameSize /\ (c < Frame0 \/ c >= 2 * Frame0)
    <3>1. CASE c \in DOMAIN mem
      BY <3>1 DEF Machine, InFrame
    <3>2. CASE c \in a .. a + 8 - 1
      BY <1>1, <3>2
    <3> QED  BY <1>2, <3>1, <3>2
  <2> QED  BY <1>3, <2>1 DEF InFrame
<1>5. GlobalsKept'
  <2>1. ASSUME NEW g \in DOMAIN Globals PROVE (Read(GlobalAt(g), 4) = Globals[g])'
    <3>1. g \in Nat
      BY MachineAssumption
    <3>2. PICK b : b = GlobalAt(g)
      OBVIOUS
    <3>3. b \in Int /\ a + 8 <= b
      BY <1>1, <3>1, <3>2 DEF GlobalAt
    <3>4. Read(b, 4)' = Read(b, 4)
      BY <1>2, <3>3
    <3>5. Read(b, 4) = Globals[g]
      BY <3>2 DEF Machine, GlobalsKept
    <3>6. GlobalAt(g)' = GlobalAt(g)
      BY DEF GlobalAt
    <3> QED  BY <3>2, <3>4, <3>5, <3>6
  <2> QED  BY <2>1 DEF GlobalsKept
<1>6. Machine'
  BY <1>4, <1>5 DEF Machine
<1>7. ArgsAt(0)'
  <2>1. ASSUME NEW d \in Defs, HasSlot(d), d > 0 PROVE Frame0 + slot[d] \notin DOMAIN mem'
    <3>1. PICK b : b = Frame0 + slot[d]
      OBVIOUS
    <3>2. b \in Int /\ Width(d) \in {1, 4, 8} /\ b + Width(d) <= Frame0 - 16
      BY <2>1, <3>1, SlotCells
    <3>3. b \notin a .. a + 8 - 1
      BY <1>1, <3>2
    <3>4. b \notin DOMAIN mem
      BY <2>1, <3>1 DEF ArgsAt
    <3> QED  BY <1>2, <3>1, <3>3, <3>4
  <2>2. \A e \in 1 .. 0 : FALSE
    OBVIOUS
  <2> QED  BY <1>3, <2>1, <2>2 DEF ArgsAt
<1>8. ASSUME a # Frame0 - 8 PROVE Read(Frame0 - 8, 8)' = Read(Frame0 - 8, 8)
  <2>1. Frame0 - 8 \in Int /\ a + 8 <= Frame0 - 8
    BY <1>1, <1>8
  <2> QED  BY <1>2, <2>1
<1> QED  BY <1>2, <1>6, <1>7, <1>8

(* The numbers of the prologue stay inside the address space.              *)
LEMMA FrameValues ==
    ASSUME NEW n \in Nat, n < Half
    PROVE  /\ n \in Word32 /\ -n \in Word32 /\ -n <= 0
           /\ Signed(Frame0 + 0, Double) = Frame0
           /\ Signed(Frame0 + -n, Double) = Frame0 - n
           /\ Signed(Frame0 - n, Double) = Frame0 - n
           /\ Signed((Frame0 - n) + n, Double) = Frame0
<1>1. Half \in Nat /\ Frame0 \in Nat
  BY Numbers
<1>2. n \in Word32 /\ -n \in Word32 /\ -n <= 0 /\ 0 \in Word32 /\ 0 <= 0
  BY <1>1 DEF Word32
<1>3. Signed(Frame0 + 0, Double) = Frame0 + 0 /\ Signed(Frame0 + -n, Double) = Frame0 + -n
  BY <1>2, BuiltValues
<1>4. Frame0 + 0 = Frame0 /\ Frame0 + -n = Frame0 - n /\ (Frame0 - n) + n = Frame0
  BY <1>1
<1> QED  BY <1>2, <1>3, <1>4

(* One instruction of the prologue: at the end the registers are saved.    *)
LEMMA SaveStep ==
    ASSUME Execute, Settled, Machine, ArgsAt(0), NEW n, n = frameSize, NEW s, SaveOf(s, n),
           NEW k \in 1 .. Len(s), Ins = s[k], Saving(n, k)
    PROVE  /\ Len(s) \in Nat /\ mpc' = mpc + 1
           /\ k < Len(s) => Machine' /\ ArgsAt(0)' /\ Saving(n, k + 1)'
           /\ k = Len(s) => Filled(0)'
<1>1. /\ n \in Nat /\ n < Half /\ Frame0 \in Nat
      /\ n \in Word32 /\ -n \in Word32 /\ -n <= 0
      /\ Signed(Frame0 + 0, Double) = Frame0
      /\ Signed(Frame0 + -n, Double) = Frame0 - n
      /\ Signed(Frame0 - n, Double) = Frame0 - n
      /\ Signed((Frame0 - n) + n, Double) = Frame0
  BY FrameValues, Numbers DEF Settled
<1>2. PICK m : m = SaveAt(n)
  OBVIOUS
<1>3. /\ m \in {0, 4} /\ Len(s) = m + 4 /\ (FitsImm12(-n) <=> m = 0)
  BY <1>2 DEF SaveOf, SaveAt
<1>4. k \in Nat /\ Len(s) \in Nat /\ ((m = 4 /\ k \in 1 .. 4) \/ k = m + 1 \/ k = m + 2 \/ k = m + 3 \/ k = m + 4)
  BY <1>3
<1>5. {"t0", "sp", "fp"} \subseteq Registers /\ DOMAIN regs = Registers
  BY Named DEF Machine, Temporaries
<1>6. frameSize' = n
  BY Unmoved
<1>7. CASE m = 4 /\ k \in 1 .. 4
  <2>1. Ins = LargeInt64(n, "t0")[k] /\ ~FitsImm12(-n)
    BY <1>3, <1>7 DEF SaveOf
  <2>2. Building("t0", n, k)
    BY <1>7, <2>1 DEF Saving
  <2>3. OnlySets("t0") /\ Building("t0", n, k + 1)'
    BY <1>1, <1>5, <1>7, <2>1, <2>2, BuildStep
  <2>4. /\ Machine' /\ ArgsAt(0)' /\ mpc' = mpc + 1
        /\ Read(Frame0 - 8, 8)' = Read(Frame0 - 8, 8)
        /\ Read(Frame0 - 16, 8)' = Read(Frame0 - 16, 8)
        /\ regs'["ra"] = regs["ra"] /\ regs'["sp"] = regs["sp"] /\ regs'["fp"] = regs["fp"]
    BY <2>3, PrologueSets
  <2>5. PICK j : j = k + 1
    OBVIOUS
  <2>6. /\ j \in 2 .. 5 /\ j <= m + 2 /\ ~(j > m + 1) /\ ~(j > m + 2) /\ j <= m + 3 /\ j # m + 4
        /\ k <= m + 2 /\ k <= m + 3 /\ k < Len(s) /\ k # Len(s)
    BY <1>3, <1>7, <2>5
  <2>7. Building("t0", n, j)'
    BY <2>3, <2>5
  <2>8. j >= 5 => regs'["t0"] = n
    <3>1. j >= 5 => j \in 3 .. 5
      BY <2>6
    <3> QED  BY <2>7, <3>1 DEF Building
  <2>9. regs["ra"] = ReturnAddress /\ regs["fp"] = CallerFp /\ regs["sp"] = Frame0
    BY <1>2, <2>6 DEF Saving
  <2>10. Saving(n, j)'
    BY <1>2, <2>4, <2>6, <2>7, <2>8, <2>9 DEF Saving
  <2> QED  BY <1>4, <2>4, <2>5, <2>6, <2>10
<1>8. CASE k = m + 1
  <2>1. Ins = <<"st.d", "ra", "sp", -8>>
    BY <1>2, <1>8 DEF SaveOf
  <2>2. /\ k <= m + 2 /\ k <= m + 3 /\ (m = 4 => k >= 5) /\ k < Len(s) /\ k # Len(s)
    BY <1>3, <1>8
  <2>3. /\ regs["ra"] = ReturnAddress /\ regs["fp"] = CallerFp /\ regs["sp"] = Frame0
        /\ (~FitsImm12(-n) => regs["t0"] = n)
    BY <1>2, <1>3, <2>2 DEF Saving
  <2>4. Ins[1] = "st.d" /\ Ins[2] = "ra" /\ Ins[3] = "sp" /\ Ins[4] = -8
    BY <2>1
  <2>5. regs[Ins[3]] + Ins[4] = Frame0 - 8 /\ Bytes("st.d") = 8
        /\ Stored("st.d", regs["ra"]) = ReturnAddress
    BY <1>1, <2>3, <2>4 DEF Bytes, Stored
  <2>6. regs' = regs /\ mpc' = mpc + 1 /\ mem' = Over(Cells(Frame0 - 8, 8, ReturnAddress), mem)
    BY <2>4, <2>5, ExecutedMemory
  <2>7. PICK v : v = ReturnAddress
    OBVIOUS
  <2>8. PICK a \in {Frame0 - 8, Frame0 - 16} : a = Frame0 - 8
    OBVIOUS
  <2>9. Machine' /\ ArgsAt(0)' /\ Read(a, 8)' = v
    BY <2>6, <2>7, <2>8, PrologueStores
  <2>10. Read(Frame0 - 8, 8)' = ReturnAddress
    BY <2>7, <2>8, <2>9
  <2>11. PICK j : j = k + 1
    OBVIOUS
  <2>12. /\ j <= m + 2 /\ ~(j > m + 2) /\ j <= m + 3 /\ j # m + 4 /\ (m = 4 => ~(j <= 4))
    BY <1>3, <1>8, <2>11
  <2>13. Saving(n, j)'
    <3>1. regs'["ra"] = ReturnAddress /\ regs'["fp"] = CallerFp /\ regs'["sp"] = Frame0
          /\ (~FitsImm12(-n) => regs'["t0"] = n)
      BY <2>3, <2>6
    <3>2. ReturnAddress' = ReturnAddress /\ CallerFp' = CallerFp
      BY DEF ReturnAddress, CallerFp
    <3> QED  BY <1>2, <1>3, <2>10, <2>12, <3>1, <3>2 DEF Saving
  <2> QED  BY <1>4, <2>2, <2>6, <2>9, <2>11, <2>13
<1>9. CASE k = m + 2
  <2>1. Ins = <<"st.d", "fp", "sp", -16>>
    BY <1>2, <1>9 DEF SaveOf
  <2>2. /\ k <= m + 2 /\ k <= m + 3 /\ (m = 4 => k >= 5) /\ k > m + 1 /\ k < Len(s) /\ k # Len(s)
    BY <1>3, <1>9
  <2>3. /\ regs["ra"] = ReturnAddress /\ regs["fp"] = CallerFp /\ regs["sp"] = Frame0
        /\ (~FitsImm12(-n) => regs["t0"] = n) /\ Read(Frame0 - 8, 8) = ReturnAddress
    BY <1>2, <1>3, <2>2 DEF Saving
  <2>4. Ins[1] = "st.d" /\ Ins[2] = "fp" /\ Ins[3] = "sp" /\ Ins[4] = -16
    BY <2>1
  <2>5. regs[Ins[3]] + Ins[4] = Frame0 - 16 /\ Bytes("st.d") = 8
        /\ Stored("st.d", regs["fp"]) = CallerFp
    BY <1>1, <2>3, <2>4 DEF Bytes, Stored
  <2>6. regs' = regs /\ mpc' = mpc + 1 /\ mem' = Over(Cells(Frame0 - 16, 8, CallerFp), mem)
    BY <2>4, <2>5, ExecutedMemory
  <2>7. PICK v : v = CallerFp
    OBVIOUS
  <2>8. PICK a \in {Frame0 - 8, Frame0 - 16} : a = Frame0 - 16
    OBVIOUS
  <2>9. a # Frame0 - 8
    BY <1>1, <2>8
  <2>10. Machine' /\ ArgsAt(0)' /\ Read(a, 8)' = v /\ Read(Frame0 - 8, 8)' = Read(Frame0 - 8, 8)
    BY <2>6, <2>7, <2>8, <2>9, PrologueStores
  <2>11. Read(Frame0 - 16, 8)' = CallerFp /\ Read(Frame0 - 8, 8)' = ReturnAddress
    BY <2>3, <2>7, <2>8, <2>10
  <2>12. PICK j : j = k + 1
    OBVIOUS
  <2>13. /\ ~(j <= m + 2) /\ j <= m + 3 /\ j # m + 4 /\ (m = 4 => ~(j <= 4))
    BY <1>3, <1>9, <2>12
  <2>14. Saving(n, j)'
    <3>1. regs'["ra"] = ReturnAddress /\ regs'["sp"] = Frame0
          /\ (~FitsImm12(-n) => regs'["t0"] = n)
      BY <2>3, <2>6
    <3>2. ReturnAddress' = ReturnAddress /\ CallerFp' = CallerFp
      BY DEF ReturnAddress, CallerFp
    <3> QED  BY <1>2, <1>3, <2>11, <2>13, <3>1, <3>2 DEF Saving
  <2> QED  BY <1>4, <2>2, <2>6, <2>10, <2>12, <2>14
<1>10. CASE k = m + 3
  <2>2. /\ k <= m + 3 /\ (m = 4 => k >= 5) /\ k > m + 1 /\ k > m + 2 /\ k < Len(s) /\ k # Len(s)
        /\ (m = 0 => k = 3) /\ (m = 4 => k = 7)
    BY <1>3, <1>10
  <2>3. /\ regs["ra"] = ReturnAddress /\ regs["sp"] = Frame0
        /\ (~FitsImm12(-n) => regs["t0"] = n)
        /\ Read(Frame0 - 8, 8) = ReturnAddress /\ Read(Frame0 - 16, 8) = CallerFp
    BY <1>2, <1>3, <2>2 DEF Saving
  <2>12. PICK j : j = k + 1
    OBVIOUS
  <2>13. /\ ~(j <= m + 2) /\ ~(j <= m + 3) /\ j = m + 4 /\ (m = 4 => ~(j <= 4))
    BY <1>3, <1>10, <2>12
  <2>14. ReturnAddress' = ReturnAddress /\ CallerFp' = CallerFp
    BY DEF ReturnAddress, CallerFp
  <2>15. CASE FitsImm12(-n)
    <3>1. Ins = <<"addi.d", "fp", "sp", 0>>
      BY <1>3, <2>2, <2>15 DEF SaveOf
    <3>2. Sets("fp", Frame0)
      BY <1>1, <2>3, <3>1, ExecutedImmediate
    <3>3. OnlySets("fp") /\ regs'["fp"] = Frame0
      BY <1>5, <3>2, SetsOne
    <3>4. /\ Machine' /\ ArgsAt(0)' /\ mpc' = mpc + 1
          /\ Read(Frame0 - 8, 8)' = Read(Frame0 - 8, 8)
          /\ Read(Frame0 - 16, 8)' = Read(Frame0 - 16, 8)
          /\ regs'["ra"] = regs["ra"] /\ regs'["sp"] = regs["sp"]
      BY <3>3, PrologueSets
    <3>5. Saving(n, j)'
      BY <1>2, <1>3, <2>3, <2>13, <2>14, <2>15, <3>3, <3>4 DEF Saving
    <3> QED  BY <1>4, <2>2, <2>12, <3>4, <3>5
  <2>16. CASE ~FitsImm12(-n)
    <3>1. Ins = <<"sub.d", "sp", "sp", "t0">>
      BY <1>3, <2>2, <2>16 DEF SaveOf
    <3>2. Sets("sp", Frame0 - n)
      BY <1>1, <2>3, <2>16, <3>1, ExecutedRegister DEF Left, Right
    <3>3. OnlySets("sp") /\ regs'["sp"] = Frame0 - n
      BY <1>5, <3>2, SetsOne
    <3>4. /\ Machine' /\ ArgsAt(0)' /\ mpc' = mpc + 1
          /\ Read(Frame0 - 8, 8)' = Read(Frame0 - 8, 8)
          /\ Read(Frame0 - 16, 8)' = Read(Frame0 - 16, 8)
          /\ regs'["ra"] = regs["ra"] /\ regs'["t0"] = regs["t0"]
      BY <3>3, PrologueSets
    <3>5. Saving(n, j)'
      BY <1>2, <1>3, <2>3, <2>13, <2>14, <2>16, <3>3, <3>4 DEF Saving
    <3> QED  BY <1>4, <2>2, <2>12, <3>4, <3>5
  <2> QED  BY <2>15, <2>16
<1>11. CASE k = m + 4
  <2>2. /\ (m = 4 => k >= 5) /\ k > m + 1 /\ k > m + 2 /\ k = Len(s) /\ ~(k < Len(s))
        /\ (m = 0 => k = 4) /\ (m = 4 => k = 8)
    BY <1>3, <1>11
  <2>3. /\ (FitsImm12(-n) => regs["sp"] = Frame0 /\ regs["fp"] = Frame0)
        /\ (~FitsImm12(-n) => regs["sp"] = Frame0 - n /\ regs["t0"] = n)
        /\ Read(Frame0 - 8, 8) = ReturnAddress /\ Read(Frame0 - 16, 8) = CallerFp
    BY <1>2, <1>3, <1>11, <2>2 DEF Saving
  <2>14. ReturnAddress' = ReturnAddress /\ CallerFp' = CallerFp
    BY DEF ReturnAddress, CallerFp
  <2>15. CASE FitsImm12(-n)
    <3>1. Ins = <<"addi.d", "sp", "sp", -n>>
      BY <1>3, <2>2, <2>15 DEF SaveOf
    <3>2. Sets("sp", Frame0 - n)
      BY <1>1, <2>3, <2>15, <3>1, ExecutedImmediate
    <3>3. OnlySets("sp") /\ regs'["sp"] = Frame0 - n
      BY <1>5, <3>2, SetsOne
    <3>4. /\ Machine' /\ ArgsAt(0)' /\ mpc' = mpc + 1
          /\ Read(Frame0 - 8, 8)' = Read(Frame0 - 8, 8)
          /\ Read(Frame0 - 16, 8)' = Read(Frame0 - 16, 8)
          /\ regs'["fp"] = regs["fp"]
      BY <3>3, PrologueSets
    <3>5. Saved'
      BY <1>6, <2>3, <2>14, <2>15, <3>3, <3>4 DEF Saved
    <3> QED  BY <1>4, <2>2, <3>4, <3>5 DEF Filled
  <2>16. CASE ~FitsImm12(-n)
    <3>1. Ins = <<"add.d", "fp", "sp", "t0">>
      BY <1>3, <2>2, <2>16 DEF SaveOf
    <3>2. Sets("fp", Frame0)
      BY <1>1, <2>3, <2>16, <3>1, ExecutedRegister DEF Left, Right
    <3>3. OnlySets("fp") /\ regs'["fp"] = Frame0
      BY <1>5, <3>2, SetsOne
    <3>4. /\ Machine' /\ ArgsAt(0)' /\ mpc' = mpc + 1
          /\ Read(Frame0 - 8, 8)' = Read(Frame0 - 8, 8)
          /\ Read(Frame0 - 16, 8)' = Read(Frame0 - 16, 8)
          /\ regs'["sp"] = regs["sp"]
      BY <3>3, PrologueSets
    <3>5. Saved'
      BY <1>6, <2>3, <2>14, <2>16, <3>3, <3>4 DEF Saved
    <3> QED  BY <1>4, <2>2, <3>4, <3>5 DEF Filled
  <2> QED  BY <2>15, <2>16
<1> QED  BY <1>4, <1>7, <1>8, <1>9, <1>10, <1>11

(* The machine as it is entered.                                           *)
LEMMA EnteredGlobals ==
    ASSUME Entered
    PROVE  /\ \A a \in DOMAIN mem : a \in Int /\ a >= 2 * Frame0
           /\ GlobalsKept
<1>1. Frame0 \in Nat /\ DOMAIN Globals \subseteq Nat
  BY Numbers, MachineAssumption
<1>2. /\ DOMAIN mem = GlobalCells
      /\ \A a \in GlobalCells :
            mem[a] = <<Globals[(a - GlobalAt(0)) \div 4], a - GlobalAt((a - GlobalAt(0)) \div 4), 4>>
  BY DEF Entered
<1>3. ASSUME NEW g \in DOMAIN Globals, NEW i \in 0 .. 3
      PROVE  /\ GlobalAt(g) + i \in GlobalCells
             /\ ((GlobalAt(g) + i) - GlobalAt(0)) \div 4 = g
             /\ (GlobalAt(g) + i) - GlobalAt(g) = i
  <2>1. g \in Nat
    BY <1>1
  <2>2. GlobalAt(g) + i \in GlobalAt(g) .. GlobalAt(g) + 3
    BY <1>1, <2>1 DEF GlobalAt
  <2>3. GlobalAt(g) + i \in GlobalCells
    BY <2>2 DEF GlobalCells
  <2>4. (GlobalAt(g) + i) - GlobalAt(0) = 4 * g + i /\ (GlobalAt(g) + i) - GlobalAt(g) = i
    BY <1>1, <2>1 DEF GlobalAt
  <2>5. (4 * g + i) \div 4 = g
    BY <2>1
  <2> QED  BY <2>3, <2>4, <2>5
<1>4. \A a \in DOMAIN mem : a \in Int /\ a >= 2 * Frame0
  <2> SUFFICES ASSUME NEW a \in GlobalCells PROVE a \in Int /\ a >= 2 * Frame0
    BY <1>2
  <2>1. PICK g \in DOMAIN Globals : a \in GlobalAt(g) .. GlobalAt(g) + 3
    BY DEF GlobalCells
  <2> QED  BY <1>1, <2>1 DEF GlobalAt
<1>5. ASSUME NEW g \in DOMAIN Globals PROVE Read(GlobalAt(g), 4) = Globals[g]
  <2>1. PICK b : b = GlobalAt(g)
    OBVIOUS
  <2>2. ASSUME NEW i \in 0 .. 3
        PROVE  b + i \in DOMAIN mem /\ mem[b + i] = <<Globals[g], i, 4>>
    <3>1. PICK a : a = GlobalAt(g) + i
      OBVIOUS
    <3>2. a \in GlobalCells /\ (a - GlobalAt(0)) \div 4 = g /\ a - GlobalAt(g) = i
      BY <1>3, <3>1
    <3>3. mem[a] = <<Globals[g], i, 4>>
      BY <1>2, <3>2
    <3> QED  BY <1>2, <2>1, <3>1, <3>2, <3>3
  <2>3. b + 0 = b /\ 0 \in 0 .. 3 /\ 4 - 1 = 3
    BY <1>1, <2>1 DEF GlobalAt
  <2>4. mem[b] = <<Globals[g], 0, 4>>
    BY <2>2, <2>3
  <2>5. mem[b][1] = Globals[g]
    BY <2>4
  <2>6. Read(b, 4) = Globals[g]
    BY <2>2, <2>3, <2>5 DEF Read
  <2> QED  BY <2>1, <2>6
<1> QED  BY <1>4, <1>5 DEF GlobalsKept

(* The k-th argument of a class is the only one of that rank.              *)
LEMMA RankUnique ==
    ASSUME FrameType, NEW d \in 1 .. Args, NEW e \in 1 .. Args,
           IsFloatArg(d) = IsFloatArg(e), Rank(d) = Rank(e)
    PROVE  d = e
<1>1. Args \in Nat
  BY FunctionTypes DEF FrameType, Args
<1>2. ASSUME NEW x \in 1 .. Args, NEW y \in 1 .. Args, x < y,
             NEW float \in BOOLEAN, IsFloatArg(x) = float, IsFloatArg(y) = float
      PROVE  Rank(x) # Rank(y)
  <2>1. PICK n : n = y - 1
    OBVIOUS
  <2>2. n \in Nat /\ x \in Nat /\ x <= n /\ n + 1 = y
    BY <1>1, <1>2, <2>1
  <2>3. /\ Cardinality(Those(float, x)) <= Cardinality(Those(float, n))
        /\ Cardinality(Those(float, n + 1)) = Cardinality(Those(float, n)) + 1
        /\ Cardinality(Those(float, n)) \in Nat /\ Cardinality(Those(float, x)) \in Nat
    BY <1>2, <2>2, NoFewer, OneMore
  <2>4. Rank(x) = Cardinality(Those(float, x)) /\ Rank(y) = Cardinality(Those(float, n + 1))
    BY <1>2, <2>2 DEF Rank
  <2> QED  BY <2>3, <2>4
<1>3. PICK float \in BOOLEAN : float = IsFloatArg(d)
  BY DEF IsFloatArg
<1>4. d < e \/ e < d \/ d = e
  BY <1>1
<1> QED  BY <1>2, <1>3, <1>4

(* The calling convention finds the k-th argument of a class.              *)
LEMMA ClassArgument ==
    ASSUME FrameType, NEW e \in 1 .. Args, NEW float \in BOOLEAN, IsFloatArg(e) = float,
           NEW k, k = Rank(e)
    PROVE  ArgOfClass(float, k) = InputOf(e)
<1> DEFINE those == {d \in 1 .. Args :
                       /\ IsFloatArg(d) = float
                       /\ Cardinality({c \in 1 .. d : IsFloatArg(c) = float}) = k}
<1>1. \A d : {c \in 1 .. d : IsFloatArg(c) = float} = Those(float, d)
  BY DEF Those
<1>2. \A d \in those : d \in 1 .. Args /\ IsFloatArg(d) = float /\ Rank(d) = k
  BY <1>1 DEF Rank
<1>3. e \in those
  BY <1>1 DEF Rank
<1>4. \A d \in those : d = e
  BY <1>2, RankUnique
<1>5. ArgOfClass(float, k) = IF those = {} THEN Undef ELSE InputOf(CHOOSE d \in those : TRUE)
  BY DEF ArgOfClass
<1> HIDE DEF those
<1>6. (CHOOSE d \in those : TRUE) = e
  BY <1>3, <1>4
<1> QED  BY <1>3, <1>5, <1>6

(* Every argument that has a register is in it on entry.                   *)
LEMMA EnteredArgs ==
    ASSUME Entered, FrameType, NEW e \in 1 .. Args, Rank(e) \in 1 .. 8
    PROVE  regs[ArgRegister(e)] = InputOf(e)
<1>1. /\ \A j, k \in 1 .. 8 : ArgReg[j] = ArgReg[k] => j = k
      /\ \A j, k \in 1 .. 8 : FloatArgReg[j] = FloatArgReg[k] => j = k
      /\ \A j, k \in 1 .. 8 : FloatArgReg[j] # ArgReg[k]
  BY DEF ArgReg, FloatArgReg
<1>2. /\ DOMAIN ArgReg = 1 .. 8 /\ DOMAIN FloatArgReg = 1 .. 8
  BY DEF ArgReg, FloatArgReg
<1>3. \A j \in 1 .. 8 : /\ ArgReg[j] \in Range(ArgReg) /\ FloatArgReg[j] \in Range(FloatArgReg)
                        /\ FloatArgReg[j] \notin Range(ArgReg)
  BY <1>1, <1>2 DEF Range
<1>4. PICK k \in 1 .. 8 : k = Rank(e)
  OBVIOUS
<1>5. \A r \in Registers :
        regs[r] = IF r \in Range(ArgReg) THEN ArgOfClass(FALSE, CHOOSE j \in 1 .. 8 : ArgReg[j] = r)
                  ELSE IF r \in Range(FloatArgReg)
                  THEN ArgOfClass(TRUE, CHOOSE j \in 1 .. 8 : FloatArgReg[j] = r)
                  ELSE IF r = "zero" THEN 0 ELSE IF r = "ra" THEN ReturnAddress
                  ELSE IF r = "sp" THEN Frame0 ELSE IF r = "fp" THEN CallerFp ELSE Undef
  BY DEF Entered
<1>6. CASE IsFloatArg(e)
  <2>1. ArgRegister(e) = FloatArgReg[k]
    BY <1>4, <1>6 DEF ArgRegister
  <2>2. FloatArgReg[k] \in Registers
    BY <1>3 DEF Registers
  <2>3. (CHOOSE j \in 1 .. 8 : FloatArgReg[j] = FloatArgReg[k]) = k
    BY <1>1
  <2>4. IsFloatArg(e) = TRUE
    BY <1>6 DEF IsFloatArg
  <2>5. ArgOfClass(TRUE, k) = InputOf(e)
    BY <1>4, <2>4, ClassArgument
  <2>6. FloatArgReg[k] \in Range(FloatArgReg) /\ FloatArgReg[k] \notin Range(ArgReg)
    BY <1>3
  <2>7. regs[FloatArgReg[k]] = ArgOfClass(TRUE, CHOOSE j \in 1 .. 8 : FloatArgReg[j] = FloatArgReg[k])
    BY <1>5, <2>2, <2>6
  <2> QED  BY <2>1, <2>3, <2>5, <2>7
<1>7. CASE ~IsFloatArg(e)
  <2>1. ArgRegister(e) = ArgReg[k]
    BY <1>4, <1>7 DEF ArgRegister
  <2>2. ArgReg[k] \in Registers
    BY <1>3 DEF Registers
  <2>3. (CHOOSE j \in 1 .. 8 : ArgReg[j] = ArgReg[k]) = k
    BY <1>1
  <2>4. IsFloatArg(e) = FALSE
    BY <1>7 DEF IsFloatArg
  <2>5. ArgOfClass(FALSE, k) = InputOf(e)
    BY <1>4, <2>4, ClassArgument
  <2>6. ArgReg[k] \in Range(ArgReg)
    BY <1>3
  <2>7. regs[ArgReg[k]] = ArgOfClass(FALSE, CHOOSE j \in 1 .. 8 : ArgReg[j] = ArgReg[k])
    BY <1>5, <2>2, <2>6
  <2> QED  BY <2>1, <2>3, <2>5, <2>7
<1> QED  BY <1>6, <1>7

(* On entry the machine is before the first instruction of the prologue.   *)
LEMMA EnteredState ==
    ASSUME Entered, FrameType, Settled, NEW n, n = frameSize
    PROVE  /\ Machine /\ ArgsAt(0) /\ Saving(n, 1) /\ mpc = 1 /\ inputs \in Inputs
<1>1. /\ \A a \in DOMAIN mem : a \in Int /\ a >= 2 * Frame0
      /\ GlobalsKept
  BY EnteredGlobals
<1>2. Frame0 \in Nat /\ frameSize \in Nat /\ Frame0 >= 16
  BY Numbers DEF Settled
<1>3. /\ DOMAIN regs = Registers
      /\ regs["zero"] = 0 /\ regs["ra"] = ReturnAddress /\ regs["sp"] = Frame0 /\ regs["fp"] = CallerFp
  <2>1. {"zero", "ra", "sp", "fp"} \subseteq Registers
    BY Named
  <2>2. \A r \in {"zero", "ra", "sp", "fp"} : r \notin Range(ArgReg) /\ r \notin Range(FloatArgReg)
    BY DEF Range, ArgReg, FloatArgReg
  <2> QED  BY <2>1, <2>2 DEF Entered
<1>4. InFrame
  BY <1>1, <1>2 DEF InFrame
<1>5. Machine
  BY <1>1, <1>3, <1>4 DEF Machine
<1>6. ASSUME NEW d \in Defs, HasSlot(d) PROVE Frame0 + slot[d] \notin DOMAIN mem
  <2>1. PICK b : b = Frame0 + slot[d]
    OBVIOUS
  <2>2. b \in Int /\ Width(d) \in {1, 4, 8} /\ b + Width(d) <= Frame0 - 16
    BY <1>6, <2>1, SlotCells
  <2>3. ~(b >= 2 * Frame0)
    BY <1>2, <2>2
  <2> QED  BY <1>1, <2>1, <2>3
<1>7. ArgsAt(0)
  <2>1. \A e \in 1 .. 0 : FALSE
    OBVIOUS
  <2>2. \A e \in 0 + 1 .. Args : Rank(e) \in 1 .. 8 => regs[ArgRegister(e)] = InputOf(e)
    BY EnteredArgs
  <2> QED  BY <1>6, <2>1, <2>2 DEF ArgsAt
<1>8. Saving(n, 1)
  <2>1. SaveAt(n) \in {0, 4}
    BY DEF SaveAt
  <2> QED  BY <1>3, <2>1 DEF Saving, Building
<1> QED  BY <1>5, <1>7, <1>8 DEF Entered

(* The code of an instruction, before its k-th machine instruction; what   *)
(* the instruction is worth; and what one step of the machine does.        *)
Translating(ins, d, k) ==
    /\ ins.op \in Arithmetic =>
          BinaryAt(ins.ops[1], ins.ops[2], Outcome(ins), slot[d],
                   LoadLen(ins.ops[1]), LoadLen(ins.ops[2]), k)
    /\ ins.op = "load" /\ ins.ty = "float" => FloatAt(ins.ops[1][2], slot[d], k)
    /\ ins.op = "load" /\ ins.ty # "float" => Loading(ins.ops[1], "t0", k)

Valued(ins) == ins.op \in Arithmetic \/ (ins.op = "load" /\ ins.ty = "float")
Worth(ins) == IF ins.op \in Arithmetic THEN Outcome(ins) ELSE Globals[ins.ops[1][2]]

Gives(d, v) ==
    /\ SlotValue(d)' = v
    /\ \A e \in Defs : HasSlot(e) /\ e # d => SlotValue(e)' = SlotValue(e)

Stepped(ins, d, k, l) ==
    /\ l \in Nat /\ Going'
    /\ IF ins.op = "br" THEN l = 1 /\ mpc' \in Label(ins.ops[1]) ELSE mpc' = mpc + 1
    /\ k < l => mem' = mem /\ Translating(ins, d, k + 1)'
    /\ k = l => IF Valued(ins) THEN Gives(d, Worth(ins)) ELSE mem' = mem

(* An instruction that sets nothing keeps what is promised.                *)
LEMMA NothingSet ==
    ASSUME Execute, Going, regs' = regs, mem' = mem
    PROVE  Going'
<1>1. /\ UNCHANGED <<fn, slot, frameSize>> /\ Defs' = Defs
      /\ \A d : TypeOf(d)' = TypeOf(d)
  BY Unmoved
<1>2. /\ \A d : SlotValue(d)' = SlotValue(d)
      /\ \A a, n : Read(a, n)' = Read(a, n)
  BY SameValues
<1>3. GlobalsKept'
  <2>1. ASSUME NEW g \in DOMAIN Globals PROVE (Read(GlobalAt(g), 4) = Globals[g])'
    <3>1. PICK a : a = GlobalAt(g)
      OBVIOUS
    <3>2. Read(a, 4)' = Read(a, 4) /\ GlobalAt(g)' = GlobalAt(g)
      BY <1>2 DEF GlobalAt
    <3>3. Read(a, 4) = Globals[g]
      BY <3>1 DEF Going, Machine, GlobalsKept
    <3> QED  BY <3>1, <3>2, <3>3
  <2> QED  BY <2>1 DEF GlobalsKept
<1>4. Machine'
  BY <1>1, <1>3 DEF Going, Machine, InFrame
<1>5. Read(Frame0 - 8, 8)' = Read(Frame0 - 8, 8) /\ Read(Frame0 - 16, 8)' = Read(Frame0 - 16, 8)
  BY <1>2
<1>6. Saved'
  BY <1>1, <1>5 DEF Going, Saved, ReturnAddress, CallerFp
<1>7. Ints'
  BY <1>1, <1>2 DEF Going, Ints
<1> QED  BY <1>4, <1>6, <1>7 DEF Going

(* The first instruction of a piece needs nothing.                         *)
LEMMA TranslatingFirst == ASSUME NEW ins, NEW d PROVE Translating(ins, d, 1)
<1>1. ASSUME NEW o PROVE LoadLen(o) \in 1 .. 6 /\ Loading(o, "t0", 1)
  BY LoadingFirst
<1>2. ASSUME NEW x, NEW y, NEW v, NEW n PROVE BinaryAt(x, y, v, n, LoadLen(x), LoadLen(y), 1)
  BY <1>1 DEF BinaryAt
<1>3. ASSUME NEW g, NEW n PROVE FloatAt(g, n, 1)
  BY DEF FloatAt
<1> QED  BY <1>1, <1>2, <1>3 DEF Translating

(* The outcome depends on the memory alone.                                *)
LEMMA SameOutcome ==
    ASSUME Execute, mem' = mem, NEW ins
    PROVE  Outcome(ins)' = Outcome(ins)
<1>1. /\ OperandValue(ins.ops[1])' = OperandValue(ins.ops[1])
      /\ OperandValue(ins.ops[2])' = OperandValue(ins.ops[2])
  BY SameValues
<1> QED  BY <1>1 DEF Outcome

(* One instruction of the code of an instruction.                          *)
LEMMA CodeStep ==
    ASSUME Execute, Going, FrameType, Settled, NEW i \in 1 .. Len(fn.code),
           \A j \in 1 .. i - 1 : ~Todo(j),
           NEW ins, ins = fn.code[i], NEW d, d = Args + i,
           NEW k \in 1 .. Len(CodeFor(ins, d)), Ins = CodeFor(ins, d)[k], Translating(ins, d, k)
    PROVE  Stepped(ins, d, k, Len(CodeFor(ins, d)))
<1>1. d \in Defs /\ TypeOf(d) = ins.ty
  BY CodeTypes
<1>2. slot'[d] = slot[d] /\ \A o : LoadLen(o)' = LoadLen(o)
  BY Unmoved
<1>3. PICK s : s = CodeFor(ins, d)
  OBVIOUS
<1>4. CASE ins.op \in Arithmetic
  <2>1. PICK x, y : x = ins.ops[1] /\ y = ins.ops[2]
    OBVIOUS
  <2>2. PICK a, b : a = LoadLen(x) /\ b = LoadLen(y)
    OBVIOUS
  <2>3. PICK v : v = Outcome(ins)
    OBVIOUS
  <2>4. PICK n : n = slot[d]
    OBVIOUS
  <2>5. PICK op \in Arithmetic : op = ins.op
    BY <1>4
  <2>6. s = BinaryCode(ins, d)
    BY <1>3, <1>4 DEF CodeFor, Arithmetic
  <2>7. /\ ins.ty = "int" /\ IsOperand(fn, x, "int") /\ IsOperand(fn, y, "int")
    BY <1>4, <2>1, CodeTypes
  <2>8. Segments(s, LoadToGreg(x, "t0"), LoadToGreg(y, "t1"),
                 <<MachineOp(op), "t2", "t0", "t1">>, StoreFromGreg(d, "t2"))
    BY <1>4, <2>1, <2>5, <2>6, BinaryListed
  <2>9. v = Signed(Computed(op, Signed(OperandValue(x), Word), Signed(OperandValue(y), Word)), Word)
    BY <2>1, <2>3, <2>5 DEF Outcome
  <2>10. k \in 1 .. Len(s) /\ Ins = s[k] /\ BinaryAt(x, y, v, n, a, b, k)
    BY <1>3, <1>4, <2>1, <2>2, <2>3, <2>4 DEF Translating
  <2>11. /\ Len(s) \in Nat /\ Going' /\ mpc' = mpc + 1
         /\ k < Len(s) => mem' = mem /\ BinaryAt(x, y, v, n, a, b, k + 1)'
         /\ k = Len(s) => /\ SlotValue(d)' = v
                          /\ \A e \in Defs : HasSlot(e) /\ e # d => SlotValue(e)' = SlotValue(e)
    BY <1>1, <2>2, <2>4, <2>7, <2>8, <2>9, <2>10, BinaryStep
  <2>12. ASSUME k < Len(s) PROVE Translating(ins, d, k + 1)'
    <3>1. Outcome(ins)' = v
      BY <2>3, <2>11, <2>12, SameOutcome
    <3>2. slot'[d] = n /\ LoadLen(x)' = a /\ LoadLen(y)' = b
      BY <1>2, <2>2, <2>4
    <3>3. PICK k1 : k1 = k + 1
      OBVIOUS
    <3>4. BinaryAt(x, y, v, n, a, b, k1)'
      BY <2>11, <2>12, <3>3
    <3>5. Translating(ins, d, k1)'
      BY <1>4, <2>1, <3>1, <3>2, <3>4 DEF Translating, Arithmetic
    <3> QED  BY <3>3, <3>5
  <2>13. Worth(ins) = v /\ Valued(ins) /\ ins.op # "br"
    BY <1>4, <2>3 DEF Worth, Valued, Arithmetic
  <2> QED  BY <1>3, <2>11, <2>12, <2>13 DEF Stepped, Gives
<1>5. CASE ins.op = "load" /\ ins.ty = "float"
  <2>1. PICK x : x = ins.ops[1]
    OBVIOUS
  <2>2. PICK g : g = x[2]
    OBVIOUS
  <2>3. PICK n : n = slot[d]
    OBVIOUS
  <2>4. s = FloatLoadCode(ins, d)
    BY <1>3, <1>5 DEF CodeFor, Arithmetic
  <2>5. IsOperand(fn, x, "ptr") /\ x[1] = "global"
    BY <1>5, <2>1, CodeTypes
  <2>6. Segments(s, LoadToGreg(x, "t0"), << >>, <<"fld.s", "ft0", "t0", 0>>,
                 StoreFromFreg(d, "ft0"))
    BY <1>5, <2>1, <2>4, FloatLoadListed
  <2>7. k \in 1 .. Len(s) /\ Ins = s[k] /\ FloatAt(g, n, k)
    BY <1>3, <1>5, <2>1, <2>2, <2>3 DEF Translating
  <2>8. /\ Len(s) \in Nat /\ Going' /\ mpc' = mpc + 1
        /\ k < Len(s) => mem' = mem /\ FloatAt(g, n, k + 1)'
        /\ k = Len(s) => /\ SlotValue(d)' = Globals[g]
                         /\ \A e \in Defs : HasSlot(e) /\ e # d => SlotValue(e)' = SlotValue(e)
    BY <1>1, <1>5, <2>2, <2>3, <2>5, <2>6, <2>7, FloatStep
  <2>9. ASSUME k < Len(s) PROVE Translating(ins, d, k + 1)'
    <3>1. slot'[d] = n
      BY <1>2, <2>3
    <3>2. PICK k1 : k1 = k + 1
      OBVIOUS
    <3>3. FloatAt(g, n, k1)'
      BY <2>8, <2>9, <3>2
    <3>4. Translating(ins, d, k1)'
      BY <1>5, <2>1, <2>2, <3>1, <3>3 DEF Translating, Arithmetic
    <3> QED  BY <3>2, <3>4
  <2>10. Worth(ins) = Globals[g] /\ Valued(ins) /\ ins.op # "br"
    BY <1>5, <2>1, <2>2 DEF Worth, Valued, Arithmetic
  <2> QED  BY <1>3, <2>8, <2>9, <2>10 DEF Stepped, Gives
<1>6. CASE ins.op = "load" /\ ins.ty # "float"
  <2>1. PICK x : x = ins.ops[1]
    OBVIOUS
  <2>2. s = LoadToGreg(x, "t0")
    BY <1>3, <1>6, <2>1 DEF CodeFor, Arithmetic
  <2>3. IsOperand(fn, x, "ptr")
    BY <1>6, <2>1, CodeTypes
  <2>4. Len(s) = LoadLen(x) /\ Len(s) \in Nat
    BY <2>2, <2>3, LoadCode, LoadingFirst
  <2>5. k \in 1 .. LoadLen(x) /\ Ins = LoadToGreg(x, "t0")[k] /\ Loading(x, "t0", k)
    BY <1>3, <1>6, <2>1, <2>2, <2>4 DEF Translating
  <2>6. /\ DOMAIN regs = Registers /\ regs["fp"] = Frame0 /\ regs["zero"] = 0
        /\ "t0" \in Registers /\ "t0" \in Temporaries /\ Machine
    BY Named DEF Going, Machine, Saved, Temporaries
  <2>7. OnlySets("t0") /\ Loading(x, "t0", k + 1)'
    BY <2>3, <2>5, <2>6, LoadStep
  <2>8. Going' /\ mem' = mem /\ mpc' = mpc + 1
    BY <2>6, <2>7, TemporarySet DEF Going, OnlySets
  <2>9. Translating(ins, d, k + 1)'
    <3>1. PICK k1 : k1 = k + 1
      OBVIOUS
    <3>2. Loading(x, "t0", k1)'
      BY <2>7, <3>1
    <3>3. Translating(ins, d, k1)'
      BY <1>6, <2>1, <3>2 DEF Translating, Arithmetic
    <3> QED  BY <3>1, <3>3
  <2>10. ~Valued(ins) /\ ins.op # "br"
    BY <1>6 DEF Valued, Arithmetic
  <2> QED  BY <1>3, <2>4, <2>8, <2>9, <2>10 DEF Stepped
<1>7. CASE ins.op \in {"label", "br"}
  <2>1. PICK x : x = <<IF ins.op = "label" THEN "label" ELSE "b", ins.ops[1]>>
    OBVIOUS
  <2>2. s = <<x>>
    BY <1>3, <1>7, <2>1 DEF CodeFor
  <2>3. Len(s) = 1 /\ s[1] = x
    BY <2>2, OneSeq
  <2>4. k = 1 /\ Ins = x
    BY <1>3, <2>3
  <2>5. UNCHANGED <<regs, mem>>
        /\ (ins.op = "label" => mpc' = mpc + 1) /\ (ins.op = "br" => mpc' \in Label(ins.ops[1]))
    <3>1. CASE ins.op = "label"
      <4>1. Ins[1] = "label"
        BY <2>1, <2>4, <3>1
      <4> QED  BY <3>1, <4>1, ExecutedMemory
    <3>2. CASE ins.op = "br"
      <4>1. Ins[1] = "b" /\ Ins[2] = ins.ops[1]
        BY <2>1, <2>4, <3>2
      <4> QED  BY <3>2, <4>1, ExecutedMemory
    <3> QED  BY <1>7, <3>1, <3>2
  <2>6. Going'
    BY <2>5, NothingSet
  <2>7. ~Valued(ins)
    BY <1>7 DEF Valued, Arithmetic
  <2>8. Stepped(ins, d, 1, 1)
    BY <1>7, <2>5, <2>6, <2>7 DEF Stepped
  <2> QED  BY <1>3, <2>3, <2>4, <2>8
<1>8. CASE ins.op \notin {"label", "br", "load"} \cup Arithmetic
  <2>1. CodeFor(ins, d) = << >>
    BY <1>8 DEF CodeFor
  <2>2. Len(CodeFor(ins, d)) = 0
    BY <2>1, ListNone
  <2> QED  BY <2>2
<1> QED  BY <1>4, <1>5, <1>6, <1>7, <1>8

(* An int argument is an int.                                              *)
LEMMA IntArgument ==
    ASSUME FrameType, inputs \in Inputs, NEW d \in 1 .. Args, TypeOf(d) = "int"
    PROVE  InputOf(d) \in Word32
<1>1. Args \in Nat /\ Args = Len(fn.args)
  BY FunctionTypes DEF FrameType, Args
<1>2. TypeOf(d) = "int" /\ fn.args[d] = "int" /\ fn \in Functions /\ d \in 1 .. Len(fn.args)
  BY <1>1 DEF TypeOf, TypeIn, FrameType
<1> QED  BY <1>2, MachineAssumption DEF InputOf, Word32

(* When all arguments are stored the promises of the body hold.            *)
LEMMA FilledGoing ==
    FrameType /\ Settled /\ inputs \in Inputs /\ Filled(Args) => Going
<1> SUFFICES ASSUME FrameType, Settled, inputs \in Inputs, Filled(Args) PROVE Going
  OBVIOUS
<1>1. Machine /\ Saved /\ ArgsAt(Args)
  BY DEF Filled
<1>2. Args \in Nat
  BY FunctionTypes DEF FrameType, Args
<1>3. ASSUME NEW d \in Defs, TypeOf(d) = "int" PROVE SlotValue(d) \in Int
  <2>1. HasSlot(d) /\ d \in Nat
    BY <1>3 DEF HasSlot, Defs
  <2>2. CASE d <= Args
    <3>1. d \in 1 .. Args
      BY <1>2, <1>3, <2>1, <2>2 DEF Defs
    <3>2. SlotValue(d) = InputOf(d)
      BY <1>1, <3>1 DEF ArgsAt
    <3>3. InputOf(d) \in Word32
      BY <1>3, <3>1, IntArgument
    <3> QED  BY <3>2, <3>3, HalfAssumption DEF Word32
  <2>3. CASE ~(d <= Args)
    <3>1. d > Args
      BY <1>2, <2>1, <2>3
    <3>2. Frame0 + slot[d] \notin DOMAIN mem
      BY <1>1, <2>1, <3>1 DEF ArgsAt
    <3>3. PICK b : b = Frame0 + slot[d]
      OBVIOUS
    <3>4. b \in Int /\ Width(d) \in {1, 4, 8}
      BY <2>1, <3>3, SlotCells
    <3>5. Read(b, Width(d)) = Undef
      BY <3>2, <3>3, <3>4, NotThere
    <3> QED  BY <3>3, <3>5, MachineAssumption DEF SlotValue
  <2> QED  BY <2>2, <2>3
<1> QED  BY <1>1, <1>3 DEF Going, Ints

(* The machine before the k-th instruction of a piece, and behind it.      *)
InStep(p, k) ==
    IF p = 0 THEN Machine /\ ArgsAt(0) /\ Saving(frameSize, k)
    ELSE IF p <= Args THEN Filled(p - 1) /\ Building("t8", slot[p], k)
    ELSE Going /\ Translating(fn.code[p - Args], p, k)

After(p) == IF p <= Args THEN Filled(p) ELSE Going

(* Where a piece ends, the next one that is not empty begins.              *)
LEMMA Begins ==
    \A p, q : /\ FrameType /\ Settled /\ inputs \in Inputs
              /\ p \in 0 .. Args + Len(fn.code) /\ q \in p + 1 .. Args + Len(fn.code) + 1
              /\ EmptyBetween(p, q) /\ After(p)
              => InStep(q, 1) /\ Machine /\ (q > Args => Going /\ p >= Args)
<1> SUFFICES ASSUME NEW p, NEW q, FrameType, Settled, inputs \in Inputs,
                    p \in 0 .. Args + Len(fn.code), q \in p + 1 .. Args + Len(fn.code) + 1,
                    EmptyBetween(p, q), After(p)
             PROVE  InStep(q, 1) /\ Machine /\ (q > Args => Going /\ p >= Args)
  OBVIOUS
<1>1. Args \in Nat /\ Len(fn.code) \in Nat
  BY FunctionTypes DEF FrameType, Args
<1>2. p \in Nat /\ q \in Nat /\ q > p /\ q # 0
  BY <1>1
<1>3. ASSUME p < Args PROVE q = p + 1
  <2>1. p + 1 \in 0 .. Args + Len(fn.code) /\ p + 1 <= Args
    BY <1>1, <1>2, <1>3
  <2>2. Len(PieceCode(p + 1)) > 0
    BY <2>1, PieceSeq
  <2>3. p + 1 \notin p + 1 .. q - 1
    BY <2>2 DEF EmptyBetween
  <2> QED  BY <1>2, <2>3
<1>4. CASE q <= Args
  <2>1. q = p + 1 /\ p <= Args /\ q - 1 = p /\ ~(q > Args)
    BY <1>1, <1>2, <1>3, <1>4
  <2>2. Filled(q - 1)
    BY <2>1 DEF After
  <2>3. InStep(q, 1)
    BY <1>2, <1>4, <2>2, BuildingFirst DEF InStep
  <2> QED  BY <2>1, <2>2, <2>3 DEF Filled
<1>5. CASE ~(q <= Args)
  <2>1. p >= Args /\ (p = Args \/ ~(p <= Args))
    BY <1>1, <1>2, <1>3, <1>5
  <2>2. Going
    <3>1. CASE p = Args
      <4>1. Filled(Args)
        BY <1>1, <3>1 DEF After
      <4> QED  BY <4>1, FilledGoing
    <3>2. CASE ~(p <= Args)
      BY <3>2 DEF After
    <3> QED  BY <2>1, <3>1, <3>2
  <2>3. InStep(q, 1)
    BY <1>2, <1>5, <2>2, TranslatingFirst DEF InStep
  <2> QED  BY <2>1, <2>2, <2>3 DEF Going
<1> QED  BY <1>4, <1>5

(* The same of the next state.                                             *)
LEMMA BeginsThen ==
    (\A p, q : /\ FrameType /\ Settled /\ inputs \in Inputs
               /\ p \in 0 .. Args + Len(fn.code) /\ q \in p + 1 .. Args + Len(fn.code) + 1
               /\ EmptyBetween(p, q) /\ After(p)
               => InStep(q, 1) /\ Machine /\ (q > Args => Going /\ p >= Args))'
BY Begins, PTL

-----------------------------------------------------------------------------
(* Where the machine can be: at a step of a piece, all of whose            *)
(* predecessors have been translated.                                      *)
Standing(p, k) ==
    /\ p \in 0 .. Args + Len(fn.code) /\ k \in 1 .. Len(PieceCode(p))
    /\ p \in 1 .. Args => Rank(p) \in 1 .. 8
    /\ p > Args => /\ at \in 1 .. Len(fn.code) /\ p - Args \in 1 .. at
                   /\ \A j \in 1 .. at - 1 : ~Todo(j)

Jumps(p) == p > Args /\ fn.code[p - Args].op = "br"

PieceStepped(p, k, l) ==
    /\ l \in Nat
    /\ ~Jumps(p) => mpc' = mpc + 1
    /\ k < l => InStep(p, k + 1)'
    /\ k = l => After(p)'
    /\ p > Args => Stepped(fn.code[p - Args], p, k, l)

(* One instruction of a piece.                                             *)
LEMMA PieceStep ==
    ASSUME Execute, FrameType, Settled, inputs \in Inputs, NEW p, NEW k, Standing(p, k),
           Ins = PieceCode(p)[k], InStep(p, k)
    PROVE  PieceStepped(p, k, Len(PieceCode(p)))
<1>0. Args \in Nat /\ Len(fn.code) \in Nat
  BY FunctionTypes DEF FrameType, Args
<1>1. Args \in Nat /\ Len(fn.code) \in Nat /\ p \in Nat /\ p \in 0 .. Args + Len(fn.code)
  <2>1. p \in 0 .. Args + Len(fn.code)
    BY DEF Standing
  <2> QED  BY <1>0, <2>1
<1>2. Args' = Args /\ frameSize' = frameSize /\ slot'[p] = slot[p] /\ fn' = fn
  BY Unmoved
<1>3. PICK s : s = PieceCode(p)
  OBVIOUS
<1>4. k \in 1 .. Len(s) /\ Ins = s[k]
  BY <1>3 DEF Standing
<1>5. PICK k1 : k1 = k + 1
  OBVIOUS
<1>6. CASE p = 0
  <2>1. s = SaveCode
    BY <1>3, <1>6 DEF PieceCode
  <2>2. PICK n : n = frameSize
    OBVIOUS
  <2>3. n \in Nat /\ n < Half
    BY <2>2 DEF Settled
  <2>4. SaveOf(s, n)
    BY <2>1, <2>2, <2>3, SaveListed
  <2>5. Machine /\ ArgsAt(0) /\ Saving(n, k)
    BY <1>6, <2>2 DEF InStep
  <2>6. /\ Len(s) \in Nat /\ mpc' = mpc + 1
        /\ k < Len(s) => Machine' /\ ArgsAt(0)' /\ Saving(n, k + 1)'
        /\ k = Len(s) => Filled(0)'
    BY <1>4, <2>2, <2>4, <2>5, SaveStep
  <2>7. k < Len(s) => InStep(p, k1)'
    <3>1. ASSUME k < Len(s) PROVE InStep(p, k1)'
      <4>1. Machine' /\ ArgsAt(0)' /\ Saving(n, k1)'
        BY <1>5, <2>6, <3>1
      <4>2. frameSize' = n
        BY <1>2, <2>2
      <4> QED  BY <1>6, <4>1, <4>2 DEF InStep
    <3> QED  BY <3>1
  <2>8. k = Len(s) => After(p)'
    BY <1>1, <1>2, <1>6, <2>6 DEF After
  <2>9. ~(p > Args) /\ ~Jumps(p)
    BY <1>1, <1>6 DEF Jumps
  <2> QED  BY <1>3, <1>5, <2>6, <2>7, <2>8, <2>9 DEF PieceStepped
<1>7. CASE p # 0 /\ p <= Args
  <2>1. p \in 1 .. Args /\ ~(p > Args)
    BY <1>1, <1>7
  <2>2. s = ArgCode(p)
    BY <1>3, <1>7 DEF PieceCode
  <2>3. Len(s) = AccessLen(slot[p]) /\ AccessLen(slot[p]) \in {1, 6}
    BY <2>1, <2>2, ArgListed DEF AccessLen
  <2>4. Filled(p - 1) /\ Building("t8", slot[p], k) /\ Rank(p) \in 1 .. 8
    BY <1>7, <2>1 DEF InStep, Standing
  <2>5. /\ mpc' = mpc + 1
        /\ k < AccessLen(slot[p]) => Filled(p - 1)' /\ Building("t8", slot[p], k + 1)'
        /\ k = AccessLen(slot[p]) => Filled(p)'
    BY <1>4, <2>1, <2>2, <2>3, <2>4, ArgStep
  <2>6. ASSUME k < Len(s) PROVE InStep(p, k1)'
    <3>1. Filled(p - 1)' /\ Building("t8", slot[p], k1)'
      BY <1>5, <2>3, <2>5, <2>6
    <3> QED  BY <1>2, <1>7, <3>1 DEF InStep
  <2>7. k = Len(s) => After(p)'
    BY <1>2, <1>7, <2>3, <2>5 DEF After
  <2>8. ~Jumps(p)
    BY <2>1 DEF Jumps
  <2> QED  BY <1>3, <1>5, <2>1, <2>3, <2>5, <2>6, <2>7, <2>8 DEF PieceStepped
<1>8. CASE ~(p <= Args)
  <2>1. PICK i : i = p - Args
    OBVIOUS
  <2>2. i \in 1 .. Len(fn.code) /\ p = Args + i /\ p # 0 /\ p > Args
    BY <1>1, <1>8, <2>1
  <2>3. PICK ins : ins = fn.code[i]
    OBVIOUS
  <2>4. s = CodeFor(ins, p)
    BY <1>3, <1>8, <2>1, <2>2, <2>3 DEF PieceCode
  <2>5. Going /\ Translating(ins, p, k)
    BY <1>8, <2>1, <2>2, <2>3 DEF InStep
  <2>6. \A j \in 1 .. i - 1 : ~Todo(j)
    <3>1. at \in Nat /\ i \in 1 .. at /\ \A j \in 1 .. at - 1 : ~Todo(j)
      BY <1>1, <2>1, <2>2 DEF Standing
    <3>2. \A j \in 1 .. i - 1 : j \in 1 .. at - 1
      BY <2>2, <3>1
    <3> QED  BY <3>1, <3>2
  <2>7. Stepped(ins, p, k, Len(s))
    BY <1>4, <2>2, <2>3, <2>4, <2>5, <2>6, CodeStep
  <2>8. ASSUME k < Len(s) PROVE InStep(p, k1)'
    <3>1. Going' /\ Translating(ins, p, k1)'
      BY <1>5, <2>7, <2>8 DEF Stepped
    <3> QED  BY <1>2, <1>8, <2>1, <2>2, <2>3, <3>1 DEF InStep
  <2>9. After(p)'
    BY <1>2, <1>8, <2>7 DEF Stepped, After
  <2>10. Len(s) \in Nat /\ (~Jumps(p) => mpc' = mpc + 1)
    BY <2>1, <2>2, <2>3, <2>7 DEF Stepped, Jumps
  <2> QED  BY <1>3, <1>5, <2>1, <2>3, <2>7, <2>8, <2>9, <2>10 DEF PieceStepped
<1> QED  BY <1>6, <1>7, <1>8

-----------------------------------------------------------------------------
(* Only the code of a label is a label.                                    *)
LEMMA LabelPiece ==
    ASSUME FrameType, Settled, NEW q \in 0 .. Args + Len(fn.code),
           NEW k \in 1 .. Len(PieceCode(q)), NEW x, PieceCode(q)[k] = <<"label", x>>
    PROVE  /\ q > Args /\ q # 0 /\ k = 1 /\ q - Args \in 1 .. Len(fn.code)
           /\ fn.code[q - Args].op = "label" /\ fn.code[q - Args].ops[1] = x
<1>1. Args \in Nat /\ Len(fn.code) \in Nat
  BY FunctionTypes DEF FrameType, Args
<1>2. PICK s : s = PieceCode(q)
  OBVIOUS
<1>3. ~Straight(s[k])
  BY <1>2 DEF Straight
<1>4. ~Listing(s)
  BY <1>2, <1>3, ListLen
<1>5. ~(q <= Args)
  BY <1>2, <1>4, PieceSeq
<1>6. q > Args /\ q # 0 /\ q - Args \in 1 .. Len(fn.code) /\ Args + (q - Args) = q
  BY <1>1, <1>5
<1>7. PICK i \in 1 .. Len(fn.code) : i = q - Args
  BY <1>6
<1>8. PICK ins : ins = fn.code[i]
  OBVIOUS
<1>9. s = CodeFor(ins, Args + i)
  BY <1>2, <1>5, <1>6, <1>7, <1>8 DEF PieceCode
<1>10. ins.op \in {"label", "br"}
  BY <1>4, <1>8, <1>9, CodeForSeq
<1>11. CASE ins.op = "label"
  <2>1. s = <<<<"label", ins.ops[1]>>>>
    BY <1>9, <1>11 DEF CodeFor
  <2>2. Len(s) = 1 /\ s[1] = <<"label", ins.ops[1]>>
    BY <2>1, OneSeq
  <2>3. k = 1
    BY <1>2, <2>2
  <2>4. <<"label", ins.ops[1]>> = <<"label", x>>
    BY <1>2, <2>2, <2>3
  <2>5. ins.ops[1] = x
    BY <2>4
  <2> QED  BY <1>6, <1>7, <1>8, <1>11, <2>3, <2>5
<1>12. CASE ins.op = "br"
  <2>1. s = <<<<"b", ins.ops[1]>>>>
    BY <1>9, <1>12 DEF CodeFor
  <2>2. Len(s) = 1 /\ s[1] = <<"b", ins.ops[1]>>
    BY <2>1, OneSeq
  <2>3. k = 1
    BY <1>2, <2>2
  <2>4. <<"b", ins.ops[1]>> = <<"label", x>>
    BY <1>2, <2>2, <2>3
  <2> QED  BY <2>4
<1> QED  BY <1>10, <1>11, <1>12

(* What has been laid out when the code runs, and where the machine is.    *)
Finished == Machine /\ (at # 0 => Going)
Position(piece, step) ==
    IF mpc \in 1 .. Len(output) THEN InStep(piece[mpc], step[mpc]) ELSE Finished

RunInv ==
    /\ inputs \in Inputs
    /\ phase # "run" => Entered
    /\ phase = "run" /\ Fits =>
          \E piece, step : Laid(output, Pieces, piece, step) /\ Position(piece, step)

MachineInv == CodeGenInv /\ LaidInv /\ RunInv

Emitting == Pieces \in Nat /\ Pieces > 0 /\ Pieces <= Args + Len(fn.code) + 1
            /\ (at # 0 => Pieces = (Args + at) + 1) /\ (at = 0 => Pieces <= Args)

(* How many pieces a finished output has.                                  *)
LEMMA LastPiece ==
    ASSUME CodeGenInv, LaidInv, phase = "run"
    PROVE  Emitting
<1>1. /\ FrameType /\ Counted
      /\ IF at = 0 THEN gargs + fargs < Args ELSE gargs + fargs = Args /\ at \in 1 .. Len(fn.code)
  BY DEF CodeGenInv, FrameInv, LaidInv
<1>2. Args \in Nat /\ Len(fn.code) \in Nat /\ gargs \in Nat /\ fargs \in Nat
  BY <1>1, FunctionTypes DEF FrameType, Args, Counted
<1>3. CASE at = 0
  <2>1. Pieces = (gargs + fargs) + 1
    BY <1>3 DEF Pieces
  <2> QED  BY <1>1, <1>2, <1>3, <2>1 DEF Emitting
<1>4. CASE at # 0
  <2>1. Pieces = (Args + at) + 1 /\ at \in 1 .. Len(fn.code)
    BY <1>1, <1>4 DEF Pieces
  <2> QED  BY <1>2, <1>4, <2>1 DEF Emitting
<1> QED  BY <1>3, <1>4

(* Wherever the machine stops, it stands.                                  *)
LEMMA Stands ==
    ASSUME CodeGenInv, LaidInv, phase = "run", NEW piece, NEW step,
           Laid(output, Pieces, piece, step), NEW i \in 1 .. Len(output)
    PROVE  /\ Standing(piece[i], step[i])
           /\ piece[i] \in 0 .. Pieces - 1
           /\ output[i].from = PieceFrom(piece[i])
           /\ output[i].ins = PieceCode(piece[i])[step[i]]
<1>1. PICK p, k : p = piece[i] /\ k = step[i]
  OBVIOUS
<1>2. /\ p \in 0 .. Pieces - 1 /\ k \in 1 .. Len(PieceCode(p))
      /\ output[i].from = PieceFrom(p) /\ output[i].ins = PieceCode(p)[k]
  BY <1>1 DEF Laid, InPiece
<1>3. /\ FrameType /\ Counted /\ StopsAtFirstTodo
      /\ IF at = 0 THEN gargs + fargs < Args ELSE gargs + fargs = Args /\ at \in 1 .. Len(fn.code)
  BY DEF CodeGenInv, FrameInv, LaidInv, GenInv
<1>4. /\ Args \in Nat /\ Len(fn.code) \in Nat
      /\ gargs \in 0 .. 8 /\ fargs \in 0 .. 8
  BY <1>3, FunctionTypes DEF FrameType, Args, Counted
<1>5. Emitting
  BY LastPiece
<1>6. p \in 0 .. Args + Len(fn.code)
  BY <1>2, <1>4, <1>5 DEF Emitting
<1>7. ASSUME p \in 1 .. Args PROVE Rank(p) \in 1 .. 8
  <2>1. PICK n \in Nat : n = gargs + fargs
    BY <1>4
  <2>2. p <= n
    <3>1. CASE at = 0
      <4>1. Pieces = (gargs + fargs) + 1
        BY <3>1 DEF Pieces
      <4> QED  BY <1>2, <1>4, <1>7, <2>1, <4>1
    <3>2. CASE at # 0
      BY <1>3, <1>7, <2>1, <3>2
    <3> QED  BY <3>1, <3>2
  <2>3. PICK float \in BOOLEAN : float = IsFloatArg(p)
    BY DEF IsFloatArg
  <2>4. PICK m \in Nat : p = m + 1
    <3>1. p - 1 \in Nat /\ p = (p - 1) + 1
      BY <1>4, <1>7
    <3> QED  BY <3>1
  <2>5. /\ Cardinality(Those(float, m)) \in Nat
        /\ Cardinality(Those(float, m + 1)) = Cardinality(Those(float, m)) + 1
    BY <2>3, <2>4, OneMore
  <2>6. Cardinality(Those(float, p)) >= 1 /\ Cardinality(Those(float, p)) \in Nat
    BY <2>4, <2>5
  <2>7. Cardinality(Those(float, p)) <= Cardinality(Those(float, n))
    BY <1>4, <1>7, <2>2, NoFewer
  <2>8. Cardinality(Those(float, n)) \in 0 .. 8
    <3>1. Cardinality(Those(FALSE, n)) = gargs /\ Cardinality(Those(TRUE, n)) = fargs
      BY <1>3, <2>1 DEF Counted
    <3> QED  BY <1>4, <3>1
  <2>9. Rank(p) = Cardinality(Those(float, p))
    BY <2>3 DEF Rank
  <2> QED  BY <2>6, <2>7, <2>8, <2>9
<1>8. ASSUME p > Args
      PROVE  /\ at \in 1 .. Len(fn.code) /\ p - Args \in 1 .. at
             /\ \A j \in 1 .. at - 1 : ~Todo(j)
  <2>1. at # 0
    BY <1>2, <1>4, <1>5, <1>8 DEF Emitting
  <2>2. Pieces = (Args + at) + 1 /\ at \in 1 .. Len(fn.code)
    BY <1>3, <1>5, <2>1 DEF Emitting
  <2>3. p - Args \in 1 .. at
    BY <1>2, <1>4, <1>8, <2>2
  <2>4. \A j \in 1 .. at - 1 : ~Todo(j)
    BY <1>3, <2>1 DEF StopsAtFirstTodo
  <2> QED  BY <2>2, <2>3, <2>4
<1>9. Standing(p, k)
  BY <1>2, <1>6, <1>7, <1>8 DEF Standing
<1> QED  BY <1>1, <1>2, <1>9

(* Where the machine goes.                                                 *)
Targets(x) == {i \in 1 .. Len(fn.code) : fn.code[i].op = "label" /\ fn.code[i].ops[1] = x}
Onward(p, k, l) ==
    IF k < l THEN Reached' = Reached
    ELSE IF Jumps(p) THEN Reached' \in Targets(fn.code[p - Args].ops[1])
    ELSE \E q \in p + 1 .. Pieces :
            EmptyBetween(p, q) /\ Reached' = IF q < Pieces THEN PieceFrom(q) ELSE at

(* What one machine instruction does, seen from the pieces.                *)
Moved(piece, step, p, k, l) ==
    /\ Standing(p, k) /\ InStep(p, k)
    /\ p \in 0 .. Pieces - 1 /\ Reached = PieceFrom(p)
    /\ PieceStepped(p, k, l)
    /\ Onward(p, k, l) /\ Position(piece, step)'

(* Nothing is asked before the first instruction of a piece,               *)
LEMMA FirstStep == \A ins, d : Translating(ins, d, 1)
BY TranslatingFirst

(* in the next state either.                                               *)
LEMMA FirstStepThen == (\A ins, d : Translating(ins, d, 1))'
BY FirstStep, PTL

(* Every machine instruction moves like that.                              *)
LEMMA Steps ==
    ASSUME CodeGenInv, LaidInv, phase = "run", Fits, inputs \in Inputs, Execute,
           NEW piece, NEW step, Laid(output, Pieces, piece, step), Position(piece, step),
           NEW p, p = piece[mpc], NEW k, k = step[mpc]
    PROVE  Moved(piece, step, p, k, Len(PieceCode(p)))
<1>1. PICK o, i, n : o = output /\ i = mpc /\ n = Pieces
  OBVIOUS
<1>2. i \in 1 .. Len(o) /\ DOMAIN o = 1 .. Len(o) /\ Len(o) \in Nat /\ i \in Nat
  <2>1. PICK S : o \in Seq(S)
    BY <1>1 DEF Laid, IsSeq
  <2>2. DOMAIN o = 1 .. Len(o) /\ Len(o) \in Nat
    BY <2>1, LenProperties
  <2>3. i \in DOMAIN o
    BY <1>1, Executed
  <2> QED  BY <2>2, <2>3
<1>3. /\ FrameType /\ Settled
      /\ Emitting /\ Args \in Nat /\ Len(fn.code) \in Nat
  <2>1. FrameInv /\ FrameType
    BY DEF CodeGenInv, FrameInv
  <2>2. Settled
    BY <2>1, FrameSettled
  <2> QED  BY <2>1, <2>2, LastPiece, FunctionTypes DEF FrameType, Args
<1>4. /\ Standing(p, k) /\ p \in 0 .. n - 1
      /\ o[i].from = PieceFrom(p) /\ o[i].ins = PieceCode(p)[k]
  BY <1>1, <1>2, Stands
<1>5. Ins = PieceCode(p)[k] /\ Reached = PieceFrom(p)
  BY <1>1, <1>2, <1>4 DEF Ins, Reached
<1>6. InStep(p, k)
  BY <1>1, <1>2 DEF Position
<1>7. PICK l : l = Len(PieceCode(p))
  OBVIOUS
<1>8. PieceStepped(p, k, l)
  BY <1>3, <1>4, <1>5, <1>6, <1>7, PieceStep
<1>9. /\ UNCHANGED <<fn, slot, frameSize, need, phase, inputs, output, at, gargs, fargs>>
      /\ Args' = Args /\ Defs' = Defs /\ Pieces' = Pieces
      /\ \A d : HasSlot(d)' = HasSlot(d) /\ Width(d)' = Width(d)
      /\ \A r : PieceCode(r)' = PieceCode(r) /\ PieceFrom(r)' = PieceFrom(r)
  BY Unmoved
<1>10. Onwards(o, n, piece, step, i) /\ k \in 1 .. l /\ l \in Nat
  BY <1>1, <1>2, <1>4, <1>7, <1>8 DEF Laid, Standing, PieceStepped
<1>11. \A j \in 1 .. Len(o) : /\ o[j].from = PieceFrom(piece[j]) /\ piece[j] \in 0 .. n - 1
                              /\ o[j].ins = PieceCode(piece[j])[step[j]]
                              /\ step[j] \in 1 .. Len(PieceCode(piece[j]))
  BY <1>1 DEF Laid, InPiece
<1>12. \A j \in 1 .. Len(o) : mpc' = j => Reached' = PieceFrom(piece[j])
  BY <1>1, <1>2, <1>9, <1>11 DEF Reached
<1>13. \A j \in 1 .. Len(o) : mpc' = j /\ InStep(piece[j], step[j])' => Position(piece, step)'
  BY <1>1, <1>9 DEF Position
<1>14. Jumps(p) => l = 1
  BY <1>8 DEF PieceStepped, Jumps, Stepped
<1>15. PICK i1 : i1 = i + 1
  OBVIOUS
<1>16. PICK k1 : k1 = k + 1
  OBVIOUS
<1>17. CASE k < l
  <2>1. ~Jumps(p)
    BY <1>10, <1>14, <1>17
  <2>2. mpc' = i1 /\ InStep(p, k1)'
    BY <1>1, <1>8, <1>15, <1>16, <1>17, <2>1 DEF PieceStepped
  <2>3. i < Len(o) /\ piece[i1] = p /\ step[i1] = k1
    BY <1>1, <1>7, <1>10, <1>15, <1>16, <1>17 DEF Onwards
  <2>4. i1 \in 1 .. Len(o)
    BY <1>2, <1>15, <2>3
  <2>5. Reached' = Reached
    BY <1>5, <1>12, <2>2, <2>3, <2>4
  <2>6. Position(piece, step)'
    BY <1>13, <2>2, <2>3, <2>4
  <2> QED  BY <1>1, <1>4, <1>5, <1>6, <1>7, <1>8, <1>17, <2>5, <2>6 DEF Moved, Onward
<1>18. CASE k = l /\ ~Jumps(p)
  <2>1. mpc' = i1 /\ After(p)'
    BY <1>1, <1>8, <1>15, <1>18 DEF PieceStepped
  <2>2. (FrameType /\ Settled /\ inputs \in Inputs)'
    <3>1. UNCHANGED frameVars
      BY Executed
    <3>2. FrameType'
      BY <1>3, <1>9, <3>1 DEF FrameType, frameVars
    <3>3. Settled'
      BY <1>3, <1>9 DEF Settled
    <3> QED  BY <1>9, <3>2, <3>3
  <2>3. ASSUME NEW q \in p + 1 .. n, EmptyBetween(p, q)
        PROVE  InStep(q, 1)' /\ Machine' /\ (q > Args => Going')
    <3>1. p \in 0 .. Args' + Len(fn'.code) /\ q \in p + 1 .. (Args' + Len(fn'.code)) + 1
      BY <1>1, <1>3, <1>4, <1>9, <2>3 DEF Emitting
    <3>2. EmptyBetween(p, q)'
      BY <1>9, <2>3 DEF EmptyBetween
    <3>3. (/\ FrameType /\ Settled /\ inputs \in Inputs
           /\ p \in 0 .. Args + Len(fn.code) /\ q \in p + 1 .. Args + Len(fn.code) + 1
           /\ EmptyBetween(p, q) /\ After(p))'
      BY <2>1, <2>2, <3>1, <3>2
    <3>4. (InStep(q, 1) /\ Machine /\ (q > Args => Going /\ p >= Args))'
      BY <3>3, BeginsThen
    <3> QED  BY <1>9, <3>4
  <2>4. CASE i < Len(o)
    <3>1. i1 \in 1 .. Len(o)
      BY <1>2, <1>15, <2>4
    <3>2. PICK q : q = piece[i1]
      OBVIOUS
    <3>3. q > p /\ step[i1] = 1 /\ EmptyBetween(p, q)
      BY <1>1, <1>7, <1>10, <1>15, <1>18, <2>4, <3>2 DEF Onwards
    <3>4. q \in 0 .. n - 1 /\ n \in Nat
      BY <1>1, <1>3, <1>11, <3>1, <3>2 DEF Emitting
    <3>5. q \in p + 1 .. n /\ q < n
      BY <1>4, <3>3, <3>4
    <3>6. InStep(q, 1)'
      BY <2>3, <3>3, <3>5
    <3>7. Position(piece, step)'
      BY <1>13, <2>1, <3>1, <3>2, <3>3, <3>6
    <3>8. Reached' = PieceFrom(q)
      BY <1>12, <2>1, <3>1, <3>2
    <3>9. Onward(p, k, l)
      BY <1>1, <1>10, <1>18, <3>3, <3>5, <3>8 DEF Onward
    <3> QED  BY <1>1, <1>4, <1>5, <1>6, <1>7, <1>8, <3>7, <3>9 DEF Moved
  <2>5. CASE i = Len(o)
    <3>1. EmptyBetween(p, n)
      BY <1>1, <1>7, <1>10, <1>18, <2>5 DEF Onwards
    <3>2. n \in p + 1 .. n /\ n \in Nat
      BY <1>1, <1>3, <1>4 DEF Emitting
    <3>3. Machine' /\ (n > Args => Going')
      BY <2>3, <3>1, <3>2
    <3>4. at # 0 => n > Args
      <4>1. at # 0 => at \in 1 .. Len(fn.code)
        BY DEF LaidInv
      <4> QED  BY <1>1, <1>3, <4>1 DEF Emitting
    <3>5. ~(i1 \in 1 .. Len(o)) /\ ~(i1 \in DOMAIN o)
      BY <1>2, <1>15, <2>5
    <3>6. Position(piece, step)'
      BY <1>1, <1>9, <2>1, <3>3, <3>4, <3>5 DEF Position, Finished
    <3>7. Reached' = at
      BY <1>1, <1>9, <2>1, <3>5 DEF Reached
    <3>8. Onward(p, k, l)
      <4>1. ~(n < n)
        BY <3>2
      <4> QED  BY <1>1, <1>10, <1>18, <3>1, <3>2, <3>7, <4>1 DEF Onward
    <3> QED  BY <1>1, <1>4, <1>5, <1>6, <1>7, <1>8, <3>6, <3>8 DEF Moved
  <2>6. i < Len(o) \/ i = Len(o)
    <3>1. PICK m : m = Len(o)
      OBVIOUS
    <3>2. m \in Nat /\ i \in 1 .. m
      BY <1>2, <3>1
    <3>3. i < m \/ i = m
      BY <3>2
    <3> QED  BY <3>1, <3>3
  <2> QED  BY <2>4, <2>5, <2>6
<1>19. CASE k = l /\ Jumps(p)
  <2>1. PICK ins : ins = fn.code[p - Args]
    OBVIOUS
  <2>2. ins.op = "br" /\ p > Args
    BY <1>19, <2>1 DEF Jumps
  <2>3. mpc' \in Label(ins.ops[1]) /\ Going'
    BY <1>8, <2>1, <2>2 DEF PieceStepped, Stepped
  <2>4. PICK j \in 1 .. Len(o) : mpc' = j /\ o[j].ins = <<"label", ins.ops[1]>>
    BY <1>1, <1>2, <2>3 DEF Label
  <2>5. PICK q, m : q = piece[j] /\ m = step[j]
    OBVIOUS
  <2>6. PieceCode(q)[m] = <<"label", ins.ops[1]>>
    BY <1>11, <2>4, <2>5
  <2>7. q \in 0 .. Args + Len(fn.code) /\ m \in 1 .. Len(PieceCode(q))
    BY <1>1, <1>3, <1>11, <2>5 DEF Emitting
  <2>8. /\ q > Args /\ q # 0 /\ m = 1 /\ q - Args \in 1 .. Len(fn.code)
        /\ fn.code[q - Args].op = "label" /\ fn.code[q - Args].ops[1] = ins.ops[1]
    BY <1>3, <2>6, <2>7, LabelPiece
  <2>9. ~(q <= Args)
    BY <1>3, <2>7, <2>8
  <2>10. InStep(q, 1)'
    <3>1. PICK to : to = fn.code[q - Args]
      OBVIOUS
    <3>2. Translating(to, q, 1)'
      BY FirstStepThen
    <3> QED  BY <1>9, <2>3, <2>8, <2>9, <3>1, <3>2 DEF InStep
  <2>11. Position(piece, step)'
    BY <1>13, <2>4, <2>5, <2>8, <2>10
  <2>12. Reached' = q - Args
    BY <1>12, <2>4, <2>5, <2>9 DEF PieceFrom
  <2>13. Reached' \in Targets(ins.ops[1])
    BY <2>8, <2>12 DEF Targets
  <2>14. Onward(p, k, l)
    BY <1>10, <1>19, <2>1, <2>13 DEF Onward
  <2> QED  BY <1>1, <1>4, <1>5, <1>6, <1>7, <1>8, <2>11, <2>14 DEF Moved
<1> QED  BY <1>10, <1>17, <1>18, <1>19

-----------------------------------------------------------------------------
(* The code starts to run at its first instruction.                        *)
LEMMA RunBegins == FrameInv /\ LaidInv /\ Entered /\ phase = "run" => RunInv
<1> SUFFICES ASSUME FrameInv, LaidInv, Entered, phase = "run" PROVE RunInv
  OBVIOUS
<1>1. inputs \in Inputs
  BY DEF Entered
<1>2. ASSUME Fits
      PROVE  \E piece, step : Laid(output, Pieces, piece, step) /\ Position(piece, step)
  <2>1. PICK piece, step : Laid(output, Pieces, piece, step)
    BY <1>2 DEF LaidInv
  <2>2. FrameType /\ Settled
    BY <1>2, FrameSettled DEF FrameInv
  <2>3. Machine /\ ArgsAt(0) /\ Saving(frameSize, 1) /\ mpc = 1
    BY <2>2, EnteredState
  <2>4. Pieces > 0
    <3>1. /\ Counted
          /\ at # 0 => at \in 1 .. Len(fn.code)
      BY DEF LaidInv
    <3>2. Args \in Nat
      BY <2>2, FunctionTypes DEF FrameType, Args
    <3> QED  BY <3>1, <3>2 DEF Pieces, Counted
  <2>5. Len(output) \in Nat /\ Len(output) > 0 /\ piece[1] = 0 /\ step[1] = 1
    <3>1. PICK S : output \in Seq(S)
      BY <2>1 DEF Laid, IsSeq
    <3> QED  BY <2>1, <2>4, <3>1, LenProperties DEF Laid
  <2>6. Position(piece, step)
    BY <2>3, <2>5 DEF Position, InStep
  <2> QED  BY <2>1, <2>6
<1> QED  BY <1>1, <1>2 DEF RunInv

(* The same of the next state.                                             *)
LEMMA RunBeginsThen == (FrameInv /\ LaidInv /\ Entered /\ phase = "run" => RunInv)'
BY RunBegins, PTL

(* Nothing runs at the start.                                              *)
LEMMA RunInit == Init => RunInv
BY DEF Init, AllocateInit, RunInv, Entered

(* Generation does not touch the machine.                                  *)
LEMMA StillEntered ==
    ASSUME Entered, UNCHANGED <<fn, inputs, machineVars>>
    PROVE  Entered'
<1>1. /\ Args' = Args
      /\ \A d : IsFloatArg(d)' = IsFloatArg(d) /\ InputOf(d)' = InputOf(d)
  BY DEF Args, IsFloatArg, InputOf, TypeOf, TypeIn
<1>2. ASSUME NEW float, NEW k PROVE ArgOfClass(float, k)' = ArgOfClass(float, k)
  <2> DEFINE those == {d \in 1 .. Args :
                        /\ IsFloatArg(d) = float
                        /\ Cardinality({e \in 1 .. d : IsFloatArg(e) = float}) = k}
  <2>1. \A d : {e \in 1 .. d : IsFloatArg(e) = float}' = {e \in 1 .. d : IsFloatArg(e) = float}
    BY <1>1
  <2>2. those' = those
    BY <1>1, <2>1
  <2>3. ArgOfClass(float, k) = IF those = {} THEN Undef ELSE InputOf(CHOOSE d \in those : TRUE)
    BY DEF ArgOfClass
  <2>4. ArgOfClass(float, k)' = IF those' = {} THEN Undef ELSE InputOf(CHOOSE d \in those : TRUE)'
    BY DEF ArgOfClass
  <2> HIDE DEF those
  <2>5. PICK s : s = those
    OBVIOUS
  <2>6. PICK d : d = CHOOSE c \in s : TRUE
    OBVIOUS
  <2>7. ArgOfClass(float, k) = IF s = {} THEN Undef ELSE InputOf(d)
    BY <2>3, <2>5, <2>6
  <2>8. ArgOfClass(float, k)' = IF s = {} THEN Undef ELSE InputOf(d)'
    BY <2>2, <2>4, <2>5, <2>6
  <2> QED  BY <1>1, <2>7, <2>8
<1> DEFINE Held(r) ==
        IF r \in Range(ArgReg) THEN ArgOfClass(FALSE, CHOOSE k \in 1 .. 8 : ArgReg[k] = r)
        ELSE IF r \in Range(FloatArgReg)
        THEN ArgOfClass(TRUE, CHOOSE k \in 1 .. 8 : FloatArgReg[k] = r)
        ELSE IF r = "zero" THEN 0 ELSE IF r = "ra" THEN ReturnAddress
        ELSE IF r = "sp" THEN Frame0 ELSE IF r = "fp" THEN CallerFp ELSE Undef
<1>3. ASSUME NEW r PROVE Held(r)' = Held(r)
  <2>1. PICK k, l : /\ k = CHOOSE j \in 1 .. 8 : ArgReg[j] = r
                    /\ l = CHOOSE j \in 1 .. 8 : FloatArgReg[j] = r
    OBVIOUS
  <2>2. ArgOfClass(FALSE, k)' = ArgOfClass(FALSE, k) /\ ArgOfClass(TRUE, l)' = ArgOfClass(TRUE, l)
    BY <1>2
  <2> QED  BY <2>1, <2>2
<1>4. regs = [r \in Registers |-> Held(r)] /\ regs' = regs
  BY DEF Entered, machineVars
<1> HIDE DEF Held
<1>5. regs' = [r \in Registers |-> Held(r)']
  BY <1>3, <1>4
<1>6. regs' = [r \in Registers |-> Held(r)]'
  BY <1>5 DEF Registers
<1> QED  BY <1>6 DEF Held, Entered, machineVars

(* Nothing moves.                                                          *)
LEMMA Still ==
    ASSUME UNCHANGED vars, NEW piece, NEW step, Position(piece, step)
    PROVE  Position(piece, step)'
<1>1. UNCHANGED <<frameVars, genVars, inputs>> /\ UNCHANGED <<regs, mem, mpc>>
  BY DEF vars, machineVars
<1>2. /\ UNCHANGED <<fn, slot, frameSize, output, at>>
      /\ Args' = Args /\ Defs' = Defs
      /\ \A d : /\ HasSlot(d)' = HasSlot(d) /\ TypeOf(d)' = TypeOf(d)
                /\ InputOf(d)' = InputOf(d) /\ Rank(d)' = Rank(d)
                /\ ArgRegister(d)' = ArgRegister(d) /\ slot'[d] = slot[d]
      /\ \A o : LoadLen(o)' = LoadLen(o) /\ NumberIn(o)' = NumberIn(o)
  BY <1>1, Fixed
<1>3. /\ \A d : SlotValue(d)' = SlotValue(d)
      /\ \A o : OperandValue(o)' = OperandValue(o)
      /\ \A a, n : Read(a, n)' = Read(a, n)
  BY <1>1, FixedValues
<1>4. Machine => Machine'
  <2>1. \A g : GlobalAt(g)' = GlobalAt(g)
    BY DEF GlobalAt
  <2>2. ASSUME GlobalsKept, NEW g \in DOMAIN Globals PROVE (Read(GlobalAt(g), 4) = Globals[g])'
    <3>1. PICK a : a = GlobalAt(g)
      OBVIOUS
    <3>2. Read(a, 4)' = Read(a, 4)
      BY <1>3
    <3>3. Read(a, 4) = Globals[g]
      BY <2>2, <3>1 DEF GlobalsKept
    <3> QED  BY <2>1, <3>1, <3>2, <3>3
  <2>3. GlobalsKept => GlobalsKept'
    BY <2>2 DEF GlobalsKept
  <2> QED  BY <1>1, <1>2, <2>3 DEF Machine, InFrame
<1>5. Read(Frame0 - 8, 8)' = Read(Frame0 - 8, 8) /\ Read(Frame0 - 16, 8)' = Read(Frame0 - 16, 8)
  BY <1>3
<1>6. Saved => Saved'
  BY <1>1, <1>2, <1>5 DEF Saved, ReturnAddress, CallerFp
<1>7. \A m : ArgsAt(m) => ArgsAt(m)'
  BY <1>1, <1>2, <1>3 DEF ArgsAt
<1>8. Ints => Ints'
  BY <1>2, <1>3 DEF Ints
<1>9. /\ Going => Going'
      /\ \A m : Filled(m) => Filled(m)'
  BY <1>4, <1>6, <1>7, <1>8 DEF Going, Filled
<1>10. \A n, k : Saving(n, k) => Saving(n, k)'
  BY <1>1, <1>5 DEF Saving, Building, ReturnAddress, CallerFp, SaveAt, FitsImm12
<1>11. /\ \A r, n, k : Building(r, n, k)' = Building(r, n, k)
       /\ \A o, r, k : Loading(o, r, k)' = Loading(o, r, k)
       /\ \A g, n, k : FloatAt(g, n, k)' = FloatAt(g, n, k)
  BY <1>1, <1>2, <1>3 DEF Building, Loading, FloatAt, GlobalAt
<1>12. ASSUME NEW ins, NEW d, NEW k, Translating(ins, d, k) PROVE Translating(ins, d, k)'
  <2>1. Outcome(ins)' = Outcome(ins)
    BY <1>3 DEF Outcome
  <2>2. \A x, y, v, n, a, b : BinaryAt(x, y, v, n, a, b, k) => BinaryAt(x, y, v, n, a, b, k)'
    BY <1>1, <1>3, <1>11 DEF BinaryAt
  <2>3. PICK v, n, a, b : /\ v = Outcome(ins) /\ n = slot[d]
                          /\ a = LoadLen(ins.ops[1]) /\ b = LoadLen(ins.ops[2])
    OBVIOUS
  <2>4. v = Outcome(ins)' /\ n = slot'[d] /\ a = LoadLen(ins.ops[1])' /\ b = LoadLen(ins.ops[2])'
    BY <1>2, <2>1, <2>3
  <2>5. ins.op \in Arithmetic => BinaryAt(ins.ops[1], ins.ops[2], v, n, a, b, k)'
    BY <1>12, <2>2, <2>3 DEF Translating
  <2>6. ins.op = "load" /\ ins.ty = "float" => FloatAt(ins.ops[1][2], n, k)'
    BY <1>11, <1>12, <2>3 DEF Translating
  <2>7. ins.op = "load" /\ ins.ty # "float" => Loading(ins.ops[1], "t0", k)'
    BY <1>11, <1>12 DEF Translating
  <2> QED  BY <2>4, <2>5, <2>6, <2>7 DEF Translating
<1>13. ASSUME NEW p, NEW k, InStep(p, k) PROVE InStep(p, k)'
  <2>1. PICK ins, n : ins = fn.code[p - Args] /\ n = frameSize
    OBVIOUS
  <2>2. CASE p = 0
    BY <1>2, <1>4, <1>7, <1>10, <1>13, <2>1, <2>2 DEF InStep
  <2>3. CASE p # 0 /\ p <= Args
    BY <1>2, <1>9, <1>11, <1>13, <2>3 DEF InStep
  <2>4. CASE p # 0 /\ ~(p <= Args)
    <3>1. Going' /\ Translating(ins, p, k)'
      BY <1>9, <1>12, <1>13, <2>1, <2>4 DEF InStep
    <3> QED  BY <1>2, <2>1, <2>4, <3>1 DEF InStep
  <2> QED  BY <2>2, <2>3, <2>4
<1>14. CASE mpc \in 1 .. Len(output)
  <2>1. PICK p, k : p = piece[mpc] /\ k = step[mpc]
    OBVIOUS
  <2>2. InStep(p, k)'
    BY <1>13, <1>14, <2>1 DEF Position
  <2> QED  BY <1>1, <1>2, <1>14, <2>1, <2>2 DEF Position
<1>15. CASE ~(mpc \in 1 .. Len(output))
  BY <1>1, <1>2, <1>4, <1>9, <1>15 DEF Position, Finished
<1> QED  BY <1>14, <1>15

(* Every step keeps the machine in its place.                              *)
LEMMA RunStep == MachineInv /\ [Next]_vars => RunInv'
<1> SUFFICES ASSUME CodeGenInv, LaidInv, RunInv, [Next]_vars PROVE RunInv'
  BY DEF MachineInv
<1>1. CASE Layout \/ Generate
  <2>1. phase # "run" /\ UNCHANGED <<fn, inputs, machineVars>>
    <3>1. CASE Layout
      BY <3>1 DEF Layout, Allocate, AllocateNext, AllocateDone
    <3>2. CASE Generate
      BY <3>2 DEF Generate, SaveRegisters, StoreArg, ArgsStored, GenLabel, GenBr, GenBinary,
                  GenLoad, SkipRem, Throw, Translates, Translated, frameVars
    <3> QED  BY <1>1, <3>1, <3>2
  <2>2. Entered'
    BY <2>1, StillEntered DEF RunInv
  <2>3. FrameInv' /\ LaidInv'
    BY FrameStep, LaidStep DEF CodeGenInv
  <2>4. CASE phase' = "run"
    BY <2>2, <2>3, <2>4, RunBeginsThen
  <2>5. CASE phase' # "run"
    BY <2>2, <2>5 DEF RunInv, Entered
  <2> QED  BY <2>4, <2>5
<1>2. CASE Execute
  <2>1. /\ phase = "run"
        /\ UNCHANGED <<fn, slot, frameSize, need, phase, inputs, output, at, gargs, fargs>>
        /\ Fits' = Fits /\ Pieces' = Pieces
    BY <1>2, Executed, Unmoved
  <2>2. ASSUME Fits
        PROVE  \E piece, step : (Laid(output, Pieces, piece, step) /\ Position(piece, step))'
    <3>1. PICK piece, step : Laid(output, Pieces, piece, step) /\ Position(piece, step)
      BY <2>1, <2>2 DEF RunInv
    <3>2. Moved(piece, step, piece[mpc], step[mpc], Len(PieceCode(piece[mpc])))
      <4>1. PICK p, k : p = piece[mpc] /\ k = step[mpc]
        OBVIOUS
      <4> QED  BY <1>2, <2>1, <2>2, <3>1, <4>1, Steps DEF RunInv
    <3>3. Position(piece, step)'
      BY <3>2 DEF Moved
    <3>4. PICK o, n : o = output /\ n = Pieces
      OBVIOUS
    <3>5. Laid(o, n, piece, step)'
      BY <2>1, <3>1, <3>4, SameLaid
    <3> QED  BY <2>1, <3>3, <3>4, <3>5
  <2> QED  BY <2>1, <2>2 DEF RunInv
<1>3. CASE Stopped \/ UNCHANGED vars
  <2>1. /\ UNCHANGED vars
        /\ UNCHANGED <<fn, slot, frameSize, need, phase, inputs, output, at, gargs, fargs>>
        /\ UNCHANGED machineVars /\ Fits' = Fits /\ Pieces' = Pieces
    <3>1. UNCHANGED vars
      BY <1>3 DEF Stopped
    <3>2. UNCHANGED <<frameVars, genVars, inputs>> /\ UNCHANGED machineVars
      BY <3>1 DEF vars
    <3> QED  BY <3>1, <3>2, Fixed
  <2>2. Entered => Entered'
    BY <2>1, StillEntered
  <2>3. ASSUME phase = "run", Fits
        PROVE  \E piece, step : (Laid(output, Pieces, piece, step) /\ Position(piece, step))'
    <3>1. PICK piece, step : Laid(output, Pieces, piece, step) /\ Position(piece, step)
      BY <2>3 DEF RunInv
    <3>2. PICK o, n : o = output /\ n = Pieces
      OBVIOUS
    <3>3. Laid(o, n, piece, step)'
      BY <2>1, <3>1, <3>2, SameLaid
    <3> QED  BY <2>1, <3>1, <3>2, <3>3, Still
  <2> QED  BY <2>1, <2>2, <2>3 DEF RunInv
<1> QED  BY <1>1, <1>2, <1>3 DEF Next

-----------------------------------------------------------------------------
(* The inductive invariant of layout, generation and machine together.     *)
THEOREM MachineInvariant == Spec => []MachineInv
<1>1. Init => MachineInv
  BY FrameInit, GenInvInit, LaidInit, RunInit DEF Init, MachineInv, CodeGenInv
<1>2. MachineInv /\ [Next]_vars => MachineInv'
  BY FrameStep, GenStep, LaidStep, RunStep DEF MachineInv, CodeGenInv
<1> QED  BY <1>1, <1>2, PTL DEF Spec

(* The output is a sequence.                                               *)
LEMMA InDomain ==
    ASSUME NEW piece, NEW step, Laid(output, Pieces, piece, step)
    PROVE  DOMAIN output = 1 .. Len(output) /\ Len(output) \in Nat
<1>1. PICK S : output \in Seq(S)
  BY DEF Laid, IsSeq
<1> QED  BY <1>1, LenProperties

(* Once the prologue has run the caller's registers can be restored, and   *)
(* memory outside the frame is never written: for every function whose     *)
(* frame fits, whatever is run and for how long.                           *)
THEOREM CallersStateIsKept == Spec => []CallerKept
<1>1. MachineInv => CallerKept
  <2> SUFFICES ASSUME MachineInv, Fits, phase = "run" PROVE CallerKept
    BY DEF CallerKept
  <2>1. PICK piece, step : Laid(output, Pieces, piece, step) /\ Position(piece, step)
    BY DEF MachineInv, RunInv
  <2>2. DOMAIN output = 1 .. Len(output) /\ Args \in Nat
    BY <2>1, InDomain, FunctionTypes DEF MachineInv, CodeGenInv, FrameInv, FrameType, Args
  <2>3. Machine /\ (Reached # 0 => Saved)
    <3>1. CASE mpc \in 1 .. Len(output)
      <4>1. PICK p, k : p = piece[mpc] /\ k = step[mpc]
        OBVIOUS
      <4>2. Standing(p, k) /\ Reached = PieceFrom(p)
        BY <2>1, <2>2, <3>1, <4>1, Stands DEF MachineInv, Reached
      <4>3. InStep(p, k)
        BY <2>1, <3>1, <4>1 DEF Position
      <4>4. Machine
        BY <4>3 DEF InStep, Filled, Going
      <4>5. ASSUME Reached # 0 PROVE Saved
        <5>1. ~(p <= Args) /\ p # 0
          BY <2>2, <4>2, <4>5 DEF PieceFrom
        <5> QED  BY <4>3, <5>1 DEF InStep, Going
      <4> QED  BY <4>4, <4>5
    <3>2. CASE ~(mpc \in 1 .. Len(output))
      BY <2>1, <2>2, <3>2 DEF Position, Finished, Reached, Going
    <3> QED  BY <3>1, <3>2
  <2> QED  BY <2>3 DEF CallerKept, Machine, InFrame, Saved
<1> QED  BY <1>1, MachineInvariant, PTL

-----------------------------------------------------------------------------
(* What the machine's state stands for in the IR machine.                  *)
IrInputs == [d \in 1 .. Args |-> InputOf(d)]
IrIp == IF Follows THEN Reached ELSE 0
IrVals == [d \in Defs |-> IF Follows /\ HasSlot(d) THEN SlotValue(d) ELSE Undef]

(* The actions of the IR machine, in terms of what it stands for: at the   *)
(* start nothing has a value.                                              *)
LEMMA MapInit == IrIp = 0 /\ IrVals = [d \in Defs |-> Undef] => IR!Init
BY DEF IR!Init, IR!ArgCount, IrIp, IrVals, Args, Defs, SlotValue, Width

(* Nothing happens.                                                        *)
LEMMA MapStutter == UNCHANGED <<fn, IrInputs, IrIp, IrVals>> => UNCHANGED IR!vars
BY DEF IR!vars, IrInputs, IrIp, IrVals, SlotValue, Width

(* The arguments are there, and nothing else.                              *)
LEMMA MapEnter ==
    ASSUME UNCHANGED <<fn, IrInputs>>, IrIp = 0, IrIp' = 1,
           IrVals' = [d \in Defs |-> IF d <= Args THEN InputOf(d) ELSE Undef], Args \in Nat
    PROVE  IR!Enter
<1>1. DOMAIN IrVals = Defs
  BY DEF IrVals
<1>2. \A d \in Defs : d <= Args => d \in 1 .. Args /\ IrInputs[d] = InputOf(d)
  BY DEF Defs, IrInputs
<1>3. IrVals' = [d \in DOMAIN IrVals |-> IF d <= Len(fn.args) THEN IrInputs[d] ELSE Undef]
  BY <1>1, <1>2 DEF Args
<1> QED  BY <1>3 DEF IR!Enter, IR!ArgCount, IrInputs, IrIp, IrVals, SlotValue, Width

(* A label.                                                                *)
LEMMA MapLabel ==
    ASSUME UNCHANGED <<fn, IrInputs, IrVals>>, IrIp \in 1 .. Len(fn.code),
           fn.code[IrIp].op = "label", IrIp' = IrIp + 1
    PROVE  IR!StartBlock
BY DEF IR!StartBlock, IR!At, IR!Here, IrInputs, IrIp, IrVals, SlotValue, Width

(* An unconditional br.                                                    *)
LEMMA MapBranch ==
    ASSUME UNCHANGED <<fn, IrInputs, IrVals>>, IrIp \in 1 .. Len(fn.code),
           fn.code[IrIp].op = "br", IrIp' \in 1 .. Len(fn.code),
           fn.code[IrIp'].op = "label", fn.code[IrIp'].ops = fn.code[IrIp].ops
    PROVE  IR!Branch
BY DEF IR!Branch, IR!At, IR!Here, IrInputs, IrIp, IrVals, SlotValue, Width

(* A load of a float.                                                      *)
LEMMA MapLoad ==
    ASSUME UNCHANGED <<fn, IrInputs>>, IrIp \in 1 .. Len(fn.code),
           fn.code[IrIp].op = "load", fn.code[IrIp].ty = "float", IrIp' = IrIp + 1,
           IrVals' = [IrVals EXCEPT ![Args + IrIp] = Globals[fn.code[IrIp].ops[1][2]]]
    PROVE  IR!LoadGlobal
BY DEF IR!LoadGlobal, IR!At, IR!Here, IR!Gives, IR!ArgCount, Args, IrInputs, IrIp, IrVals,
       SlotValue, Width

(* A binary operation.                                                     *)
LEMMA MapBinary ==
    ASSUME UNCHANGED <<fn, IrInputs>>, IrIp \in 1 .. Len(fn.code),
           fn.code[IrIp].op \in Arithmetic, IrIp' = IrIp + 1,
           NEW v, v = IR!Result(fn.code[IrIp].op, IR!ValueOf(fn.code[IrIp].ops[1]),
                                IR!ValueOf(fn.code[IrIp].ops[2])),
           IrVals' = [IrVals EXCEPT ![Args + IrIp] = v]
    PROVE  IR!Binary
BY DEF IR!Binary, IR!BinaryOps, Arithmetic, IR!At, IR!Here, IR!Gives, IR!ArgCount, Args,
       IrInputs, IrIp, IrVals, SlotValue, Width

(* A value computed by the machine is the IR's.                            *)
LEMMA SameResult ==
    ASSUME NEW op \in Arithmetic, NEW x \in Int, NEW y \in Int
    PROVE  Signed(Computed(op, x, y), Word) = IR!Result(op, x, y)
<1>1. \A a, b \in Int : Quot(a, b) = IR!Quotient(a, b)
  <2> SUFFICES ASSUME NEW a \in Int, NEW b \in Int PROVE Quot(a, b) = IR!Quotient(a, b)
    OBVIOUS
  <2>1. CASE b = 0
    <3>1. PICK z \in Int : z = 0
      OBVIOUS
    <3>2. \A w \in Int : w <= 0 /\ w >= 0 => -w = w
      OBVIOUS
    <3>3. z <= 0 /\ z >= 0
      BY <3>1
    <3>4. -z = z
      BY <3>2, <3>3
    <3>5. Quot(a, b) = IF (a < 0) = (b < 0) THEN z ELSE -z
      BY <2>1, <3>1 DEF Quot
    <3>6. Quot(a, b) = 0
      BY <3>1, <3>5, <3>4
    <3> QED  BY <2>1, <3>6 DEF IR!Quotient
  <2>2. CASE b # 0
    BY <2>2 DEF Quot, IR!Quotient, Abs, IR!Abs
  <2> QED  BY <2>1, <2>2
<1>2. \A n : Signed(n, Word) = IR!AsWord(n)
  BY DEF Signed, IR!AsWord
<1>3. PICK q : q = Quot(x, y) /\ q = IR!Quotient(x, y)
  BY <1>1
<1>4. PICK n : n = Computed(op, x, y)
  OBVIOUS
<1>5. n = IF op = "add" THEN x + y ELSE IF op = "sub" THEN x - y
          ELSE IF op = "mul" THEN x * y ELSE q
  BY <1>3, <1>4 DEF Computed
<1>6. IR!Result(op, x, y) = IR!AsWord(n)
  BY <1>3, <1>5 DEF IR!Result, Arithmetic
<1> QED  BY <1>2, <1>4, <1>6

(* An operand is worth what it is worth to the IR.                         *)
LEMMA SameOperand ==
    ASSUME Settled, Follows, Ints, NEW o, IsOperand(fn, o, "int")
    PROVE  /\ Signed(OperandValue(o), Word) = IR!ValueOf(o)
           /\ Signed(OperandValue(o), Word) \in Int
<1>1. CASE o[1] = "const" /\ o[2] \in Word32
  <2>1. OperandValue(o) = o[2] /\ o[2] \in Int
    BY <1>1, HalfAssumption DEF OperandValue, Word32
  <2>2. IR!ValueOf(o) = Signed(o[2], Word)
    BY <1>1 DEF IR!ValueOf, IR!AsWord, Signed
  <2> QED  BY <2>1, <2>2, Widths, SignedRange
<1>2. CASE o[1] = "def" /\ o[2] \in Defs /\ HasSlot(o[2]) /\ TypeOf(o[2]) = "int"
  <2>1. OperandValue(o) = SlotValue(o[2]) /\ SlotValue(o[2]) \in Int
    BY <1>2 DEF OperandValue, Ints
  <2>2. IrVals[o[2]] = SlotValue(o[2])
    BY <1>2 DEF IrVals
  <2>3. IR!ValueOf(o) = Signed(IrVals[o[2]], Word)
    BY <1>2 DEF IR!ValueOf, IR!AsWord, Signed, IrVals, SlotValue, Width
  <2> QED  BY <2>1, <2>2, <2>3, Widths, SignedRange
<1>3. o[1] # "global"
  BY DEF IsOperand
<1> QED  BY <1>1, <1>2, <1>3, OperandForms

(* Before the first instruction that is not implemented every instruction  *)
(* has code, and the one that is not computes nothing.                     *)
LEMMA HasItsCode ==
    ASSUME FrameType, Settled, ~HasRem, NEW i \in 1 .. Len(fn.code), ~Todo(i),
           \A j \in 1 .. i - 1 : ~Todo(j)
    PROVE  Len(PieceCode(Args + i)) > 0
<1>1. PICK ins : ins = fn.code[i]
  OBVIOUS
<1>2. PieceCode(Args + i) = CodeFor(ins, Args + i)
  BY <1>1, CodeTypes DEF PieceCode
<1>3. ins.op # "srem"
  BY <1>1 DEF HasRem
<1>4. ins.op \in {"label", "br"} \cup Arithmetic \/ (ins.op = "load" /\ ins.ty = "float")
  BY <1>1, <1>3 DEF Todo, IsTodo, Implemented
<1>5. CASE ins.op = "label"
  <2>1. CodeFor(ins, Args + i) = <<<<"label", ins.ops[1]>>>>
    BY <1>5 DEF CodeFor
  <2> QED  BY <1>2, <2>1, OneSeq
<1>6. CASE ins.op = "br"
  <2>1. CodeFor(ins, Args + i) = <<<<"b", ins.ops[1]>>>>
    BY <1>6 DEF CodeFor
  <2> QED  BY <1>2, <2>1, OneSeq
<1>7. CASE ins.op \in Arithmetic
  <2>1. CodeFor(ins, Args + i) = BinaryCode(ins, Args + i)
    BY <1>7 DEF CodeFor, Arithmetic
  <2>2. PICK a, b, x, c, s :
          /\ a = LoadToGreg(ins.ops[1], "t0") /\ b = LoadToGreg(ins.ops[2], "t1")
          /\ c = StoreFromGreg(Args + i, "t2") /\ x = <<MachineOp(ins.op), "t2", "t0", "t1">>
          /\ s = BinaryCode(ins, Args + i)
    OBVIOUS
  <2>3. Segments(s, a, b, x, c)
    BY <1>1, <1>7, <2>2, BinaryListed
  <2>4. /\ IsOperand(fn, ins.ops[1], "int") /\ IsOperand(fn, ins.ops[2], "int")
        /\ Args + i \in Defs /\ TypeOf(Args + i) = "int"
    BY <1>1, <1>7, CodeTypes
  <2>5. HasSlot(Args + i)
    BY <2>4 DEF HasSlot
  <2>6. Len(a) \in 1 .. 6 /\ Len(b) \in 1 .. 6
    BY <2>2, <2>4, LoadCode, LoadingFirst
  <2>7. Len(c) \in {1, 6}
    BY <2>2, <2>4, <2>5, StoreCode DEF AccessLen
  <2>8. Len(s) = Len(a) + Len(b) + 1 + Len(c)
    BY <2>3 DEF Segments
  <2> QED  BY <1>2, <2>1, <2>2, <2>6, <2>7, <2>8
<1>8. CASE ins.op = "load" /\ ins.ty = "float"
  <2>1. CodeFor(ins, Args + i) = FloatLoadCode(ins, Args + i)
    BY <1>8 DEF CodeFor, Arithmetic
  <2>2. PICK a, x, c, s :
          /\ a = LoadToGreg(ins.ops[1], "t0")
          /\ c = StoreFromFreg(Args + i, "ft0") /\ x = <<"fld.s", "ft0", "t0", 0>>
          /\ s = FloatLoadCode(ins, Args + i)
    OBVIOUS
  <2>3. Segments(s, a, << >>, x, c)
    BY <1>1, <1>8, <2>2, FloatLoadListed
  <2>4. /\ IsOperand(fn, ins.ops[1], "ptr")
        /\ Args + i \in Defs /\ TypeOf(Args + i) = "float"
    BY <1>1, <1>8, CodeTypes
  <2>5. HasSlot(Args + i)
    BY <2>4 DEF HasSlot
  <2>6. Len(a) \in 1 .. 6 /\ Len(<< >>) = 0
    BY <2>2, <2>4, LoadCode, LoadingFirst
  <2>7. Len(c) \in {1, 6}
    BY <2>2, <2>4, <2>5, StoreCode DEF AccessLen
  <2>8. Len(s) = Len(a) + 0 + 1 + Len(c)
    BY <2>3, <2>6 DEF Segments
  <2> QED  BY <1>2, <2>1, <2>2, <2>6, <2>7, <2>8
<1> QED  BY <1>4, <1>5, <1>6, <1>7, <1>8

(* After the prologue and after each instruction comes the next one.       *)
LEMMA NextPiece ==
    ASSUME FrameType, Settled, ~HasRem, Emitting, at \in 1 .. Len(fn.code),
           \A j \in 1 .. at - 1 : ~Todo(j),
           NEW i \in 0 .. at, NEW q \in (Args + i) + 1 .. Pieces, EmptyBetween(Args + i, q)
    PROVE  (IF q < Pieces THEN PieceFrom(q) ELSE at) = IF i < at THEN i + 1 ELSE at
<1>1. Args \in Nat /\ Len(fn.code) \in Nat /\ at \in Nat /\ i \in Nat /\ q \in Nat
  <2>1. Args \in Nat /\ Len(fn.code) \in Nat
    BY FunctionTypes DEF FrameType, Args
  <2> QED  BY <2>1 DEF Emitting
<1>2. PICK n : n = Pieces
  OBVIOUS
<1>3. n = (Args + at) + 1
  BY <1>1, <1>2 DEF Emitting
<1>4. CASE i = at
  <2>1. ~(q < n)
    BY <1>1, <1>2, <1>3, <1>4
  <2> QED  BY <1>1, <1>2, <1>4, <2>1
<1>5. CASE i < at
  <2>1. CASE q = (Args + i) + 1
    <3>1. q < n /\ ~(q <= Args) /\ q - Args = i + 1
      BY <1>1, <1>3, <1>5, <2>1
    <3> QED  BY <1>2, <1>5, <3>1 DEF PieceFrom
  <2>2. CASE q # (Args + i) + 1
    <3>1. (Args + i) + 1 \in (Args + i) + 1 .. q - 1
      BY <1>1, <2>2
    <3>2. PICK m \in 1 .. Len(fn.code) : m = i + 1
      BY <1>1, <1>5
    <3>3. Args + m = (Args + i) + 1
      BY <1>1, <3>2
    <3>4. Len(PieceCode(Args + m)) = 0
      BY <3>1, <3>3 DEF EmptyBetween
    <3>5. ~(m < at)
      <4>1. ASSUME m < at PROVE FALSE
        <5>1. m \in 1 .. at - 1 /\ \A j \in 1 .. m - 1 : j \in 1 .. at - 1
          BY <1>1, <3>2, <4>1
        <5>2. Len(PieceCode(Args + m)) > 0
          BY <5>1, HasItsCode
        <5> QED  BY <3>4, <5>2
      <4> QED  BY <4>1
    <3>6. m = at
      BY <1>1, <1>5, <3>2, <3>5
    <3>7. ~(q < n)
      BY <1>1, <1>2, <1>3, <2>2, <3>2, <3>6
    <3> QED  BY <1>2, <1>5, <3>2, <3>6, <3>7
  <2> QED  BY <2>1, <2>2
<1> QED  BY <1>1, <1>4, <1>5

(* A cell that is not there cannot be read in the next state.              *)
LEMMA NotThereThen == (\A a \in Int, n \in {1, 4, 8} : a \notin DOMAIN mem => Read(a, n) = Undef)'
<1>1. ASSUME NEW a \in Int, NEW n \in {1, 4, 8}, a \notin DOMAIN mem' PROVE Read(a, n)' = Undef
  <2>1. 0 \in 0 .. n - 1 /\ a + 0 = a
    OBVIOUS
  <2> QED  BY <1>1, <2>1 DEF Read
<1> QED  BY <1>1

(* A step of the machine in the code of an instruction.                    *)
LEMMA CodeImplements ==
    ASSUME Execute, CodeGenInv, LaidInv, phase = "run", Fits, ~HasRem,
           NEW piece, NEW step, NEW i \in 1 .. Len(fn.code), NEW p, p = Args + i,
           NEW k, NEW l, Moved(piece, step, p, k, l), k \in 1 .. l, l = Len(PieceCode(p))
    PROVE  [IR!Next]_(IR!vars)
<1>1. /\ FrameType /\ Settled /\ Emitting
      /\ Standing(p, k) /\ InStep(p, k) /\ PieceStepped(p, k, l) /\ Onward(p, k, l)
      /\ Reached = PieceFrom(p)
  <2>1. FrameInv /\ FrameType
    BY DEF CodeGenInv, FrameInv
  <2>2. Settled
    BY <2>1, FrameSettled
  <2> QED  BY <2>1, <2>2, LastPiece DEF Moved
<1>2. /\ p > Args /\ ~(p <= Args) /\ p # 0 /\ p - Args = i
      /\ Args \in Nat /\ p \in Defs /\ Len(fn.code) \in Nat /\ i # 0
  BY <1>1, CodeTypes, FunctionTypes DEF FrameType
<1>3. PICK ins : ins = fn.code[i]
  OBVIOUS
<1>4. /\ UNCHANGED <<fn, slot, frameSize, need, phase, inputs, output, at, gargs, fargs>>
      /\ Args' = Args /\ Defs' = Defs /\ Pieces' = Pieces /\ Fits' = Fits
      /\ \A d : /\ HasSlot(d)' = HasSlot(d) /\ InputOf(d)' = InputOf(d)
  BY Unmoved
<1>5. IrInputs' = IrInputs
  BY <1>4 DEF IrInputs
<1>6. Reached = i /\ Follows /\ IrIp = i
  BY <1>1, <1>2 DEF PieceFrom, Follows, IrIp
<1>7. ~HasRem'
  BY <1>4 DEF HasRem
<1>8. Reached' # 0 => Follows' /\ IrIp' = Reached'
  BY <1>4, <1>7 DEF Follows, IrIp
<1>9. IrVals = [d \in Defs |-> IF HasSlot(d) THEN SlotValue(d) ELSE Undef]
  BY <1>6 DEF IrVals
<1>10. Reached' # 0 => IrVals' = [d \in Defs |-> IF HasSlot(d) THEN SlotValue(d)' ELSE Undef]
  BY <1>4, <1>8 DEF IrVals
<1>11. ASSUME mem' = mem, Reached' # 0 PROVE IrVals' = IrVals
  BY <1>9, <1>10, <1>11, SameValues
<1>12. Stepped(ins, p, k, l)
  BY <1>1, <1>2, <1>3 DEF PieceStepped
<1>13. at \in 1 .. Len(fn.code) /\ i \in 1 .. at /\ at # 0 /\ \A j \in 1 .. at - 1 : ~Todo(j)
  BY <1>1, <1>2 DEF Standing
<1>14. CASE k < l
  <2>1. Reached' = Reached
    BY <1>1, <1>14 DEF Onward
  <2>2. mem' = mem
    BY <1>12, <1>14 DEF Stepped
  <2>3. IrIp' = IrIp /\ IrVals' = IrVals
    BY <1>2, <1>6, <1>8, <1>11, <2>1, <2>2
  <2> QED  BY <1>4, <1>5, <2>3, MapStutter
<1>15. CASE k = l /\ ~Jumps(p)
  <2>1. ~(k < l) /\ k = l
    BY <1>12, <1>15 DEF Stepped
  <2>2. ins.op # "br"
    BY <1>2, <1>3, <1>15 DEF Jumps
  <2>3. PICK q \in p + 1 .. Pieces :
           EmptyBetween(p, q) /\ Reached' = IF q < Pieces THEN PieceFrom(q) ELSE at
    BY <1>1, <1>15, <2>1 DEF Onward
  <2>4. Reached' = IF i < at THEN i + 1 ELSE at
    <3>1. i \in 0 .. at
      BY <1>13
    <3> QED  BY <1>1, <1>13, <2>3, <3>1, NextPiece
  <2>5. CASE i = at
    <3>1. Reached' = i
      BY <1>13, <2>4, <2>5
    <3>2. Todo(i)
      <4>1. StopsAtFirstTodo
        BY DEF CodeGenInv, GenInv
      <4> QED  BY <1>13, <2>5, <4>1 DEF StopsAtFirstTodo
    <3>3. ~Valued(ins)
      BY <1>3, <3>2 DEF Valued, Todo, IsTodo, Implemented
    <3>4. mem' = mem
      BY <1>12, <2>1, <3>3 DEF Stepped
    <3>5. IrIp' = IrIp /\ IrVals' = IrVals
      BY <1>2, <1>6, <1>8, <1>11, <3>1, <3>4
    <3> QED  BY <1>4, <1>5, <3>5, MapStutter
  <2>6. CASE i < at
    <3>1. Reached' = i + 1 /\ Reached' # 0
      BY <1>2, <1>13, <2>4, <2>6
    <3>2. ~Todo(i)
      BY <1>13, <2>6
    <3>3. ins.op # "srem"
      BY <1>3 DEF HasRem
    <3>4. ins.op \in {"label"} \cup Arithmetic \/ (ins.op = "load" /\ ins.ty = "float")
      BY <1>3, <2>2, <3>2, <3>3 DEF Todo, IsTodo, Implemented
    <3>5. IrIp' = IrIp + 1 /\ IrIp = i
      BY <1>6, <1>8, <3>1
    <3>6. CASE ins.op = "label"
      <4>1. ~Valued(ins)
        BY <3>6 DEF Valued, Arithmetic
      <4>2. mem' = mem
        BY <1>12, <2>1, <4>1 DEF Stepped
      <4>3. IR!StartBlock
        BY <1>3, <1>4, <1>5, <1>11, <3>1, <3>5, <3>6, <4>2, MapLabel
      <4> QED  BY <4>3 DEF IR!Next
    <3>7. ASSUME Valued(ins), HasSlot(p)
          PROVE  IrVals' = [IrVals EXCEPT ![p] = Worth(ins)]
      <4>1. Gives(p, Worth(ins))
        BY <1>12, <2>1, <3>7 DEF Stepped
      <4>2. /\ SlotValue(p)' = Worth(ins)
            /\ \A e \in Defs : HasSlot(e) /\ e # p => SlotValue(e)' = SlotValue(e)
        BY <4>1 DEF Gives
      <4> QED  BY <1>2, <1>9, <1>10, <3>1, <3>7, <4>2
    <3>8. CASE ins.op \in Arithmetic
      <4>1. /\ IsOperand(fn, ins.ops[1], "int") /\ IsOperand(fn, ins.ops[2], "int")
            /\ TypeOf(p) = "int"
        BY <1>1, <1>3, <3>8, CodeTypes
      <4>2. Ints
        BY <1>1, <1>2 DEF InStep, Going
      <4>3. PICK x, y : /\ x = Signed(OperandValue(ins.ops[1]), Word)
                        /\ y = Signed(OperandValue(ins.ops[2]), Word)
        OBVIOUS
      <4>4. /\ x = IR!ValueOf(ins.ops[1]) /\ x \in Int
            /\ y = IR!ValueOf(ins.ops[2]) /\ y \in Int
        BY <1>1, <1>6, <4>1, <4>2, <4>3, SameOperand
      <4>5. Outcome(ins) = Signed(Computed(ins.op, x, y), Word)
        BY <4>3 DEF Outcome
      <4>6. Outcome(ins) = IR!Result(ins.op, x, y)
        BY <3>8, <4>4, <4>5, SameResult
      <4>7. Valued(ins) /\ HasSlot(p) /\ Worth(ins) = Outcome(ins)
        BY <3>8, <4>1 DEF Valued, HasSlot, Worth
      <4>8. PICK v : v = Outcome(ins)
        OBVIOUS
      <4>9. v = IR!Result(ins.op, IR!ValueOf(ins.ops[1]), IR!ValueOf(ins.ops[2]))
        BY <4>4, <4>6, <4>8
      <4>10. IrVals' = [IrVals EXCEPT ![Args + IrIp] = v]
        BY <3>5, <3>7, <4>7, <4>8
      <4>11. IR!Binary
        BY <1>3, <1>4, <1>5, <3>5, <3>8, <4>9, <4>10, MapBinary
      <4> QED  BY <4>11 DEF IR!Next
    <3>9. CASE ins.op = "load" /\ ins.ty = "float"
      <4>1. TypeOf(p) = "float"
        BY <1>1, <1>3, <3>9, CodeTypes
      <4>2. Valued(ins) /\ HasSlot(p) /\ Worth(ins) = Globals[ins.ops[1][2]]
        BY <3>9, <4>1 DEF Valued, HasSlot, Worth, Arithmetic
      <4>3. IrVals' = [IrVals EXCEPT ![Args + IrIp] = Globals[ins.ops[1][2]]]
        BY <3>5, <3>7, <4>2
      <4>4. IR!LoadGlobal
        BY <1>3, <1>4, <1>5, <3>5, <3>9, <4>3, MapLoad
      <4> QED  BY <4>4 DEF IR!Next
    <3> QED  BY <3>4, <3>6, <3>8, <3>9
  <2> QED  BY <1>13, <2>5, <2>6
<1>16. CASE k = l /\ Jumps(p)
  <2>1. ~(k < l) /\ k = l /\ ins.op = "br"
    BY <1>2, <1>3, <1>12, <1>16 DEF Stepped, Jumps
  <2>2. Reached' \in Targets(ins.ops[1])
    BY <1>1, <1>2, <1>3, <1>16, <2>1 DEF Onward
  <2>3. PICK t \in 1 .. Len(fn.code) :
           Reached' = t /\ fn.code[t].op = "label" /\ fn.code[t].ops[1] = ins.ops[1]
    BY <2>2 DEF Targets
  <2>4. fn.code[t].ops = ins.ops
    <3>1. fn.code[t].ops = <<fn.code[t].ops[1]>>
      BY <1>1, <2>3, CodeTypes
    <3>2. ins.ops = <<ins.ops[1]>>
      BY <1>1, <1>3, <2>1, CodeTypes
    <3> QED  BY <2>3, <3>1, <3>2
  <2>5. ~Valued(ins)
    BY <2>1 DEF Valued, Arithmetic
  <2>6. mem' = mem
    BY <1>12, <2>1, <2>5 DEF Stepped
  <2>7. Reached' # 0 /\ IrIp' = t
    BY <1>2, <1>8, <2>3
  <2>8. IR!Branch
    BY <1>3, <1>4, <1>5, <1>6, <1>11, <2>1, <2>3, <2>4, <2>6, <2>7, MapBranch
  <2> QED  BY <2>8 DEF IR!Next
<1>17. k < l \/ k = l
  BY <1>12 DEF Stepped
<1> QED  BY <1>14, <1>15, <1>16, <1>17

(* A step of the machine in the prologue.                                  *)
LEMMA PrologueImplements ==
    ASSUME Execute, CodeGenInv, LaidInv, phase = "run", Fits, ~HasRem,
           NEW piece, NEW step, NEW p \in 0 .. Args,
           NEW k, NEW l, Moved(piece, step, p, k, l), k \in 1 .. l, l = Len(PieceCode(p))
    PROVE  [IR!Next]_(IR!vars)
<1>1. /\ FrameType /\ Settled /\ Emitting
      /\ PieceStepped(p, k, l) /\ Onward(p, k, l) /\ p \in 0 .. Pieces - 1
      /\ Reached = PieceFrom(p)
  <2>1. FrameInv /\ FrameType
    BY DEF CodeGenInv, FrameInv
  <2>2. Settled
    BY <2>1, FrameSettled
  <2> QED  BY <2>1, <2>2, LastPiece DEF Moved
<1>2. Args \in Nat /\ Len(fn.code) \in Nat /\ p \in Nat /\ p <= Args /\ ~(p > Args) /\ ~Jumps(p)
  <2>1. Args \in Nat /\ Len(fn.code) \in Nat
    BY <1>1, FunctionTypes DEF FrameType, Args
  <2> QED  BY <2>1 DEF Jumps
<1>3. /\ UNCHANGED <<fn, slot, frameSize, need, phase, inputs, output, at, gargs, fargs>>
      /\ Args' = Args /\ Defs' = Defs /\ Pieces' = Pieces /\ Fits' = Fits
      /\ \A d : /\ HasSlot(d)' = HasSlot(d) /\ InputOf(d)' = InputOf(d) /\ Width(d)' = Width(d)
  BY Unmoved
<1>4. IrInputs' = IrInputs
  BY <1>3 DEF IrInputs
<1>5. Reached = 0 /\ ~Follows /\ IrIp = 0
  BY <1>1, <1>2 DEF PieceFrom, Follows, IrIp
<1>6. IrVals = [d \in Defs |-> Undef]
  BY <1>5 DEF IrVals
<1>7. CASE Reached' = 0
  <2>1. IrIp' = 0 /\ ~Follows'
    BY <1>7 DEF IrIp, Follows
  <2>2. IrVals' = [d \in Defs |-> Undef]
    BY <1>3, <2>1 DEF IrVals
  <2> QED  BY <1>3, <1>4, <1>5, <1>6, <2>1, <2>2, MapStutter
<1>8. CASE Reached' # 0
  <2>1. ~(k < l) /\ k = l
    <3>1. ~(k < l)
      BY <1>1, <1>5, <1>8 DEF Onward
    <3> QED  BY <1>1, <3>1 DEF PieceStepped
  <2>2. PICK q \in p + 1 .. Pieces :
           EmptyBetween(p, q) /\ Reached' = IF q < Pieces THEN PieceFrom(q) ELSE at
    BY <1>1, <1>2, <2>1 DEF Onward
  <2>3. at # 0 => at \in 1 .. Len(fn.code) /\ \A j \in 1 .. at - 1 : ~Todo(j)
    BY DEF CodeGenInv, GenInv, LaidInv, StopsAtFirstTodo
  <2>4. PICK n \in Nat : n = Pieces
    BY <1>1 DEF Emitting
  <2>5. q > Args /\ at # 0
    <3>1. CASE q < Pieces
      <4>1. ~(q <= Args)
        BY <1>8, <2>2, <3>1 DEF PieceFrom
      <4>2. at # 0
        BY <1>1, <1>2, <2>2, <2>4, <3>1, <4>1 DEF Emitting
      <4> QED  BY <1>2, <2>2, <2>4, <4>1, <4>2
    <3>2. CASE ~(q < Pieces)
      <4>1. at # 0 /\ q = n
        BY <1>2, <1>8, <2>2, <2>4, <3>2
      <4>2. n = (Args + at) + 1 /\ at \in 1 .. Len(fn.code)
        BY <1>1, <2>3, <2>4, <4>1 DEF Emitting
      <4> QED  BY <1>2, <4>1, <4>2
    <3> QED  BY <3>1, <3>2
  <2>6. p = Args
    <3>1. ASSUME p < Args PROVE FALSE
      <4>1. p + 1 \in p + 1 .. q - 1 /\ p + 1 \in 0 .. Args + Len(fn.code) /\ p + 1 <= Args
        BY <1>2, <2>2, <2>4, <2>5, <3>1
      <4>2. Len(PieceCode(p + 1)) > 0
        BY <1>1, <4>1, PieceSeq
      <4>3. Len(PieceCode(p + 1)) = 0
        BY <2>2, <4>1 DEF EmptyBetween
      <4> QED  BY <4>2, <4>3
    <3> QED  BY <1>2, <3>1
  <2>7. Reached' = 1
    <3>1. PICK i : i = 0
      OBVIOUS
    <3>2. /\ at \in 1 .. Len(fn.code) /\ i \in 0 .. at /\ p = Args + i
          /\ \A j \in 1 .. at - 1 : ~Todo(j)
      BY <1>2, <2>3, <2>5, <2>6, <3>1
    <3>3. q \in (Args + i) + 1 .. Pieces /\ EmptyBetween(Args + i, q)
      BY <2>2, <3>2
    <3>4. Reached' = IF i < at THEN i + 1 ELSE at
      BY <1>1, <2>2, <3>2, <3>3, NextPiece
    <3> QED  BY <3>1, <3>2, <3>4
  <2>8. ~HasRem' /\ Follows' /\ IrIp' = 1
    BY <1>3, <2>7 DEF HasRem, Follows, IrIp
  <2>9. ArgsAt(Args)'
    <3>1. After(p)'
      BY <1>1, <2>1 DEF PieceStepped
    <3> QED  BY <1>2, <1>3, <2>6, <3>1 DEF After, Filled
  <2>10. ASSUME NEW d \in Defs
         PROVE  IrVals'[d] = IF d <= Args THEN InputOf(d) ELSE Undef
    <3>1. IrVals'[d] = IF HasSlot(d) THEN SlotValue(d)' ELSE Undef
      BY <1>3, <2>8 DEF IrVals
    <3>2. CASE d <= Args
      <4>1. d \in 1 .. Args
        BY <1>2, <3>2 DEF Defs
      <4>2. HasSlot(d)
        BY <1>1, <4>1, ArgTypes DEF HasSlot
      <4>3. SlotValue(d)' = InputOf(d)
        BY <1>3, <2>9, <4>1 DEF ArgsAt
      <4> QED  BY <3>1, <3>2, <4>2, <4>3
    <3>3. CASE ~(d <= Args) /\ HasSlot(d)
      <4>1. PICK b, w : b = Frame0 + slot[d] /\ w = Width(d)
        OBVIOUS
      <4>2. b \in Int /\ w \in {1, 4, 8}
        BY <1>1, <3>3, <4>1, SlotCells
      <4>3. b \notin DOMAIN mem'
        <5>1. d > Args
          BY <1>2, <3>3 DEF Defs
        <5> QED  BY <1>3, <2>9, <3>3, <4>1, <5>1 DEF ArgsAt
      <4>4. Read(b, w)' = Undef
        BY <4>2, <4>3, NotThereThen
      <4>5. SlotValue(d)' = Undef
        BY <1>3, <4>1, <4>4 DEF SlotValue
      <4> QED  BY <3>1, <3>3, <4>5
    <3>4. CASE ~(d <= Args) /\ ~HasSlot(d)
      BY <3>1, <3>4
    <3> QED  BY <3>2, <3>3, <3>4
  <2>11. IrVals' = [d \in Defs |-> IF d <= Args THEN InputOf(d) ELSE Undef]
    <3>1. IrVals' = [d \in Defs |-> IrVals'[d]]
      BY <1>3 DEF IrVals
    <3> QED  BY <2>10, <3>1
  <2>12. IR!Enter
    BY <1>2, <1>3, <1>4, <1>5, <2>8, <2>11, MapEnter
  <2> QED  BY <2>12 DEF IR!Next
<1> QED  BY <1>7, <1>8

(* Every step of the machine is a step of the IR machine or none.          *)
LEMMA ExecuteImplements ==
    ASSUME MachineInv, Execute
    PROVE  [IR!Next]_(IR!vars)
<1>1. /\ phase = "run" /\ CodeGenInv /\ LaidInv /\ RunInv /\ FrameType
      /\ UNCHANGED <<fn, inputs>> /\ Args' = Args /\ Defs' = Defs /\ Fits' = Fits
      /\ \A d : InputOf(d)' = InputOf(d)
  BY Executed, Unmoved DEF MachineInv, CodeGenInv, FrameInv
<1>2. IrInputs' = IrInputs /\ HasRem' = HasRem
  BY <1>1 DEF IrInputs, HasRem
<1>3. CASE ~Fits \/ HasRem
  <2>1. ~Follows /\ ~Follows'
    BY <1>1, <1>2, <1>3 DEF Follows
  <2>2. IrIp' = IrIp /\ IrVals' = IrVals
    BY <1>1, <2>1 DEF IrIp, IrVals
  <2> QED  BY <1>1, <1>2, <2>2, MapStutter
<1>4. CASE Fits /\ ~HasRem
  <2>1. PICK piece, step : Laid(output, Pieces, piece, step) /\ Position(piece, step)
    BY <1>1, <1>4 DEF RunInv
  <2>2. PICK p, k, l : p = piece[mpc] /\ k = step[mpc] /\ l = Len(PieceCode(p))
    OBVIOUS
  <2>3. Moved(piece, step, p, k, l)
    BY <1>1, <1>4, <2>1, <2>2, Steps DEF RunInv
  <2>4. k \in 1 .. l /\ p \in 0 .. Args + Len(fn.code)
    BY <2>2, <2>3 DEF Moved, Standing
  <2>5. Args \in Nat /\ Len(fn.code) \in Nat
    BY <1>1, FunctionTypes DEF FrameType, Args
  <2>6. CASE p <= Args
    <3>1. p \in 0 .. Args
      BY <2>4, <2>5, <2>6
    <3> QED  BY <1>1, <1>4, <2>2, <2>3, <2>4, <3>1, PrologueImplements
  <2>7. CASE ~(p <= Args)
    <3>1. PICK i \in 1 .. Len(fn.code) : p = Args + i
      <4>1. p - Args \in 1 .. Len(fn.code) /\ p = Args + (p - Args)
        BY <2>4, <2>5, <2>7
      <4> QED  BY <4>1
    <3> QED  BY <1>1, <1>4, <2>2, <2>3, <2>4, <3>1, CodeImplements
  <2> QED  BY <2>6, <2>7
<1> QED  BY <1>3, <1>4

(* Before the code runs, and when it is about to, the IR machine is at its *)
(* start.                                                                  *)
LEMMA NotStarted ==
    FrameInv /\ LaidInv /\ Entered => ~Follows /\ IrIp = 0 /\ IrVals = [d \in Defs |-> Undef]
<1> SUFFICES ASSUME FrameInv, LaidInv, Entered
             PROVE  ~Follows /\ IrIp = 0 /\ IrVals = [d \in Defs |-> Undef]
  OBVIOUS
<1>1. Fits => Reached = 0
  <2>1. CASE phase # "run"
    BY <2>1 DEF Reached
  <2>2. CASE phase = "run" /\ Fits
    <3>1. PICK piece, step : Laid(output, Pieces, piece, step)
      BY <2>2 DEF LaidInv
    <3>2. Args \in Nat /\ Pieces > 0
      <4>1. Counted /\ (at # 0 => at \in 1 .. Len(fn.code))
        BY <2>2 DEF LaidInv
      <4>2. Args \in Nat
        BY FunctionTypes DEF FrameInv, FrameType, Args
      <4> QED  BY <2>2, <4>1, <4>2 DEF Pieces, Counted
    <3>3. DOMAIN output = 1 .. Len(output) /\ Len(output) \in Nat /\ Len(output) > 0
          /\ piece[1] = 0
      BY <3>1, <3>2, InDomain DEF Laid
    <3>4. 1 \in 1 .. Len(output)
      BY <3>3
    <3>5. output[1].from = PieceFrom(piece[1])
      BY <3>1, <3>4 DEF Laid, InPiece
    <3>6. mpc = 1
      BY DEF Entered
    <3> QED  BY <2>2, <3>2, <3>3, <3>4, <3>5, <3>6 DEF Reached, PieceFrom
  <2> QED  BY <2>1, <2>2
<1>2. ~Follows
  BY <1>1 DEF Follows
<1> QED  BY <1>2 DEF IrIp, IrVals

(* The same of the next state.                                             *)
LEMMA NotStartedThen ==
    (FrameInv /\ LaidInv /\ Entered => ~Follows /\ IrIp = 0 /\ IrVals = [d \in Defs |-> Undef])'
BY NotStarted, PTL

(* Every step of generation and of the machine is a step of the IR         *)
(* machine, or none.                                                       *)
LEMMA NextImplements == MachineInv /\ [Next]_vars => [IR!Next]_(IR!vars)
<1> SUFFICES ASSUME MachineInv, [Next]_vars PROVE [IR!Next]_(IR!vars)
  OBVIOUS
<1>1. CodeGenInv /\ FrameInv /\ LaidInv /\ RunInv
  BY DEF MachineInv, CodeGenInv
<1>2. CASE Layout \/ Generate
  <2>1. phase # "run" /\ UNCHANGED <<fn, inputs, machineVars>>
    <3>1. CASE Layout
      BY <3>1 DEF Layout, Allocate, AllocateNext, AllocateDone
    <3>2. CASE Generate
      BY <3>2 DEF Generate, SaveRegisters, StoreArg, ArgsStored, GenLabel, GenBr, GenBinary,
                  GenLoad, SkipRem, Throw, Translates, Translated, frameVars
    <3> QED  BY <1>2, <3>1, <3>2
  <2>2. Entered /\ Entered'
    BY <1>1, <2>1, StillEntered DEF RunInv
  <2>3. FrameInv' /\ LaidInv'
    BY <1>1, FrameStep, LaidStep
  <2>4. IrIp = 0 /\ IrVals = [d \in Defs |-> Undef]
    BY <1>1, <2>2, NotStarted
  <2>5. IrIp' = 0 /\ IrVals' = [d \in Defs' |-> Undef]
    BY <2>2, <2>3, NotStartedThen
  <2>6. Defs' = Defs /\ IrInputs' = IrInputs
    BY <2>1 DEF Defs, Args, IrInputs, InputOf, TypeOf, TypeIn
  <2> QED  BY <2>1, <2>4, <2>5, <2>6, MapStutter
<1>3. CASE Execute
  BY <1>3, ExecuteImplements
<1>4. CASE Stopped \/ UNCHANGED vars
  <2>1. UNCHANGED <<frameVars, genVars, inputs>> /\ UNCHANGED machineVars
    BY <1>4 DEF Stopped, vars
  <2>2. UNCHANGED <<fn, output, at, phase, inputs, mpc, mem>>
    BY <2>1 DEF frameVars, genVars, machineVars
  <2>3. /\ Args' = Args /\ Defs' = Defs /\ Fits' = Fits
        /\ \A d : HasSlot(d)' = HasSlot(d) /\ InputOf(d)' = InputOf(d)
    BY <2>1, Fixed
  <2>4. \A d : SlotValue(d)' = SlotValue(d)
    BY <2>1, <2>2, FixedValues
  <2>5. Reached' = Reached /\ HasRem' = HasRem
    BY <2>2 DEF Reached, HasRem
  <2>6. Follows' = Follows
    BY <2>3, <2>5 DEF Follows
  <2>7. IrIp' = IrIp /\ IrVals' = IrVals /\ IrInputs' = IrInputs
    BY <2>3, <2>4, <2>5, <2>6 DEF IrIp, IrVals, IrInputs
  <2> QED  BY <2>2, <2>7, MapStutter
<1> QED  BY <1>2, <1>3, <1>4 DEF Next

(* The emitted code implements the IR, for every function without a        *)
(* remainder whose frame fits: each IR instruction takes effect when its   *)
(* last machine instruction has run, and at no other time does a value     *)
(* change.                                                                 *)
THEOREM CodeDoesWhatTheIRSays == Spec => ImplementsIR
<1>1. Init => IR!Init
  <2> SUFFICES ASSUME Init PROVE IR!Init
    OBVIOUS
  <2>1. phase = "allocate"
    BY DEF Init, AllocateInit
  <2>2. ~Follows
    BY <2>1 DEF Follows, Reached
  <2> QED  BY <2>2, MapInit DEF IrIp, IrVals
<1>2. MachineInv /\ [Next]_vars => [IR!Next]_(IR!vars)
  BY NextImplements
<1>3. Spec => []MachineInv
  BY MachineInvariant
<1> QED  BY <1>1, <1>2, <1>3, PTL DEF Spec, ImplementsIR, IR!Spec

=============================================================================
