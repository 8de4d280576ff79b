--------------------------- MODULE DeadCodeProofs ---------------------------
(***************************************************************************)
(* What FuncInfo and DeadCode compute, for every module.                   *)
(***************************************************************************)
EXTENDS DeadCode, FiniteSetTheorems, SequenceTheorems, TLAPS

-----------------------------------------------------------------------------
(* Worklists.                                                              *)

(* Any order of a finite set has exactly its elements.                     *)
LEMMA OrderHasAll ==
    ASSUME NEW S, IsFiniteSet(S), NEW s \in SetToSeqs(S)
    PROVE  s \in Seq(S) /\ ToSet(s) = S
<1> DEFINE n == Cardinality(S)
<1>1. n \in Nat
  BY FS_CardinalityType
<1>2. s \in [1 .. n -> S] /\ \A i, j \in 1 .. n : i # j => s[i] # s[j]
  BY DEF SetToSeqs
<1>3. IsFiniteSet(1 .. n) /\ Cardinality(1 .. n) = n
  BY <1>1, FS_Interval
<1>4. s \in Injection(1 .. n, S)
  BY <1>2 DEF Injection, IsInjective
<1>5. s \in Surjection(1 .. n, S)
  BY <1>3, <1>4, FS_Injection
<1>6. s \in Seq(S)
  BY <1>1, <1>2
<1> QED  BY <1>2, <1>5, <1>6 DEF Surjection, ToSet

(* SetToSeq lists a finite set in one of its orders.                       *)
LEMMA SetToSeqOrders ==
    ASSUME NEW S, IsFiniteSet(S)
    PROVE  SetToSeq(S) \in SetToSeqs(S)
<1> DEFINE n == Cardinality(S)
<1>1. PICK b \in Bijection(1 .. n, S) : TRUE
  BY FS_CardinalityType DEF ExistsBijection
<1>2. b \in [1 .. n -> S] /\ IsInjective(b)
  BY DEF Bijection, Injection
<1>3. SetToSeq(S) \in [1 .. n -> S] /\ IsInjective(SetToSeq(S))
  BY <1>2 DEF SetToSeq
<1> QED  BY <1>3 DEF SetToSeqs, IsInjective

(* The elements of a list are those at its places.                         *)
LEMMA ElementIn ==
    ASSUME NEW S, NEW s \in Seq(S), NEW x
    PROVE  x \in ToSet(s) <=> \E i \in 1 .. Len(s) : s[i] = x
BY LenProperties DEF ToSet

(* The first element goes, others come.                                    *)
LEMMA Requeue ==
    ASSUME NEW S, NEW s \in Seq(S), s # << >>, NEW t \in Seq(S)
    PROVE  /\ Head(s) \in S
           /\ Tail(s) \in Seq(S) /\ Tail(s) \o t \in Seq(S)
           /\ ToSet(s) = {Head(s)} \cup ToSet(Tail(s))
           /\ ToSet(Tail(s) \o t) = ToSet(Tail(s)) \cup ToSet(t)
<1>1. /\ Head(s) \in S /\ Tail(s) \in Seq(S) /\ Len(Tail(s)) = Len(s) - 1
      /\ \A i \in 1 .. Len(Tail(s)) : Tail(s)[i] = s[i + 1]
      /\ Len(s) \in Nat \ {0} /\ Head(s) = s[1]
  BY HeadTailProperties, EmptySeq
<1>2. ToSet(s) = {Head(s)} \cup ToSet(Tail(s))
  <2>1. \A i \in 1 .. Len(s) : i = 1 \/ (i - 1 \in 1 .. Len(Tail(s)) /\ s[i] = Tail(s)[i - 1])
    BY <1>1
  <2>2. \A i \in 1 .. Len(Tail(s)) : i + 1 \in 1 .. Len(s)
    BY <1>1
  <2>3. ASSUME NEW x \in ToSet(s) PROVE x \in {Head(s)} \cup ToSet(Tail(s))
    <3>1. PICK i \in 1 .. Len(s) : x = s[i]
      BY <2>3, ElementIn
    <3> QED  BY <1>1, <2>1, <3>1, ElementIn
  <2>4. ASSUME NEW x \in ToSet(Tail(s)) PROVE x \in ToSet(s)
    <3>1. PICK i \in 1 .. Len(Tail(s)) : x = Tail(s)[i]
      BY <1>1, <2>4, ElementIn
    <3> QED  BY <1>1, <2>2, <3>1, ElementIn
  <2>5. Head(s) \in ToSet(s)
    BY <1>1, ElementIn
  <2> QED  BY <2>3, <2>4, <2>5
<1>3. ToSet(Tail(s) \o t) = ToSet(Tail(s)) \cup ToSet(t)
  <2>1. \A u : ToSet(u) = Range(u)
    BY DEF ToSet, Range
  <2>2. Range(Tail(s) \o t) = Range(Tail(s)) \cup Range(t)
    BY <1>1, RangeConcatenation
  <2> QED  BY <2>1, <2>2
<1> QED  BY <1>1, <1>2, <1>3, ConcatProperties

(* Append adds one element and leaves the others where they are.           *)
LEMMA AppendedToSet ==
    ASSUME NEW S, NEW s \in Seq(S), NEW x \in S
    PROVE  Append(s, x) \in Seq(S) /\ ToSet(Append(s, x)) = ToSet(s) \cup {x}
<1> DEFINE t == Append(s, x)
<1>1. /\ t \in Seq(S) /\ Len(t) = Len(s) + 1 /\ Len(s) \in Nat
      /\ \A i \in 1 .. Len(s) : t[i] = s[i]
      /\ t[Len(s) + 1] = x
  BY AppendProperties, LenProperties
<1> HIDE DEF t
<1>2. \A i \in 1 .. Len(t) : i \in 1 .. Len(s) \/ i = Len(s) + 1
  BY <1>1
<1>3. Len(s) + 1 \in 1 .. Len(t) /\ \A i \in 1 .. Len(s) : i \in 1 .. Len(t)
  BY <1>1
<1>4. \A y : y \in ToSet(t) <=> \E i \in 1 .. Len(t) : t[i] = y
  BY <1>1, ElementIn
<1>5. \A y : y \in ToSet(s) <=> \E i \in 1 .. Len(s) : s[i] = y
  BY ElementIn
<1>6. ASSUME NEW y PROVE y \in ToSet(t) <=> y \in ToSet(s) \cup {x}
  BY <1>1, <1>2, <1>3, <1>4, <1>5
<1> QED  BY <1>1, <1>6 DEF t

-----------------------------------------------------------------------------
(* Programs and their effects.                                             *)

AllPoints == UNION {Points(f) : f \in Functions}

(* A function that has no effect of its own: what trivial_mark looks for.  *)
Innocent(f) ==
    /\ f \notin prog.declared \cup prog.arrays \cup {Main}
    /\ \A p \in Points(f) : ~IsSideEffectInst(p)

(* Operands are instructions of the same function; stores, loads and calls *)
(* have the operands the passes take from them.                            *)
LEMMA Shape ==
    ASSUME prog \in Modules, NEW f \in Functions
    PROVE  /\ IsFiniteSet(Points(f)) /\ Points(f) \subseteq AllPoints
           /\ \A p \in Points(f) :
                 /\ p[1] = f /\ Defs(p) \subseteq Points(f)
                 /\ Instr(p).op = "store" => Len(Instr(p).args) = 2
                 /\ Instr(p).op = "load" => Len(Instr(p).args) = 1
                 /\ Instr(p).op = "call" => Instr(p).callee \in Functions
<1> DEFINE places == DOMAIN prog.code[f]
<1>1. IsModule(prog)
  BY ModulesAssumption
<1>2. Len(prog.code[f]) \in Nat /\ places = 1 .. Len(prog.code[f])
  BY <1>1 DEF IsModule
<1>3. \A k \in places :
        LET i == prog.code[f][k] IN
        /\ ToSet(i.args) \subseteq {Outside, 0} \cup places
        /\ i.op = "store" => Len(i.args) = 2
        /\ i.op = "load" => Len(i.args) = 1
        /\ i.op = "call" => i.callee \in Functions
  BY <1>1 DEF IsModule
<1>4. IsFiniteSet(Points(f))
  <2> DEFINE at == [k \in places |-> <<f, k>>]
  <2>1. IsFiniteSet(places)
    <3>1. \A n \in Nat : IsFiniteSet(1 .. n)
      BY FS_Interval
    <3> QED  BY <1>2, <3>1
  <2>2. at \in Surjection(places, Points(f))
    BY DEF Surjection, Points
  <2> QED  BY <2>1, <2>2, FS_Surjection
<1>5. ASSUME NEW p \in Points(f)
      PROVE  /\ p[1] = f /\ Defs(p) \subseteq Points(f)
             /\ Instr(p).op = "store" => Len(Instr(p).args) = 2
             /\ Instr(p).op = "load" => Len(Instr(p).args) = 1
             /\ Instr(p).op = "call" => Instr(p).callee \in Functions
  <2>1. PICK k \in places : p = <<f, k>>
    BY DEF Points
  <2>2. p[1] = f /\ Instr(p) = prog.code[f][k]
    BY <2>1 DEF Instr
  <2>3. Defs(p) \subseteq Points(f)
    BY <1>3, <2>1, <2>2 DEF Defs, Points
  <2> QED  BY <1>3, <2>2, <2>3
<1> QED  BY <1>4, <1>5 DEF AllPoints

(* A function whose own code has an effect has it when it is called.       *)
LEMMA EffectsOwn ==
    ASSUME prog \in Modules, NEW f \in Functions, ~Innocent(f)
    PROVE  Effects(f)
<1>1. f \in Reached(f)
  BY DEF Reached
<1>2. CASE f \in prog.declared \cup prog.arrays \cup {Main}
  BY <1>1, <1>2 DEF Effects, Writes
<1>3. CASE \E p \in Points(f) : IsSideEffectInst(p)
  <2>1. PICK p \in Points(f) : IsSideEffectInst(p)
    BY <1>3
  <2>2. p[1] = f
    BY Shape
  <2>3. CASE Instr(p).op = "store" /\ ~IsLocal(p[1], Instr(p).args[2])
    <3>1. Last(Instr(p).args) = Instr(p).args[2]
      BY <2>3, Shape DEF Last
    <3>2. Touches(f, {"store"})
      BY <2>2, <2>3, <3>1 DEF Touches
    <3> QED  BY <1>1, <3>2 DEF Effects, Writes
  <2>4. CASE Instr(p).op = "load" /\ ~IsLocal(p[1], Instr(p).args[1])
    <3>1. Last(Instr(p).args) = Instr(p).args[1]
      BY <2>4, Shape DEF Last
    <3>2. Touches(f, {"load"})
      BY <2>2, <2>4, <3>1 DEF Touches
    <3> QED  BY <1>1, <3>2 DEF Effects
  <2> QED  BY <2>1, <2>3, <2>4 DEF IsSideEffectInst
<1> QED  BY <1>2, <1>3 DEF Innocent

(* Effects are inherited by callers.                                       *)
LEMMA EffectsCalled ==
    ASSUME NEW f \in Functions, NEW g \in Callees(f), Effects(g)
    PROVE  Effects(f)
<1>1. Reached(g) \subseteq Reached(f)
  BY DEF Reached
<1> QED  BY <1>1 DEF Effects, Writes

(* Functions that have no effect of their own and call only each other     *)
(* have none.                                                              *)
LEMMA EffectsNone ==
    ASSUME prog \in Modules, NEW P \in SUBSET Functions,
           \A h \in P : Innocent(h) /\ Callees(h) \subseteq P,
           NEW f \in P
    PROVE  ~Effects(f)
<1>1. Reached(f) \subseteq P
  BY DEF Reached
<1>2. ASSUME NEW g \in Reached(f), NEW op \in {"store", "load"}
      PROVE  ~Touches(g, {op})
  <2>1. SUFFICES ASSUME NEW p \in Points(g), Instr(p).op = op,
                        ~IsLocal(g, Last(Instr(p).args))
                 PROVE  FALSE
    BY DEF Touches
  <2>2. g \in Functions /\ ~IsSideEffectInst(p)
    BY <1>1 DEF Innocent
  <2>3. /\ p[1] = g
        /\ op = "store" => Last(Instr(p).args) = Instr(p).args[2]
        /\ op = "load" => Last(Instr(p).args) = Instr(p).args[1]
    BY <2>1, <2>2, Shape DEF Last
  <2> QED  BY <2>1, <2>2, <2>3 DEF IsSideEffectInst
<1> QED  BY <1>1, <1>2 DEF Effects, Writes, Innocent

-----------------------------------------------------------------------------
(* The purity analysis.  Every function marked so far is impure only if it *)
(* has an effect, and pure only if it has none of its own; a pure function *)
(* that calls an impure one is about to be found out.                      *)

InfoType ==
    /\ prog \in Modules
    /\ fiPhase \in {"mark", "process", "done"}
    /\ worklist \in Seq(Functions)
    /\ isPure \in Seq(BOOLEAN)
    /\ fiPhase = "mark" => Len(isPure) < Main
    /\ fiPhase # "mark" => isPure \in [Functions -> BOOLEAN]
    /\ fiPhase = "done" => worklist = << >>

PureSoFar ==
    /\ \A f \in DOMAIN isPure : isPure[f] => Innocent(f)
    /\ \A f \in DOMAIN isPure : ~isPure[f] => Effects(f)
    /\ \A f \in ToSet(worklist) : f \in DOMAIN isPure /\ ~isPure[f]
    /\ fiPhase = "mark" =>
          \A f \in DOMAIN isPure : ~isPure[f] => f \in ToSet(worklist)

CallsPending ==
    fiPhase # "mark" =>
        \A p \in AllPoints :
            Instr(p).op = "call" /\ isPure[p[1]] /\ ~isPure[Instr(p).callee] =>
                Instr(p).callee \in ToSet(worklist)

InfoInv == InfoType /\ PureSoFar /\ CallsPending

(* Before the first function is marked there is nothing to keep.           *)
LEMMA InfoInit == FuncInfoInit => InfoInv
<1> SUFFICES ASSUME FuncInfoInit PROVE InfoInv
  OBVIOUS
<1>1. /\ prog \in Modules /\ isPure = << >> /\ worklist = << >> /\ fiPhase = "mark"
  BY DEF FuncInfoInit
<1>2. DOMAIN isPure = {} /\ ToSet(worklist) = {} /\ Len(isPure) = 0
  BY <1>1 DEF ToSet
<1> QED  BY <1>1, <1>2, MainAssumption DEF InfoInv, InfoType, PureSoFar, CallsPending

(* Purity and effects are those of the program, whatever is still alive.   *)
LEMMA SameProgram ==
    ASSUME prog' = prog
    PROVE  /\ AllPoints' = AllPoints
           /\ \A f : /\ Points(f)' = Points(f)
                     /\ Innocent(f)' = Innocent(f)
                     /\ Effects(f)' = Effects(f)
                     /\ Callees(f)' = Callees(f)
           /\ \A p : Instr(p)' = Instr(p) /\ Defs(p)' = Defs(p)
<1>1. /\ \A p : Instr(p)' = Instr(p)
      /\ \A f : Points(f)' = Points(f)
  BY DEF Instr, Points
<1>2. \A f, a : IsLocal(f, a)' = IsLocal(f, a)
  BY DEF IsLocal, FirstAddr, Instr
<1>3. \A f : Callees(f)' = Callees(f)
  BY <1>1 DEF Callees
<1>4. \A f : Reached(f)' = Reached(f)
  BY <1>3 DEF Reached
<1>5. \A f, ops : Touches(f, ops)' = Touches(f, ops)
  BY <1>1, <1>2 DEF Touches
<1>6. \A f : Effects(f)' = Effects(f)
  BY <1>4, <1>5 DEF Effects, Writes
<1>7. \A p : IsSideEffectInst(p)' = IsSideEffectInst(p)
  BY <1>1, <1>2 DEF IsSideEffectInst
<1>8. \A f : Innocent(f)' = Innocent(f)
  BY <1>1, <1>7 DEF Innocent
<1> QED  BY <1>1, <1>3, <1>6, <1>8 DEF AllPoints, Defs

(* trivial_mark of the next function keeps it.                             *)
LEMMA MarkStep ==
    ASSUME InfoInv, alive = AllPoints, TrivialMark
    PROVE  InfoInv'
<1> DEFINE f == Len(isPure) + 1
<1>1. /\ prog \in Modules /\ isPure \in Seq(BOOLEAN) /\ worklist \in Seq(Functions)
      /\ Len(isPure) \in Nat /\ Len(isPure) < Main /\ Main \in Nat
      /\ DOMAIN isPure = 1 .. Len(isPure)
  BY MainAssumption, LenProperties DEF InfoInv, InfoType, TrivialMark
<1>2. /\ f \in Functions /\ fiPhase = "mark" /\ prog' = prog
      /\ isPure' = Append(isPure, TriviallyPure(f))
      /\ worklist' = IF isPure'[f] THEN worklist ELSE Append(worklist, f)
      /\ fiPhase' = IF f = Main THEN "process" ELSE "mark"
  BY DEF TrivialMark
<1> HIDE DEF f
<1>3. TriviallyPure(f) = Innocent(f) /\ TriviallyPure(f) \in BOOLEAN
  <2>1. Live(f) = Points(f)
    <3>1. \A p \in AllPoints : p[1] = f => p \in Points(f)
      BY <1>1, Shape DEF AllPoints
    <3>2. \A p \in Points(f) : p[1] = f /\ p \in AllPoints
      BY <1>1, <1>2, Shape
    <3> QED  BY <3>1, <3>2 DEF Live
  <2> QED  BY <2>1 DEF TriviallyPure, Innocent
<1>4. /\ isPure' \in Seq(BOOLEAN) /\ Len(isPure') = Len(isPure) + 1
      /\ \A g \in DOMAIN isPure : isPure'[g] = isPure[g]
      /\ isPure'[f] = Innocent(f)
      /\ DOMAIN isPure' = DOMAIN isPure \cup {f} /\ f \notin DOMAIN isPure
  <2>1. /\ isPure' \in Seq(BOOLEAN) /\ Len(isPure') = Len(isPure) + 1
        /\ \A g \in 1 .. Len(isPure) : isPure'[g] = isPure[g]
        /\ isPure'[Len(isPure) + 1] = TriviallyPure(f)
    BY <1>1, <1>2, <1>3, AppendProperties
  <2>2. DOMAIN isPure' = 1 .. Len(isPure')
    BY <2>1, LenProperties
  <2> QED  BY <1>1, <1>3, <2>1, <2>2 DEF f
<1>5. /\ worklist' \in Seq(Functions)
      /\ ToSet(worklist') = IF Innocent(f) THEN ToSet(worklist) ELSE ToSet(worklist) \cup {f}
  <2>1. /\ Append(worklist, f) \in Seq(Functions)
        /\ ToSet(Append(worklist, f)) = ToSet(worklist) \cup {f}
    BY <1>1, <1>2, AppendedToSet
  <2> QED  BY <1>1, <1>2, <1>4, <2>1
<1>6. InfoType'
  <2>1. f = Main => isPure' \in [Functions -> BOOLEAN]
    BY <1>1, <1>4, LenProperties DEF Functions, f
  <2> QED  BY <1>1, <1>2, <1>4, <1>5, <2>1 DEF InfoType, f
<1>7. PureSoFar'
  <2>1. \A g \in DOMAIN isPure' :
          /\ isPure'[g] => Innocent(g)
          /\ ~isPure'[g] => Effects(g) /\ g \in ToSet(worklist')
    BY <1>1, <1>2, <1>4, <1>5, EffectsOwn DEF InfoInv, PureSoFar
  <2>2. \A g \in ToSet(worklist') : g \in DOMAIN isPure' /\ ~isPure'[g]
    BY <1>4, <1>5 DEF InfoInv, PureSoFar
  <2> QED  BY <1>2, <2>1, <2>2, SameProgram DEF PureSoFar
<1>8. CallsPending'
  <2>1. ASSUME fiPhase' # "mark", NEW p \in AllPoints,
               Instr(p).op = "call", ~isPure'[Instr(p).callee]
        PROVE  Instr(p).callee \in ToSet(worklist')
    <3>1. Instr(p).callee \in Functions
      BY <1>1, <2>1, Shape DEF AllPoints
    <3>2. DOMAIN isPure' = Functions
      BY <1>6, <2>1 DEF InfoType
    <3> QED  BY <1>1, <1>2, <1>4, <1>5, <2>1, <3>1, <3>2 DEF InfoInv, PureSoFar
  <2> QED  BY <1>2, <2>1, SameProgram DEF CallsPending
<1> QED  BY <1>6, <1>7, <1>8 DEF InfoInv

(* So does taking one impure function from the worklist to its callers.    *)
LEMMA ProcessStep ==
    ASSUME InfoInv, alive = AllPoints, Process
    PROVE  InfoInv'
<1> DEFINE now == Head(worklist)
           news == {f \in Callers(now) : isPure[f]}
<1>1. /\ prog \in Modules /\ worklist \in Seq(Functions) /\ worklist # << >>
      /\ fiPhase = "process" /\ fiPhase' = "process" /\ prog' = prog
      /\ isPure \in [Functions -> BOOLEAN] /\ DOMAIN isPure = Functions
      /\ isPure' = [f \in Functions |-> isPure[f] /\ f \notin news]
  BY DEF InfoInv, InfoType, Process
<1>2. PICK order \in SetToSeqs(news) : worklist' = Tail(worklist) \o order
  BY DEF Process
<1>3. /\ now \in Functions /\ now \in ToSet(worklist) /\ ~isPure[now] /\ Effects(now)
  BY <1>1, Requeue, EmptySeq DEF InfoInv, PureSoFar
<1>4. news \subseteq Functions /\ \A f \in news : isPure[f] /\ now \in Callees(f)
  <2>1. ASSUME NEW f \in news
        PROVE  f \in Functions /\ now \in Callees(f)
    <3>1. PICK p \in AllPoints : p[1] = f /\ Instr(p).op = "call" /\ Instr(p).callee = now
      BY <2>1 DEF Callers
    <3>2. PICK g \in Functions : p \in Points(g)
      BY <3>1 DEF AllPoints
    <3>3. g = f
      BY <1>1, <3>1, <3>2, Shape
    <3> QED  BY <3>1, <3>2, <3>3 DEF Callees
  <2> QED  BY <2>1
<1>5. \A p \in AllPoints :
        Instr(p).op = "call" /\ Instr(p).callee = now /\ isPure[p[1]] => p[1] \in news
  BY DEF Callers
<1> HIDE DEF news, now
<1>6. /\ worklist' \in Seq(Functions)
      /\ ToSet(worklist) = {now} \cup ToSet(Tail(worklist))
      /\ ToSet(worklist') = ToSet(Tail(worklist)) \cup news
  <2>1. IsFiniteSet(news)
    <3>1. IsFiniteSet(Functions)
      BY MainAssumption, FS_Interval DEF Functions
    <3> QED  BY <1>4, <3>1, FS_Subset
  <2>2. order \in Seq(news) /\ ToSet(order) = news
    BY <1>2, <2>1, OrderHasAll
  <2>3. order \in Seq(Functions)
    BY <1>4, <2>2, SeqMonotonic
  <2> QED  BY <1>1, <1>2, <2>2, <2>3, Requeue DEF now
<1>7. isPure' \in [Functions -> BOOLEAN] /\ isPure' \in Seq(BOOLEAN)
  <2>1. isPure' \in [Functions -> BOOLEAN]
    BY <1>1
  <2> QED  BY <2>1, MainAssumption DEF Functions
<1>8. \A f \in Functions : isPure'[f] <=> isPure[f] /\ f \notin news
  BY <1>1
<1>9. InfoType'
  BY <1>1, <1>6, <1>7 DEF InfoType
<1>10. PureSoFar'
  <2>1. DOMAIN isPure' = Functions
    BY <1>7
  <2>2. \A f \in Functions : ~isPure'[f] => Effects(f)
    BY <1>1, <1>3, <1>4, <1>8, EffectsCalled DEF InfoInv, PureSoFar
  <2>3. \A f \in Functions : isPure'[f] => Innocent(f)
    BY <1>1, <1>8 DEF InfoInv, PureSoFar
  <2>4. \A f \in ToSet(worklist') : f \in Functions /\ ~isPure'[f]
    BY <1>1, <1>4, <1>6, <1>8 DEF InfoInv, PureSoFar
  <2> QED  BY <1>1, <2>1, <2>2, <2>3, <2>4, SameProgram DEF PureSoFar
<1>11. CallsPending'
  <2>1. ASSUME NEW p \in AllPoints, Instr(p).op = "call",
               isPure'[p[1]], ~isPure'[Instr(p).callee]
        PROVE  Instr(p).callee \in ToSet(worklist')
    <3>1. Instr(p).callee \in Functions /\ p[1] \in Functions
      BY <1>1, <2>1, Shape DEF AllPoints
    <3>2. isPure[p[1]] /\ p[1] \notin news
      BY <1>8, <2>1, <3>1
    <3>3. CASE isPure[Instr(p).callee]
      BY <1>6, <1>8, <2>1, <3>1, <3>3
    <3>4. CASE ~isPure[Instr(p).callee]
      <4>1. Instr(p).callee \in ToSet(worklist)
        BY <1>1, <2>1, <3>2, <3>4 DEF InfoInv, CallsPending
      <4>2. Instr(p).callee # now
        BY <1>5, <2>1, <3>2
      <4> QED  BY <1>6, <4>1, <4>2
    <3> QED  BY <3>3, <3>4
  <2> QED  BY <1>1, <2>1, SameProgram DEF CallsPending
<1> QED  BY <1>9, <1>10, <1>11 DEF InfoInv

(* And so does the whole analysis.                                         *)
LEMMA InfoStep ==
    ASSUME InfoInv, fiPhase # "done" => alive = AllPoints, FuncInfoStep
    PROVE  InfoInv'
<1>1. CASE TrivialMark
  BY <1>1, MarkStep DEF TrivialMark
<1>2. CASE Process
  BY <1>2, ProcessStep DEF Process
<1>3. CASE FuncInfoDone
  <2>1. /\ fiPhase = "process" /\ worklist = << >> /\ fiPhase' = "done"
        /\ UNCHANGED <<prog, alive, isPure, worklist>>
    BY <1>3 DEF FuncInfoDone
  <2>2. InfoType'
    BY <2>1 DEF InfoInv, InfoType
  <2>3. PureSoFar' /\ CallsPending'
    BY <2>1, SameProgram DEF InfoInv, PureSoFar, CallsPending
  <2> QED  BY <2>2, <2>3 DEF InfoInv
<1> QED  BY <1>1, <1>2, <1>3 DEF FuncInfoStep

(* The analysis is exact: at the end the functions taken for pure only     *)
(* call each other.                                                        *)
LEMMA InfoExact == InfoInv => PurityExact
<1> SUFFICES ASSUME InfoInv, fiPhase = "done", NEW f \in Functions
             PROVE  isPure[f] <=> ~Effects(f)
  BY DEF PurityExact
<1> DEFINE pure == {g \in Functions : isPure[g]}
<1>1. /\ prog \in Modules /\ DOMAIN isPure = Functions /\ ToSet(worklist) = {}
  BY DEF InfoInv, InfoType, ToSet
<1>2. ASSUME NEW g \in pure PROVE Innocent(g) /\ Callees(g) \subseteq pure
  <2>1. Innocent(g)
    BY <1>1 DEF InfoInv, PureSoFar
  <2>2. ASSUME NEW h \in Callees(g) PROVE h \in pure
    <3>1. PICK p \in Points(g) : Instr(p).op = "call" /\ Instr(p).callee = h
      BY DEF Callees
    <3>2. p \in AllPoints /\ p[1] = g /\ h \in Functions
      BY <1>1, <3>1, Shape
    <3> QED  BY <1>1, <3>1, <3>2 DEF InfoInv, CallsPending
  <2> QED  BY <2>1, <2>2
<1>3. isPure[f] => ~Effects(f)
  <2> HIDE DEF pure
  <2>1. pure \in SUBSET Functions
    BY DEF pure
  <2>2. ASSUME f \in pure PROVE ~Effects(f)
    BY <1>1, <1>2, <2>1, <2>2, EffectsNone
  <2> QED  BY <2>2 DEF pure
<1>4. ~isPure[f] => Effects(f)
  BY <1>1 DEF InfoInv, PureSoFar
<1> QED  BY <1>3, <1>4

-----------------------------------------------------------------------------
(* The elimination.  All that is vital is alive, an operand of what is     *)
(* alive is alive, and in the functions the current round has been through *)
(* nothing else is.                                                        *)

DeadType ==
    /\ dcPhase \in {"info", "start", "mark", "sweep", "done"}
    /\ func \in Functions
    /\ alive \subseteq AllPoints
    /\ dcPhase = "info" => alive = AllPoints
    /\ dcPhase # "info" => fiPhase = "done"

Round ==
    /\ \A g \in Functions : g < func => Live(g) = Needed(g)
    /\ dcPhase = "done" => \A g \in Functions : Live(g) = Needed(g)

(* While a function is marked: what is marked is needed, and its operands  *)
(* are marked unless it waits in the worklist.                             *)
Marking ==
    dcPhase \in {"mark", "sweep"} =>
        /\ Vital(func) \subseteq marked /\ marked \subseteq Needed(func)
        /\ marked \subseteq Live(func)
        /\ work \in Seq(marked)
        /\ \A p \in marked : p \in ToSet(work) \/ Defs(p) \subseteq marked
        /\ dcPhase = "sweep" => work = << >>

DeadInv == DeadType /\ OperandsSurvive /\ EffectsSurvive /\ Round /\ Marking

IInv == InfoInv /\ DeadInv

(* The invariant holds before the first pass.                              *)
LEMMA InitInv == Init => IInv
<1> SUFFICES ASSUME Init PROVE IInv
  OBVIOUS
<1>1. InfoInv /\ prog \in Modules /\ alive = AllPoints
  BY InfoInit DEF Init, FuncInfoInit, AllPoints
<1>2. /\ dcPhase = "info" /\ func = 1
  BY DEF Init
<1>3. DeadType
  BY <1>1, <1>2, MainAssumption DEF DeadType, Functions
<1>4. OperandsSurvive
  BY <1>1, Shape DEF OperandsSurvive, AllPoints
<1>5. EffectsSurvive
  BY <1>1, Shape DEF EffectsSurvive, Vital
<1>6. Round
  BY <1>2 DEF Round, Functions
<1>7. Marking
  BY <1>2 DEF Marking
<1> QED  BY <1>1, <1>3, <1>4, <1>5, <1>6, <1>7 DEF IInv, DeadInv

(* What is vital and what is needed, also once other instructions are      *)
(* gone.                                                                   *)
LEMMA SameNeeds ==
    ASSUME prog' = prog, NEW f
    PROVE  Vital(f)' = Vital(f) /\ Needed(f)' = Needed(f)
<1>1. Vital(f)' = Vital(f)
  BY SameProgram DEF Vital
<1> QED  BY <1>1, SameProgram DEF Needed

(* Needed is closed under operands and the least such set.                 *)
LEMMA NeededLeast ==
    ASSUME prog \in Modules, NEW f \in Functions
    PROVE  /\ Needed(f) \subseteq Points(f)
           /\ Vital(f) \subseteq Needed(f)
           /\ \A p \in Needed(f) : Defs(p) \subseteq Needed(f)
           /\ \A S \in SUBSET Points(f) :
                 Vital(f) \subseteq S /\ (\A q \in S : Defs(q) \subseteq S)
                    => Needed(f) \subseteq S
<1>1. \A p \in Points(f) : Defs(p) \subseteq Points(f)
  BY Shape
<1> QED  BY <1>1 DEF Needed, Vital

(* What is alive in f is what is left of its instructions.                 *)
LEMMA LivePoints ==
    ASSUME prog \in Modules, alive \subseteq AllPoints, NEW f \in Functions
    PROVE  Live(f) = alive \cap Points(f)
<1>1. \A p \in AllPoints : p[1] = f => p \in Points(f)
  BY Shape DEF AllPoints
<1>2. \A p \in Points(f) : p[1] = f
  BY Shape
<1> QED  BY <1>1, <1>2 DEF Live

(* Marking leaves the rest as it was.                                      *)
LEMMA Undisturbed ==
    ASSUME IInv, UNCHANGED <<prog, alive, funcInfoVars, func>>,
           dcPhase # "info", dcPhase' \in {"start", "mark", "sweep"}
    PROVE  InfoInv' /\ DeadType' /\ OperandsSurvive' /\ EffectsSurvive' /\ Round'
<1>1. InfoInv'
  BY SameProgram DEF IInv, InfoInv, InfoType, PureSoFar, CallsPending, funcInfoVars
<1>2. DeadType'
  BY SameProgram DEF IInv, DeadInv, DeadType, funcInfoVars
<1>3. OperandsSurvive'
  BY SameProgram DEF IInv, DeadInv, OperandsSurvive
<1>4. EffectsSurvive'
  BY SameNeeds DEF IInv, DeadInv, EffectsSurvive
<1>5. Round'
  <2>1. \A f : Live(f)' = Live(f)
    BY DEF Live
  <2> QED  BY <2>1, SameNeeds DEF IInv, DeadInv, Round
<1> QED  BY <1>1, <1>2, <1>3, <1>4, <1>5

(* mark(Function) starts from exactly what is vital, since the analysis is *)
(* exact.                                                                  *)
LEMMA MarkFunctionStep ==
    ASSUME IInv, MarkFunction
    PROVE  IInv'
<1> DEFINE critical == {p \in Live(func) : IsCritical(p)}
<1>1. /\ dcPhase = "start" /\ dcPhase' = "mark" /\ marked' = critical
      /\ work' \in SetToSeqs(critical)
      /\ UNCHANGED <<prog, alive, funcInfoVars, func>>
  BY DEF MarkFunction
<1>2. /\ func \in Functions /\ prog \in Modules /\ PurityExact /\ fiPhase = "done"
  BY <1>1, InfoExact DEF IInv, InfoInv, InfoType, DeadInv, DeadType
<1>3. Live(func) \subseteq Points(func) /\ Points(func) \cap alive \subseteq Live(func)
  BY <1>2, LivePoints DEF IInv, DeadInv, DeadType
<1>4. critical = Vital(func)
  <2>1. \A p \in Points(func) : IsCritical(p) <=> p \in Vital(func)
    BY <1>2, Shape DEF IsCritical, Vital, PurityExact
  <2>2. Vital(func) \subseteq Live(func)
    BY <1>2, <1>3 DEF IInv, DeadInv, EffectsSurvive, Vital
  <2> QED  BY <1>3, <2>1, <2>2 DEF Vital
<1> HIDE DEF critical
<1>5. work' \in Seq(critical) /\ ToSet(work') = critical
  <2>1. IsFiniteSet(critical)
    BY <1>2, <1>4, Shape, FS_Subset DEF Vital
  <2> QED  BY <1>1, <2>1, OrderHasAll
<1>6. Marking'
  <2>1. critical \subseteq Needed(func) /\ critical \subseteq Live(func)
    BY <1>2, <1>4, NeededLeast DEF critical
  <2>2. Live(func)' = Live(func)
    BY <1>1 DEF Live
  <2> QED  BY <1>1, <1>4, <1>5, <2>1, <2>2, SameNeeds DEF Marking
<1>7. InfoInv' /\ DeadType' /\ OperandsSurvive' /\ EffectsSurvive' /\ Round'
  BY <1>1, Undisturbed
<1> QED  BY <1>6, <1>7 DEF IInv, DeadInv

(* mark(Instruction) adds operands of something needed.                    *)
LEMMA MarkInsStep ==
    ASSUME IInv, MarkIns
    PROVE  IInv'
<1> DEFINE p == Head(work)
           news == Defs(p) \ marked
<1>1. /\ dcPhase = "mark" /\ dcPhase' = "mark" /\ work # << >>
      /\ marked' = marked \cup news
      /\ work' = Tail(work) \o SetToSeq(news)
      /\ UNCHANGED <<prog, alive, funcInfoVars, func>>
  BY DEF MarkIns
<1>2. /\ func \in Functions /\ prog \in Modules /\ work \in Seq(marked)
      /\ Vital(func) \subseteq marked /\ marked \subseteq Needed(func)
      /\ marked \subseteq Live(func)
      /\ \A q \in marked : q \in ToSet(work) \/ Defs(q) \subseteq marked
  BY <1>1 DEF IInv, InfoInv, InfoType, DeadInv, DeadType, Marking
<1>3. p \in marked
  BY <1>1, <1>2, Requeue, EmptySeq
<1>4. Defs(p) \subseteq Needed(func) /\ Defs(p) \subseteq Points(func)
  BY <1>2, <1>3, NeededLeast
<1>5. Defs(p) \subseteq Live(func)
  <2>1. p \in alive
    BY <1>2, <1>3 DEF Live
  <2> QED  BY <1>2, <1>4, <2>1, Shape DEF IInv, DeadInv, OperandsSurvive, Live
<1>6. IsFiniteSet(news)
  BY <1>2, <1>4, Shape, FS_Subset
<1> HIDE DEF p, news
<1>7. /\ work' \in Seq(marked')
      /\ ToSet(work) = {p} \cup ToSet(Tail(work))
      /\ ToSet(work') = ToSet(Tail(work)) \cup news
  <2>1. SetToSeq(news) \in Seq(news) /\ ToSet(SetToSeq(news)) = news
    BY <1>6, OrderHasAll, SetToSeqOrders
  <2>2. SetToSeq(news) \in Seq(marked') /\ work \in Seq(marked')
    BY <1>1, <1>2, <2>1, SeqMonotonic
  <2> QED  BY <1>1, <2>1, <2>2, Requeue DEF p
<1>8. Marking'
  <2>1. marked' \subseteq Needed(func) /\ marked' \subseteq Live(func)
    BY <1>1, <1>2, <1>4, <1>5 DEF news
  <2>2. \A q \in marked' : q \in ToSet(work') \/ Defs(q) \subseteq marked'
    BY <1>1, <1>2, <1>7 DEF news
  <2>3. Live(func)' = Live(func)
    BY <1>1 DEF Live
  <2> QED  BY <1>1, <1>2, <1>7, <2>1, <2>2, <2>3, SameNeeds, SameProgram DEF Marking
<1>9. InfoInv' /\ DeadType' /\ OperandsSurvive' /\ EffectsSurvive' /\ Round'
  BY <1>1, Undisturbed
<1> QED  BY <1>8, <1>9 DEF IInv, DeadInv

(* The analysis runs on the module as it is, before anything is deleted.   *)
LEMMA RunFuncInfoStep ==
    ASSUME IInv, RunFuncInfo
    PROVE  IInv'
<1>1. /\ dcPhase = "info" /\ dcPhase' \in {"info", "start"} /\ func' = func
      /\ alive = AllPoints /\ func \in Functions
      /\ \A f \in Functions : f < func => Live(f) = Needed(f)
  BY DEF RunFuncInfo, IInv, DeadInv, DeadType, Round
<1>2. prog' = prog /\ alive' = alive
  BY DEF RunFuncInfo, FuncInfoStep, TrivialMark, Process, FuncInfoDone
<1>3. InfoInv'
  <2>1. CASE FuncInfoStep
    BY <1>1, <2>1, InfoStep DEF IInv
  <2>2. CASE UNCHANGED <<prog, alive, funcInfoVars>>
    BY <2>2, SameProgram DEF IInv, InfoInv, InfoType, PureSoFar, CallsPending, funcInfoVars
  <2> QED  BY <2>1, <2>2 DEF RunFuncInfo
<1>4. DeadType'
  <2>1. dcPhase' # "info" => fiPhase' = "done"
    BY <1>1 DEF RunFuncInfo, funcInfoVars
  <2> QED  BY <1>1, <1>2, <2>1, SameProgram DEF DeadType
<1>5. OperandsSurvive'
  BY <1>2, SameProgram DEF IInv, DeadInv, OperandsSurvive
<1>6. EffectsSurvive'
  BY <1>2, SameNeeds DEF IInv, DeadInv, EffectsSurvive
<1>7. Round'
  <2>1. \A f : Live(f)' = Live(f)
    BY <1>2 DEF Live
  <2> QED  BY <1>1, <1>2, <2>1, SameNeeds DEF Round
<1>8. Marking'
  BY <1>1 DEF Marking
<1> QED  BY <1>3, <1>4, <1>5, <1>6, <1>7, <1>8 DEF IInv, DeadInv

(* An empty worklist leaves the marked set closed under operands.          *)
LEMMA MarkDoneStep ==
    ASSUME IInv, MarkDone
    PROVE  IInv'
<1>1. /\ dcPhase = "mark" /\ dcPhase' = "sweep" /\ work = << >>
      /\ UNCHANGED <<prog, alive, funcInfoVars, func, marked, work>>
  BY DEF MarkDone
<1>2. Marking'
  <2>1. Live(func)' = Live(func)
    BY <1>1 DEF Live
  <2> QED  BY <1>1, <2>1, SameNeeds, SameProgram DEF IInv, DeadInv, Marking
<1>3. InfoInv' /\ DeadType' /\ OperandsSurvive' /\ EffectsSurvive' /\ Round'
  BY <1>1, Undisturbed
<1> QED  BY <1>2, <1>3 DEF IInv, DeadInv

(* Sweeping leaves exactly what is needed, and the next function may start.*)
LEMMA SweepStep ==
    ASSUME IInv, Sweep
    PROVE  IInv'
<1> DEFINE dead == Live(func) \ marked
<1>1. /\ dcPhase = "sweep" /\ dcPhase' \in {"start", "done"}
      /\ alive' = alive \ dead
      /\ UNCHANGED <<prog, funcInfoVars>>
  BY DEF Sweep
<1>2. /\ func \in Functions /\ prog \in Modules /\ alive \subseteq AllPoints
      /\ fiPhase = "done" /\ Main \in Nat \ {0}
  BY <1>1, MainAssumption DEF IInv, InfoInv, InfoType, DeadInv, DeadType
<1>3. /\ Vital(func) \subseteq marked /\ marked \subseteq Live(func)
      /\ \A p \in marked : Defs(p) \subseteq marked
  <2>1. \A p \in marked : p \in ToSet(work) \/ Defs(p) \subseteq marked
    BY <1>1 DEF IInv, DeadInv, Marking
  <2>2. ToSet(work) = {}
    BY <1>1 DEF IInv, DeadInv, Marking, ToSet
  <2> QED  BY <1>1, <2>1, <2>2 DEF IInv, DeadInv, Marking
<1>4. marked = Needed(func)
  <2>1. marked \in SUBSET Points(func)
    BY <1>2, <1>3, LivePoints
  <2>2. Needed(func) \subseteq marked
    BY <1>2, <1>3, <2>1, NeededLeast
  <2> QED  BY <1>1, <2>2 DEF IInv, DeadInv, Marking
<1>5. \A p \in alive : p \in dead <=> p[1] = func /\ p \notin marked
  BY DEF Live
<1> HIDE DEF dead
<1>6. \A g \in Functions : Live(g)' = IF g = func THEN Needed(g) ELSE Live(g)
  <2>1. \A p : p \in alive' <=> p \in alive /\ ~(p[1] = func /\ p \notin marked)
    BY <1>1, <1>5 DEF dead, Live
  <2>2. ASSUME NEW g \in Functions, g = func PROVE Live(g)' = marked
    BY <1>3, <2>1, <2>2 DEF Live
  <2>3. ASSUME NEW g \in Functions, g # func PROVE Live(g)' = Live(g)
    BY <2>1, <2>3 DEF Live
  <2> QED  BY <1>4, <2>2, <2>3
<1>7. InfoInv'
  BY <1>1, SameProgram DEF IInv, InfoInv, InfoType, PureSoFar, CallsPending, funcInfoVars
<1>8. DeadType'
  <2>1. func' \in Functions
    BY <1>2 DEF Sweep, Functions
  <2> QED  BY <1>1, <1>2, <2>1, SameProgram DEF DeadType, funcInfoVars
<1>9. OperandsSurvive'
  <2>1. ASSUME NEW p \in alive' PROVE Defs(p) \subseteq alive'
    <3>1. p \in alive /\ Defs(p) \subseteq alive
      BY <1>1 DEF IInv, DeadInv, OperandsSurvive
    <3>2. \A q \in Defs(p) : q[1] = p[1]
      BY DEF Defs
    <3>3. CASE p \in marked
      BY <1>1, <1>3, <1>5, <3>1, <3>3
    <3>4. CASE p \notin marked
      BY <1>1, <1>5, <3>1, <3>2, <3>4
    <3> QED  BY <3>3, <3>4
  <2> QED  BY <1>1, <2>1, SameProgram DEF OperandsSurvive
<1>10. EffectsSurvive'
  <2>1. ASSUME NEW f \in Functions, NEW p \in Vital(f) PROVE p \in alive'
    <3>1. p \in alive /\ p[1] = f
      BY <1>2, Shape DEF IInv, DeadInv, EffectsSurvive, Vital
    <3> QED  BY <1>1, <1>3, <1>5, <3>1
  <2> QED  BY <1>1, <2>1, SameNeeds DEF EffectsSurvive
<1>11. Round'
  <2>1. \A g \in Functions : g < func => Live(g) = Needed(g)
    BY DEF IInv, DeadInv, Round
  <2>2. \A g \in Functions : Needed(g)' = Needed(g)
    BY <1>1, SameNeeds
  <2>3. CASE func < Main
    <3>1. func' = func + 1 /\ dcPhase' = "start"
      BY <2>3 DEF Sweep
    <3>2. \A g \in Functions : g < func' => g < func \/ g = func
      BY <1>2, <3>1 DEF Functions
    <3> QED  BY <1>6, <2>1, <2>2, <3>1, <3>2 DEF Round
  <2>4. CASE ~(func < Main)
    <3>1. func' = 1 /\ (dcPhase' = "done" => dead = {})
      BY <2>4 DEF Sweep, dead
    <3>2. \A g \in Functions : ~(g < func') /\ (g < func \/ g = func)
      BY <1>2, <2>4, <3>1 DEF Functions
    <3> QED  BY <1>6, <2>1, <2>2, <3>1, <3>2 DEF Round
  <2> QED  BY <2>3, <2>4
<1>12. Marking'
  BY <1>1 DEF Marking
<1> QED  BY <1>7, <1>8, <1>9, <1>10, <1>11, <1>12 DEF IInv, DeadInv

(* Every step of the pass keeps the invariant.                             *)
LEMMA StepInv == IInv /\ [Next]_vars => IInv'
<1> SUFFICES ASSUME IInv, [Next]_vars PROVE IInv'
  OBVIOUS
<1>1. CASE RunFuncInfo
  BY <1>1, RunFuncInfoStep
<1>2. CASE MarkFunction
  BY <1>2, MarkFunctionStep
<1>3. CASE MarkIns
  BY <1>3, MarkInsStep
<1>4. CASE MarkDone
  BY <1>4, MarkDoneStep
<1>5. CASE Sweep
  BY <1>5, SweepStep
<1>6. CASE UNCHANGED vars
  <2>1. UNCHANGED <<prog, alive, funcInfoVars, dcPhase, func, marked, work>>
    BY <1>6 DEF vars, deadVars
  <2>2. InfoInv'
    BY <2>1, SameProgram DEF IInv, InfoInv, InfoType, PureSoFar, CallsPending, funcInfoVars
  <2>3. DeadType' /\ OperandsSurvive' /\ EffectsSurvive'
    BY <2>1, SameProgram, SameNeeds
      DEF IInv, DeadInv, DeadType, OperandsSurvive, EffectsSurvive, funcInfoVars
  <2>4. Round' /\ Marking'
    <3>1. \A f : Live(f)' = Live(f)
      BY <2>1 DEF Live
    <3> QED  BY <2>1, <3>1, SameProgram, SameNeeds DEF IInv, DeadInv, Round, Marking
  <2> QED  BY <2>2, <2>3, <2>4 DEF IInv, DeadInv
<1> QED  BY <1>1, <1>2, <1>3, <1>4, <1>5, <1>6 DEF Next, Step

(* It holds throughout every run of the pass.                              *)
THEOREM DeadCodeInvariant == Spec => []IInv
<1>1. Init => IInv
  BY InitInv
<1>2. IInv /\ [Next]_vars => IInv'
  BY StepInv
<1> QED  BY <1>1, <1>2, PTL DEF Spec

(* A function is taken for pure exactly when it has no effect.             *)
THEOREM PurityIsExact == Spec => []PurityExact
<1>1. IInv => PurityExact
  BY InfoExact DEF IInv
<1> QED  BY <1>1, DeadCodeInvariant, PTL

(* No impurity is forgotten while it spreads.                              *)
THEOREM ImpurityIsPending == Spec => []ImpurityPending
<1>1. IInv => ImpurityPending
  BY DEF IInv, DeadInv, DeadType, InfoInv, CallsPending, ImpurityPending
<1> QED  BY <1>1, DeadCodeInvariant, PTL

(* No instruction loses an operand, through any number of rounds.          *)
THEOREM NoOperandErased == Spec => []OperandsSurvive
<1>1. IInv => OperandsSurvive
  BY DEF IInv, DeadInv
<1> QED  BY <1>1, DeadCodeInvariant, PTL

(* No jump, return, store or call with an effect is erased.                *)
THEOREM NoEffectErased == Spec => []EffectsSurvive
<1>1. IInv => EffectsSurvive
  BY DEF IInv, DeadInv
<1> QED  BY <1>1, DeadCodeInvariant, PTL

(* What is left at the end is what those need, and nothing else.           *)
THEOREM OnlyNeededIsLeft == Spec => []OnlyNeededLeft
<1>1. IInv => OnlyNeededLeft
  BY DEF IInv, DeadInv, Round, OnlyNeededLeft
<1> QED  BY <1>1, DeadCodeInvariant, PTL

=============================================================================
