---------------------------- MODULE Mem2RegProofs ----------------------------
(***************************************************************************)
(* Renaming over the dominator tree is correct for every function: what    *)
(* the stacks hold, where phis get their operands, and SSA form.  The      *)
(* second part is about what the pass is for: the promoted function prints *)
(* what the original prints.                                               *)
(***************************************************************************)
EXTENDS Mem2Reg, SequenceTheorems, FiniteSetTheorems, TLAPS

DP == INSTANCE DominatorsProofs

-----------------------------------------------------------------------------
(* The analysis the pass starts from.                                      *)

LEMMA Assumed ==
    /\ BlockList \in Seq(DP!Blocks) /\ DP!IsInjective(BlockList)
    /\ Entry \in DP!Blocks
    /\ Null \notin DP!Blocks
    /\ \A g \in Graphs :
          /\ g \in [DP!Blocks -> Seq(DP!Blocks \ {Entry})]
          /\ \A b \in DP!Blocks : Len(g[b]) <= 2
  BY BlockListAssumption, EntryAssumption, NullAssumption, GraphsAssumption
  DEF DP!Blocks, Blocks, DP!IsInjective, IsInjective, ToSet, DP!ToSet

LEMMA SameBlocks == DP!Blocks = Blocks /\ D!Blocks = Blocks
  BY DEF DP!Blocks, D!Blocks, Blocks, ToSet, DP!ToSet, D!ToSet

LEMMA SamePaths ==
    /\ D!Reachable = DP!Reachable
    /\ \A b : DP!Targets(b) = ToSet(succ[b])
    /\ \A a, b : DP!Dom(a, b) <=> D!Dom(a, b)
    /\ \A a, b : DP!StrictDom(a, b) <=> D!StrictDom(a, b)
<1>1. \A c : D!ReachAvoiding(c) = DP!ReachAvoiding(c)
  BY DEF D!ReachAvoiding, DP!ReachAvoiding, D!ClosedBut, DP!ClosedBut, D!Blocks, DP!Blocks,
         DP!ToSet, D!ToSet
<1> QED  BY <1>1 DEF D!Reachable, DP!Reachable, DP!Targets, D!Dom, DP!Dom, D!StrictDom, DP!StrictDom,
         DP!ToSet, D!ToSet, ToSet

(* What the recursion over the tree needs of the paths, the tree and the   *)
(* frontiers.                                                              *)
PathFacts ==
    /\ D!Reachable \subseteq Blocks /\ Entry \in D!Reachable
    /\ \A b \in Blocks : ToSet(succ[b]) \subseteq Blocks \ {Entry}
    /\ \A b \in D!Reachable : ToSet(succ[b]) \subseteq D!Reachable
    /\ \A y \in D!Reachable, b \in Blocks : y \in ToSet(succ[b]) => b \in D!Reachable
    /\ \A a, b, c : D!Dom(a, b) /\ D!Dom(b, c) => D!Dom(a, c)
    /\ \A d, b, p : p \in D!Reachable /\ b \in ToSet(succ[p]) /\ D!StrictDom(d, b) => D!Dom(d, p)
    /\ \A b : D!Dom(Entry, b)
    /\ \A d, b : b \in D!Reachable /\ D!Dom(d, b) => d \in D!Reachable
    /\ \A a, b : b \in D!Reachable /\ D!StrictDom(a, b) => ~D!Dom(b, a)
    /\ \A a, b, c : c \in D!Reachable /\ D!Dom(a, c) /\ D!Dom(b, c) => D!Dom(a, b) \/ D!Dom(b, a)

TreeFacts ==
    /\ \A c \in D!Reachable \ {Entry} :
          /\ idom[c] \in D!Reachable /\ D!StrictDom(idom[c], c)
          /\ \A d : D!StrictDom(d, c) => D!Dom(d, idom[c])
    /\ \A b \in Blocks : tree[b] = {c \in D!Reachable \ {Entry} : idom[c] = b}
    /\ \A S : /\ Entry \in S
              /\ \A c \in D!Reachable \ {Entry} : idom[c] \in S => c \in S
              => D!Reachable \subseteq S

FrontierFacts ==
    /\ \A b \in Blocks : df[b] \subseteq Blocks
    /\ \A b \in Blocks, y \in D!Reachable :
          y \in df[b] => \E p \in D!Reachable : y \in ToSet(succ[p]) /\ D!Dom(b, p)
    /\ \A b, p, y \in D!Reachable :
          y \in ToSet(succ[p]) /\ D!Dom(b, p) /\ ~D!StrictDom(b, y) => y \in df[b]

LEMMA Analysed ==
    ASSUME DP!DomInv, pc = "done"
    PROVE  PathFacts /\ TreeFacts /\ FrontierFacts
<1>1. PathFacts
  BY Assumed, SameBlocks, SamePaths, DP!ResultOfPaths DEF PathFacts
<1>2. TreeFacts
  BY Assumed, SameBlocks, SamePaths, DP!ResultOfTree DEF TreeFacts
<1>3. FrontierFacts
  BY Assumed, SameBlocks, SamePaths, DP!ResultOfFrontiers DEF FrontierFacts
<1> QED  BY <1>1, <1>2, <1>3

LEMMA AnalysisInit ==
    ASSUME D!Init
    PROVE  DP!DomInv
<1>1. DP!Init
  BY DEF D!Init, DP!Init, D!InitFor, DP!InitFor, D!Blocks, DP!Blocks, D!ToSet, DP!ToSet
<1> QED  BY <1>1, Assumed, DP!DomInvInit

LEMMA SameCount == \A S : D!Cardinality(S) = DP!Cardinality(S)
  BY DEF D!Cardinality, DP!Cardinality

LEMMA SameStep ==
    ASSUME D!Step
    PROVE  DP!Step
<1>1. D!VisitSucc => DP!VisitSucc
  BY DEF D!VisitSucc, DP!VisitSucc, D!Last, DP!Last, D!idomVars, DP!idomVars,
         D!resultVars, DP!resultVars
<1>2. D!VisitDone => DP!VisitDone
  BY DEF D!VisitDone, DP!VisitDone, D!Last, DP!Last, D!Front, DP!Front, D!idomVars, DP!idomVars,
         D!resultVars, DP!resultVars
<1>3. D!StartIdom => DP!StartIdom
  BY SameBlocks DEF D!StartIdom, DP!StartIdom, D!Reverse, DP!Reverse, D!resultVars, DP!resultVars
<1>4. D!IdomBlock => DP!IdomBlock
  <2>1. D!Processed = DP!Processed /\ \A b : D!Preds(b) = DP!Preds(b)
    BY SameBlocks DEF D!Processed, DP!Processed, D!Preds, DP!Preds, D!PredEdges, DP!PredEdges
  <2>3. \A pres : D!NewIdom(pres) = DP!NewIdom(pres)
    BY DEF D!NewIdom, DP!NewIdom, D!Intersect, DP!Intersect, D!Processed, DP!Processed,
           D!Blocks, DP!Blocks, D!ToSet, DP!ToSet
  <2>4. \A S : D!SetToSeqs(S) = DP!SetToSeqs(S)
    BY SameCount DEF D!SetToSeqs, DP!SetToSeqs
  <2> QED  BY <2>1, <2>3, <2>4 DEF D!IdomBlock, DP!IdomBlock, D!idomVars, DP!idomVars,
         D!graphVars, DP!graphVars, D!resultVars, DP!resultVars
<1>5. D!IdomSweepDone => DP!IdomSweepDone
  BY DEF D!IdomSweepDone, DP!IdomSweepDone, D!graphVars, DP!graphVars, D!resultVars, DP!resultVars
<1>6. D!FrontierBlock => DP!FrontierBlock
  <2>1. \A b : D!Preds(b) = DP!Preds(b) /\ D!PredEdges(b) = DP!PredEdges(b)
    BY SameBlocks DEF D!Preds, DP!Preds, D!PredEdges, DP!PredEdges
  <2>2. \A a, b : D!Runners(a, b) = DP!Runners(a, b)
    BY SameBlocks DEF D!Runners, DP!Runners
  <2> QED  BY <2>1, <2>2, SameCount DEF D!FrontierBlock, DP!FrontierBlock, D!graphVars, DP!graphVars,
         D!idomVars, DP!idomVars
<1>7. D!CreateTree => DP!CreateTree
  BY SameBlocks DEF D!CreateTree, DP!CreateTree, D!graphVars, DP!graphVars, D!idomVars, DP!idomVars
<1> QED  BY <1>1, <1>2, <1>3, <1>4, <1>5, <1>6, <1>7 DEF D!Step, DP!Step

LEMMA AnalysisStep ==
    ASSUME DP!DomInv, D!Step \/ UNCHANGED domVars
    PROVE  DP!DomInv'
<1>1. CASE D!Step
  <2>1. DP!Step
    BY <1>1, SameStep
  <2> QED  BY <1>1, <2>1, Assumed, DP!DomInvStep DEF DP!Next
<1>2. CASE UNCHANGED domVars
  <2>1. UNCHANGED DP!vars
    BY <1>2 DEF domVars, DP!vars
  <2> QED  BY <2>1, Assumed, DP!DomInvStep
<1> QED  BY <1>1, <1>2

LEMMA PathsKept ==
    ASSUME UNCHANGED succ
    PROVE  /\ D!Reachable' = D!Reachable
           /\ \A a, b : (D!Dom(a, b))' <=> D!Dom(a, b)
           /\ \A a, b : (D!StrictDom(a, b))' <=> D!StrictDom(a, b)
<1>1. \A c : (D!ReachAvoiding(c))' = D!ReachAvoiding(c)
  BY DEF D!ReachAvoiding, D!ClosedBut
<1> QED  BY <1>1 DEF D!Reachable, D!Dom, D!StrictDom

LEMMA EntryDominates == \A b : D!Dom(Entry, b)
<1>1. D!ClosedBut(Entry, {}) /\ {} \in SUBSET D!Blocks
  BY DEF D!ClosedBut
<1> QED  BY <1>1 DEF D!Dom, D!ReachAvoiding

-----------------------------------------------------------------------------
(* What the function and the data of rename look like.                     *)

Val == {"const"} \X {0} \X Nat \cup {"inst"} \X Blocks \X Nat \cup {"phi"} \X Blocks \X Vars
Activations == [bb : Blocks, k : Nat, stage : {"enter", "body", "kids"}, kids : SUBSET Blocks]
Pairs == [val : Val, bb : Blocks]

Code ==
    /\ DOMAIN code = Blocks
    /\ \A b \in Blocks :
          /\ code[b] \in Seq(Instructions)
          /\ \A k \in DOMAIN code[b] :
                code[b][k].op \in {"add", "store", "print"} /\ code[b][k].arg = Prev =>
                    k > 1 /\ code[b][k - 1].op \in {"load", "add"}
    /\ DOMAIN opnd = {q \in Points : ~IsOp(q, "load")}

Typed ==
    /\ \A p \in DOMAIN opnd : opnd[p] \in Val
    /\ phis \subseteq Blocks \X Vars /\ DOMAIN phiArgs = phis
    /\ \A p \in phis : phiArgs[p] \in Seq(Pairs)
    /\ valStack \in [Vars -> Seq(Val)]
    /\ frames \in Seq(Activations)

Depth == Len(frames)

LEMMA InstructionsOf ==
    ASSUME Code, NEW b \in Blocks, NEW k \in DOMAIN code[b]
    PROVE  /\ k \in Nat \ {0} /\ <<b, k>> \in Points
           /\ code[b][k].op \in {"load", "store", "add", "print"}
           /\ code[b][k].op \in {"load", "store"} => code[b][k].var \in Vars
           /\ code[b][k].arg \in Operands
           /\ (code[b][k].op # "load") => <<b, k>> \in DOMAIN opnd
<1>1. code[b] \in Seq(Instructions)
  BY DEF Code
<1>2. Len(code[b]) \in Nat /\ DOMAIN code[b] = 1 .. Len(code[b])
  BY <1>1, LenProperties
<1>3. code[b][k] \in Instructions
  BY <1>1, <1>2, ElementOfSeq
<1>4. <<b, k>> \in Points
  BY DEF Points
<1>5. <<b, k>>[1] = b /\ <<b, k>>[2] = k
  OBVIOUS
<1>6. (code[b][k].op # "load") => <<b, k>> \in DOMAIN opnd
  BY <1>4, <1>5 DEF Code, IsOp, Instr
<1>7. /\ code[b][k].op \in {"load", "store", "add", "print"}
      /\ code[b][k].op \in {"load", "store"} => code[b][k].var \in Vars
      /\ code[b][k].arg \in Operands
  BY <1>3 DEF Instructions
<1> QED  BY <1>2, <1>4, <1>6, <1>7

LEMMA PointIs ==
    ASSUME Code, NEW p \in Points
    PROVE  p = <<p[1], p[2]>> /\ p[1] \in Blocks /\ p[2] \in DOMAIN code[p[1]]
  BY DEF Points, Code

LEMMA TopIs ==
    ASSUME Typed, frames # << >>
    PROVE  /\ Depth \in Nat \ {0} /\ Depth \in 1 .. Depth
           /\ Top = frames[Depth] /\ Top \in Activations
  BY EmptySeq, ElementOfSeq DEF Typed, Depth, Top, Last

LEMMA SetTopIs ==
    ASSUME Typed, frames # << >>, NEW f \in Activations, SetTop(f)
    PROVE  /\ frames' \in Seq(Activations) /\ Depth' = Depth /\ frames' # << >>
           /\ \A i \in 1 .. Depth : frames'[i] = IF i = Depth THEN f ELSE frames[i]
<1>1. frames \in Seq(Activations) /\ Depth \in 1 .. Len(frames)
  BY TopIs DEF Typed, Depth
<1>2. frames' = [frames EXCEPT ![Depth] = f]
  BY DEF SetTop, Depth
<1>3. /\ frames' \in Seq(Activations) /\ Len(frames') = Len(frames)
      /\ \A i \in 1 .. Len(frames) : frames'[i] = IF i = Depth THEN f ELSE frames[i]
  BY <1>1, <1>2, ExceptSeq
<1> QED  BY <1>3, TopIs, EmptySeq DEF Depth

LEMMA ReplaceUsesIs ==
    ASSUME Typed, NEW old, NEW new \in Val, ReplaceUses(old, new)
    PROVE  /\ DOMAIN opnd' = DOMAIN opnd /\ DOMAIN phiArgs' = DOMAIN phiArgs
           /\ \A p \in DOMAIN opnd :
                 opnd'[p] \in Val /\ opnd'[p] = IF opnd[p] = old THEN new ELSE opnd[p]
           /\ \A p \in phis :
                 /\ phiArgs'[p] \in Seq(Pairs) /\ Len(phiArgs'[p]) = Len(phiArgs[p])
                 /\ \A i \in 1 .. Len(phiArgs[p]) :
                       /\ phiArgs'[p][i].bb = phiArgs[p][i].bb
                       /\ phiArgs'[p][i].val =
                             IF phiArgs[p][i].val = old THEN new ELSE phiArgs[p][i].val
<1>1. /\ opnd' = [p \in DOMAIN opnd |-> IF opnd[p] = old THEN new ELSE opnd[p]]
      /\ phiArgs' = [p \in DOMAIN phiArgs |->
                       [i \in DOMAIN phiArgs[p] |->
                          IF phiArgs[p][i].val = old
                          THEN [phiArgs[p][i] EXCEPT !.val = new] ELSE phiArgs[p][i]]]
  BY DEF ReplaceUses
<1>2. ASSUME NEW p \in phis
      PROVE  /\ phiArgs'[p] \in Seq(Pairs) /\ Len(phiArgs'[p]) = Len(phiArgs[p])
             /\ \A i \in 1 .. Len(phiArgs[p]) :
                   /\ phiArgs'[p][i].bb = phiArgs[p][i].bb
                   /\ phiArgs'[p][i].val =
                         IF phiArgs[p][i].val = old THEN new ELSE phiArgs[p][i].val
  <2> DEFINE args == phiArgs[p]
             n == Len(args)
  <2>1. args \in Seq(Pairs) /\ n \in Nat /\ DOMAIN args = 1 .. n
    BY <1>2, LenProperties DEF Typed
  <2>2. phiArgs'[p] = [i \in 1 .. n |-> IF args[i].val = old
                                        THEN [args[i] EXCEPT !.val = new] ELSE args[i]]
    BY <1>1, <1>2, <2>1 DEF Typed
  <2>3. \A i \in 1 .. n : args[i] \in Pairs
    BY <2>1, ElementOfSeq
  <2>4. \A i \in 1 .. n : [args[i] EXCEPT !.val = new] = [val |-> new, bb |-> args[i].bb]
    BY <2>3 DEF Pairs
  <2>5. \A i \in 1 .. n : /\ phiArgs'[p][i] \in Pairs /\ phiArgs'[p][i].bb = args[i].bb
                          /\ phiArgs'[p][i].val = IF args[i].val = old THEN new ELSE args[i].val
    <3> HIDE DEF n, args
    <3> QED  BY <2>2, <2>3, <2>4 DEF Pairs
  <2>6. phiArgs'[p] \in [1 .. n -> Pairs]
    <3> HIDE DEF n, args
    <3> QED  BY <2>2, <2>5
  <2>7. phiArgs'[p] \in Seq(Pairs)
    BY <2>1, <2>6, SeqDef
  <2>8. DOMAIN phiArgs'[p] = 1 .. n /\ Len(phiArgs'[p]) \in Nat
        /\ DOMAIN phiArgs'[p] = 1 .. Len(phiArgs'[p])
    BY <2>6, <2>7, LenProperties
  <2>9. Len(phiArgs'[p]) = n
    <3> HIDE DEF n
    <3> QED  BY <2>1, <2>8
  <2> QED  BY <2>5, <2>7, <2>9
<1> QED  BY <1>1, <1>2 DEF Typed

(* One more definition on a stack, and what is left of it.                 *)
LEMMA PopIs ==
    ASSUME NEW S, NEW s \in Seq(S), NEW n \in Nat, n <= Len(s)
    PROVE  /\ Pop(s, n) \in Seq(S) /\ Len(Pop(s, n)) = Len(s) - n
           /\ \A i \in 1 .. Len(s) - n : Pop(s, n)[i] = s[i]
<1> DEFINE m == Len(s) - n
<1>1. Len(s) \in Nat /\ m \in Nat /\ m <= Len(s)
  BY LenProperties
<1> HIDE DEF m
<1>2. \A i \in 1 .. m : s[i] \in S /\ 1 + i - 1 = i
  BY <1>1, ElementOfSeq
<1>3. m - 1 + 1 = m /\ m \in Int /\ 1 \in Int /\ (~(1 <= m) => m = 0)
  BY <1>1
<1>4. /\ SubSeq(s, 1, m) \in Seq(S) /\ Len(SubSeq(s, 1, m)) = m
      /\ \A i \in 1 .. m : SubSeq(s, 1, m)[i] = s[i]
  BY <1>2, <1>3, SubSeqProperties
<1> QED  BY <1>4 DEF Pop, m

LEMMA FrontIs ==
    ASSUME Typed, frames # << >>
    PROVE  /\ Front(frames) \in Seq(Activations) /\ Len(Front(frames)) = Depth - 1
           /\ \A i \in 1 .. Depth - 1 : Front(frames)[i] = frames[i]
<1>1. frames \in Seq(Activations) /\ 1 \in Nat /\ 1 <= Len(frames)
  BY TopIs DEF Typed, Depth
<1> QED  BY <1>1, PopIs DEF Front, Pop, Depth

LEMMA FrameIs ==
    ASSUME PathFacts, TreeFacts, NEW b \in Blocks
    PROVE  /\ Frame(b) \in Activations /\ Frame(b).bb = b /\ Frame(b).k = 0
           /\ Frame(b).stage = "enter" /\ Frame(b).kids = tree[b]
<1>1. tree[b] \in SUBSET Blocks
  BY DEF PathFacts, TreeFacts
<1> QED  BY <1>1 DEF Frame, Activations

LEMMA CodeKept ==
    ASSUME Code, UNCHANGED code, DOMAIN opnd' = DOMAIN opnd
    PROVE  Code'
<1>1. Points' = Points /\ \A q, op : IsOp(q, op)' = IsOp(q, op)
  BY DEF Points, IsOp, Instr
<1> QED  BY <1>1 DEF Code

LEMMA TypedInit ==
    ASSUME Init
    PROVE  Code /\ Typed
<1>1. PICK prog \in Programs :
        /\ code = prog.code
        /\ opnd = [p \in {q \in Points : ~IsOp(q, "load")} |->
                     IF Instr(p).arg = Prev THEN Inst(p[1], p[2] - 1) ELSE Instr(p).arg]
        /\ phis = {} /\ phiArgs = [p \in {} |-> << >>]
        /\ valStack = [v \in Vars |-> << >>] /\ frames = << >>
  BY DEF Init
<1>2. Code
  BY <1>1, ProgramsAssumption DEF Code
<1>3. ASSUME NEW p \in DOMAIN opnd PROVE opnd[p] \in Val
  <2>1. p \in Points /\ opnd[p] = IF Instr(p).arg = Prev THEN Inst(p[1], p[2] - 1) ELSE Instr(p).arg
    BY <1>1
  <2>2. p[1] \in Blocks /\ p[2] \in Nat \ {0} /\ Instr(p).arg \in Operands
    BY <1>2, <2>1, PointIs, InstructionsOf DEF Instr
  <2>3. p[2] - 1 \in Nat
    BY <2>2
  <2> QED  BY <2>1, <2>2, <2>3 DEF Val, Inst, Operands
<1>4. /\ << >> \in Seq(Val) /\ << >> \in Seq(Activations)
  BY EmptySeq
<1> QED  BY <1>1, <1>2, <1>3, <1>4 DEF Typed

LEMMA TypedPhis ==
    ASSUME Code, Typed, PathFacts, TreeFacts, GeneratePhi
    PROVE  Code' /\ Typed'
<1>1. /\ phis' = UNION {{<<b, v>> : b \in PhiBlocks(v)} : v \in Vars}
      /\ phiArgs' = [p \in phis' |-> << >>] /\ frames' = <<Frame(Entry)>>
      /\ UNCHANGED <<code, opnd, valStack>>
  BY DEF GeneratePhi
<1>2. phis' \subseteq Blocks \X Vars
  BY <1>1 DEF PhiBlocks
<1>3. << >> \in Seq(Pairs)
  BY EmptySeq
<1>4. frames' \in Seq(Activations)
  <2>1. Frame(Entry) \in Activations
    BY EntryAssumption, FrameIs
  <2> QED  BY <1>1, <2>1
<1> QED  BY <1>1, <1>2, <1>3, <1>4, CodeKept DEF Typed

-----------------------------------------------------------------------------
(* The activations, and the definitions each has pushed.                   *)

(* How far an activation is: its place in the code and its children left.  *)
Progress(f) ==
    /\ f.bb \in D!Reachable
    /\ f.stage = "enter" => f.k = 0 /\ f.kids = tree[f.bb]
    /\ f.stage = "body" => f.k \in 1 .. Len(code[f.bb]) + 1 /\ f.kids = tree[f.bb]
    /\ f.stage = "kids" => f.k = Len(code[f.bb]) + 1 /\ f.kids \subseteq tree[f.bb]

(* The activations are the dominators of the block on top.                 *)
Chain ==
    /\ \A i \in 1 .. Depth :
          /\ Progress(frames[i])
          /\ i < Depth => frames[i].stage = "kids"
          /\ i = 1 => frames[i].bb = Entry
          /\ i > 1 => frames[i].bb # Entry /\ idom[frames[i].bb] = frames[i - 1].bb
          /\ \A j \in 1 .. Depth : j < i => D!StrictDom(frames[j].bb, frames[i].bb)
          /\ \A d : D!Dom(d, frames[i].bb) => \E j \in 1 .. i : frames[j].bb = d

(* The definitions of the first n activations.                             *)
Under(n, v) == UNION {PushedBy(frames[i], v) : i \in 1 .. n}

LEMMA FiniteUnion ==
    ASSUME NEW I, IsFiniteSet(I), NEW f, \A i \in I : IsFiniteSet(f[i])
    PROVE  IsFiniteSet(UNION {f[i] : i \in I})
<1> DEFINE g == [i \in I |-> f[i]]
           T == {f[i] : i \in I}
<1>1. g \in Surjection(I, T)
  BY DEF Surjection
<1>2. IsFiniteSet(T)
  BY <1>1, FS_Surjection
<1> QED  BY <1>2, FS_UNION

Places == UNION {{b} \X (0 .. Len(code[b])) : b \in Blocks}

LEMMA PlacesFinite ==
    ASSUME Code
    PROVE  IsFiniteSet(Places)
<1> DEFINE f == [b \in Blocks |-> {b} \X (0 .. Len(code[b]))]
<1>1. IsFiniteSet(Blocks)
  BY Assumed, SameBlocks, DP!BlocksAreFinite DEF IsFiniteSet, DP!IsFiniteSet
<1>2. ASSUME NEW b \in Blocks PROVE IsFiniteSet(f[b])
  <2>1. Len(code[b]) \in Int /\ 0 \in Int
    BY LenProperties DEF Code
  <2>2. IsFiniteSet(0 .. Len(code[b])) /\ IsFiniteSet({b})
    BY <2>1, FS_Interval, FS_Singleton
  <2> QED  BY <2>2, FS_Product
<1>3. IsFiniteSet(UNION {f[b] : b \in Blocks})
  <2> HIDE DEF f
  <2> QED  BY <1>1, <1>2, FiniteUnion
<1> QED  BY <1>3 DEF Places

LEMMA PushedIsPlaces ==
    ASSUME Code, NEW f \in Activations, NEW v
    PROVE  /\ PushedBy(f, v) \subseteq Places /\ IsFiniteSet(PushedBy(f, v))
           /\ \A q \in PushedBy(f, v) : q[1] = f.bb
<1>1. Len(code[f.bb]) \in Nat /\ DOMAIN code[f.bb] = 1 .. Len(code[f.bb]) /\ f.bb \in Blocks
  BY LenProperties DEF Code, Activations
<1>2. PushedBy(f, v) \subseteq {f.bb} \X (0 .. Len(code[f.bb]))
  BY <1>1 DEF PushedBy, StoresTo
<1>3. PushedBy(f, v) \in SUBSET Places
  BY <1>1, <1>2 DEF Places
<1> QED  BY <1>2, <1>3, PlacesFinite, FS_Subset

LEMMA UnderIs ==
    ASSUME Code, Typed, NEW v, NEW n \in 0 .. Depth
    PROVE  /\ Under(n, v) \subseteq Places /\ IsFiniteSet(Under(n, v))
           /\ Cardinality(Under(n, v)) \in Nat
           /\ \A q \in Under(n, v) : \E i \in 1 .. n : frames[i].bb = q[1]
           /\ n > 0 => Under(n, v) = Under(n - 1, v) \cup PushedBy(frames[n], v)
           /\ n = 0 => Under(n, v) = {}
<1>1. Depth \in Nat /\ \A i \in 1 .. n : i \in 1 .. Depth
  BY LenProperties DEF Depth, Typed
<1>2. \A i \in 1 .. n : frames[i] \in Activations
  BY <1>1, ElementOfSeq DEF Typed, Depth
<1>3. Under(n, v) \in SUBSET Places /\ \A q \in Under(n, v) : \E i \in 1 .. n : frames[i].bb = q[1]
  BY <1>2, PushedIsPlaces DEF Under
<1>4. IsFiniteSet(Under(n, v)) /\ Cardinality(Under(n, v)) \in Nat
  BY <1>3, PlacesFinite, FS_Subset, FS_CardinalityType
<1>5. ASSUME n > 0 PROVE Under(n, v) = Under(n - 1, v) \cup PushedBy(frames[n], v)
  <2>1. 1 .. n = 1 .. (n - 1) \cup {n}
    BY <1>1, <1>5
  <2> QED  BY <2>1 DEF Under
<1>6. ASSUME n = 0 PROVE Under(n, v) = {}
  <2>1. 1 .. n = {}
    BY <1>6
  <2> QED  BY <2>1 DEF Under
<1> QED  BY <1>3, <1>4, <1>5, <1>6

LEMMA UnderMonotonic ==
    ASSUME Code, Typed, NEW v, NEW n \in 0 .. Depth, NEW m \in 0 .. n
    PROVE  Under(m, v) \subseteq Under(n, v) /\ Cardinality(Under(m, v)) <= Cardinality(Under(n, v))
<1>1. \A i \in 1 .. m : i \in 1 .. n
  BY LenProperties DEF Depth, Typed
<1>2. Under(m, v) \in SUBSET Under(n, v)
  BY <1>1 DEF Under
<1> QED  BY <1>2, UnderIs, FS_Subset

(* The activations that stay as they are keep what they pushed.            *)
LEMMA UnderKept ==
    ASSUME UNCHANGED <<code, phis>>, NEW v, NEW n,
           \A i \in 1 .. n : /\ frames'[i].bb = frames[i].bb /\ frames'[i].k = frames[i].k
                             /\ frames'[i].stage = frames[i].stage
    PROVE  (Under(n, v))' = Under(n, v)
<1>1. \A i \in 1 .. n : (PushedBy(frames[i], v))' = PushedBy(frames[i], v)
  BY DEF PushedBy, PhisOf, StoresTo
<1> QED  BY <1>1 DEF Under

LEMMA BlocksDiffer ==
    ASSUME Typed, Chain, NEW i \in 1 .. Depth, NEW j \in 1 .. Depth, i # j
    PROVE  frames[i].bb # frames[j].bb
<1>1. Depth \in Nat
  BY LenProperties DEF Depth, Typed
<1> QED  BY <1>1 DEF Chain, D!StrictDom

(* What the activation on top pushed lies apart from the rest.             *)
LEMMA TopPushes ==
    ASSUME Code, Typed, Chain, frames # << >>, NEW v
    PROVE  /\ Under(Depth, v) = Under(Depth - 1, v) \cup PushedBy(Top, v)
           /\ \A q \in Under(Depth - 1, v) : q[1] # Top.bb
           /\ \A q \in PushedBy(Top, v) : q[1] = Top.bb
           /\ IsFiniteSet(Under(Depth - 1, v)) /\ IsFiniteSet(PushedBy(Top, v))
<1>1. Depth \in Nat \ {0} /\ Top = frames[Depth] /\ Top \in Activations
  BY TopIs
<1>2. Depth \in 0 .. Depth /\ Depth - 1 \in 0 .. Depth /\ Depth \in 1 .. Depth
      /\ \A i \in 1 .. Depth - 1 : i \in 1 .. Depth /\ i # Depth
  BY <1>1
<1>3. \A q \in Under(Depth - 1, v) : \E i \in 1 .. Depth - 1 : frames[i].bb = q[1]
  BY <1>2, UnderIs
<1> QED  BY <1>1, <1>2, <1>3, UnderIs, PushedIsPlaces, BlocksDiffer

(* The activation on top goes on in its block.                             *)
Moved(f) ==
    /\ frames # << >> /\ SetTop(f) /\ f \in Activations /\ f.bb = Top.bb /\ Progress(f)
    /\ UNCHANGED <<domVars, code, phis>>

LEMMA MoveIs ==
    ASSUME Code, Typed, Chain, NEW f, Moved(f)
    PROVE  /\ frames' \in Seq(Activations) /\ Depth' = Depth /\ frames' # << >> /\ Top' = f
           /\ frames'[Depth] = f /\ \A i \in 1 .. Depth - 1 : frames'[i] = frames[i]
           /\ \A i \in 1 .. Depth : frames'[i].bb = frames[i].bb
           /\ \A n \in 0 .. Depth - 1 : \A v : (Under(n, v))' = Under(n, v)
           /\ \A v : (Under(Depth, v))' = Under(Depth - 1, v) \cup (PushedBy(Top, v))'
<1> USE DEF Moved
<1>1. /\ frames' \in Seq(Activations) /\ Depth' = Depth /\ frames' # << >>
      /\ \A i \in 1 .. Depth : frames'[i] = IF i = Depth THEN f ELSE frames[i]
  BY SetTopIs
<1>2. Depth \in Nat \ {0} /\ Top = frames[Depth] /\ Depth \in 1 .. Depth
  BY TopIs
<1>3. frames'[Depth] = f /\ \A i \in 1 .. Depth - 1 : frames'[i] = frames[i]
  BY <1>1, <1>2
<1>4. Top' = f
  BY <1>1, <1>3 DEF Top, Last, Depth
<1>5. \A i \in 1 .. Depth : frames'[i].bb = frames[i].bb
  BY <1>1, <1>2
<1>6. ASSUME NEW n \in 0 .. Depth - 1, NEW v PROVE (Under(n, v))' = Under(n, v)
  <2>1. \A i \in 1 .. n : frames'[i] = frames[i]
    BY <1>2, <1>3
  <2> QED  BY <2>1, UnderKept
<1>7. ASSUME NEW v PROVE (Under(Depth, v))' = Under(Depth - 1, v) \cup (PushedBy(Top, v))'
  <2>1. PICK m \in 0 .. Depth - 1 : m = Depth - 1
    BY <1>2
  <2>2. (Under(m, v))' = Under(m, v)
    BY <1>6
  <2>3. 1 .. Depth = 1 .. m \cup {Depth}
    BY <1>2, <2>1
  <2>4. (Under(Depth, v))' = UNION {(PushedBy(frames[i], v))' : i \in 1 .. Depth}
    BY <1>1 DEF Under
  <2>5. (Under(m, v))' = UNION {(PushedBy(frames[i], v))' : i \in 1 .. m}
    BY DEF Under
  <2>6. \A i \in 1 .. Depth : i = Depth => (PushedBy(frames[i], v))' = (PushedBy(Top, v))'
    BY <1>1 DEF Top, Last, Depth
  <2>7. Depth \in 1 .. Depth
    BY <1>2
  <2>8. (Under(Depth, v))' = (Under(m, v))' \cup (PushedBy(Top, v))'
    BY <2>3, <2>4, <2>5, <2>6, <2>7
  <2> QED  BY <2>1, <2>2, <2>8
<1> QED  BY <1>1, <1>3, <1>4, <1>5, <1>6, <1>7

LEMMA ChainMove ==
    ASSUME Code, Typed, Chain, NEW f, Moved(f)
    PROVE  Chain'
<1>1. UNCHANGED <<succ, idom, tree, code>> /\ Progress(f)
  BY DEF domVars, Moved
<1>2. /\ Depth' = Depth /\ Depth \in Nat
      /\ frames'[Depth] = f /\ \A i \in 1 .. Depth - 1 : frames'[i] = frames[i]
      /\ \A i \in 1 .. Depth : frames'[i].bb = frames[i].bb
  BY MoveIs, TopIs DEF Moved
<1>3. /\ \A a, b : (D!Dom(a, b))' <=> D!Dom(a, b)
      /\ \A a, b : (D!StrictDom(a, b))' <=> D!StrictDom(a, b)
  BY <1>1, PathsKept
<1>4. ASSUME NEW i \in 1 .. Depth
      PROVE  /\ Progress(frames[i])'
             /\ i < Depth => frames'[i].stage = "kids"
             /\ i = 1 => frames'[i].bb = Entry
             /\ i > 1 => frames'[i].bb # Entry /\ idom'[frames'[i].bb] = frames'[i - 1].bb
             /\ \A j \in 1 .. Depth : j < i => (D!StrictDom(frames[j].bb, frames[i].bb))'
             /\ \A d : (D!Dom(d, frames[i].bb))' => \E j \in 1 .. i : frames'[j].bb = d
  <2>1. frames'[i] = IF i = Depth THEN f ELSE frames[i]
    BY <1>2
  <2>2. Progress(frames'[i])
    BY <1>1, <2>1 DEF Chain
  <2>3. Progress(frames[i])'
    BY <1>1, <2>2, PathsKept DEF Progress
  <2>4. i < Depth => frames'[i].stage = "kids"
    BY <1>2, <2>1 DEF Chain
  <2>5. /\ i = 1 => frames'[i].bb = Entry
        /\ i > 1 => frames'[i].bb # Entry /\ idom'[frames'[i].bb] = frames'[i - 1].bb
    <3>1. i > 1 => i - 1 \in 1 .. Depth
      BY <1>2
    <3> QED  BY <1>1, <1>2, <3>1 DEF Chain
  <2>6. ASSUME NEW j \in 1 .. Depth, j < i PROVE (D!StrictDom(frames[j].bb, frames[i].bb))'
    <3>1. D!StrictDom(frames[j].bb, frames[i].bb)
      BY <2>6 DEF Chain
    <3>2. D!StrictDom(frames'[j].bb, frames'[i].bb)
      BY <1>2, <3>1
    <3> QED  BY <1>1, <3>2, PathsKept DEF D!StrictDom, D!Dom, D!ReachAvoiding, D!ClosedBut
  <2>7. ASSUME NEW d, (D!Dom(d, frames[i].bb))' PROVE \E j \in 1 .. i : frames'[j].bb = d
    <3>1. D!Dom(d, frames'[i].bb)
      BY <1>1, <2>7 DEF D!Dom, D!ReachAvoiding, D!ClosedBut
    <3>2. PICK j \in 1 .. i : frames[j].bb = d
      BY <1>2, <3>1 DEF Chain
    <3>3. j \in 1 .. Depth
      BY <1>2
    <3> QED  BY <1>2, <3>2, <3>3
  <2> QED  BY <2>3, <2>4, <2>5, <2>6, <2>7
<1> QED  BY <1>2, <1>4 DEF Chain

-----------------------------------------------------------------------------
(* The stacks hold one value per definition pushed, and only values of     *)
(* blocks that dominate the activation that may read them.                 *)
StackOf(v) ==
    /\ Len(valStack[v]) = Cardinality(Under(Depth, v))
    /\ \A i \in 1 .. Depth, m \in 1 .. Len(valStack[v]) :
          m <= Cardinality(Under(i, v)) => D!Dom(DefBlock(valStack[v][m]), frames[i].bb)
    /\ v \notin keys => valStack[v] = << >>

Stacks == \A v \in Vars : StackOf(v)

LEMMA StackIs ==
    ASSUME Code, Typed, Stacks, NEW v \in Vars
    PROVE  /\ valStack[v] \in Seq(Val) /\ Len(valStack[v]) \in Nat
           /\ \A m \in 1 .. Len(valStack[v]) : valStack[v][m] \in Val
           /\ valStack[v] # << >> => /\ Len(valStack[v]) \in 1 .. Len(valStack[v])
                                     /\ Last(valStack[v]) = valStack[v][Len(valStack[v])]
                                     /\ Last(valStack[v]) \in Val
           /\ valStack[v] = << >> <=> Under(Depth, v) = {}
<1>1. valStack[v] \in Seq(Val) /\ Depth \in 0 .. Depth
  BY LenProperties DEF Typed, Depth
<1>2. /\ Len(valStack[v]) \in Nat
      /\ \A m \in 1 .. Len(valStack[v]) : valStack[v][m] \in Val
  BY <1>1, LenProperties, ElementOfSeq
<1>3. valStack[v] = << >> <=> Len(valStack[v]) = 0
  BY <1>1, EmptySeq
<1>4. Len(valStack[v]) = 0 <=> Under(Depth, v) = {}
  BY <1>1, UnderIs, FS_EmptySet DEF Stacks, StackOf
<1>5. ASSUME valStack[v] # << >>
      PROVE  /\ Len(valStack[v]) \in 1 .. Len(valStack[v])
             /\ Last(valStack[v]) = valStack[v][Len(valStack[v])]
  BY <1>2, <1>3, <1>5 DEF Last
<1> QED  BY <1>1, <1>2, <1>3, <1>4, <1>5

(* What an activation reads on a stack dominates its block.                *)
LEMMA TopOfStack ==
    ASSUME Code, Typed, Stacks, frames # << >>, NEW v \in Vars, valStack[v] # << >>
    PROVE  D!Dom(DefBlock(Last(valStack[v])), Top.bb)
<1>1. Depth \in 1 .. Depth /\ Top = frames[Depth]
  BY TopIs
<1>2. Len(valStack[v]) \in 1 .. Len(valStack[v]) /\ Last(valStack[v]) = valStack[v][Len(valStack[v])]
  BY StackIs
<1>3. Len(valStack[v]) <= Cardinality(Under(Depth, v))
  BY <1>2 DEF Stacks, StackOf
<1> QED  BY <1>1, <1>2, <1>3 DEF Stacks, StackOf

LEMMA StackKept ==
    ASSUME Code, Typed, Chain, NEW f, Moved(f), NEW v \in Vars, StackOf(v),
           valStack'[v] = valStack[v], keys \subseteq keys',
           (Under(Depth, v))' = Under(Depth, v)
    PROVE  StackOf(v)'
<1>1. /\ Depth' = Depth /\ \A i \in 1 .. Depth : frames'[i].bb = frames[i].bb
      /\ \A n \in 0 .. Depth - 1 : (Under(n, v))' = Under(n, v)
  BY MoveIs
<1>2. Depth \in Nat \ {0}
  BY TopIs DEF Moved
<1>3. ASSUME NEW i \in 1 .. Depth PROVE (Under(i, v))' = Under(i, v)
  <2>1. i = Depth => (Under(i, v))' = (Under(Depth, v))'
    BY <1>1 DEF Under
  <2>2. i # Depth => i \in 0 .. Depth - 1
    BY <1>2
  <2> QED  BY <1>1, <2>1, <2>2
<1>4. ASSUME NEW i \in 1 .. Depth, NEW m \in 1 .. Len(valStack[v]), m <= (Cardinality(Under(i, v)))'
      PROVE  (D!Dom(DefBlock(valStack[v][m]), frames[i].bb))'
  <2>1. D!Dom(DefBlock(valStack[v][m]), frames[i].bb)
    BY <1>3, <1>4 DEF StackOf
  <2>2. UNCHANGED succ
    BY DEF Moved, domVars
  <2> QED  BY <1>1, <2>1, <2>2 DEF D!Dom, D!ReachAvoiding, D!ClosedBut, DefBlock
<1> QED  BY <1>1, <1>4 DEF StackOf

LEMMA StackPush ==
    ASSUME Code, Typed, Chain, NEW f, Moved(f), NEW v \in Vars, StackOf(v),
           NEW x \in Val, valStack'[v] = Append(valStack[v], x), v \in keys',
           D!Dom(DefBlock(x), Top.bb),
           NEW q, q \notin Under(Depth, v), (Under(Depth, v))' = Under(Depth, v) \cup {q}
    PROVE  StackOf(v)'
<1> DEFINE n == Len(valStack[v])
<1>1. /\ Depth' = Depth /\ \A i \in 1 .. Depth : frames'[i].bb = frames[i].bb
      /\ \A j \in 0 .. Depth - 1 : (Under(j, v))' = Under(j, v)
  BY MoveIs
<1>2. Depth \in Nat \ {0} /\ Top = frames[Depth]
  BY TopIs DEF Moved
<1>3. valStack[v] \in Seq(Val) /\ n \in Nat
  BY LenProperties DEF Typed
<1>4. /\ Len(valStack'[v]) = n + 1 /\ valStack'[v][n + 1] = x
      /\ \A i \in 1 .. n : valStack'[v][i] = valStack[v][i]
  BY <1>3, AppendProperties
<1>5. (Cardinality(Under(Depth, v)))' = n + 1
  <2>1. Depth \in 0 .. Depth
    BY <1>2
  <2>2. IsFiniteSet(Under(Depth, v))
    BY <2>1, UnderIs
  <2> QED  BY <2>2, FS_AddElement DEF StackOf
<1>6. UNCHANGED succ
  BY DEF Moved, domVars
<1>7. ASSUME NEW i \in 1 .. Depth, NEW m \in 1 .. n + 1, m <= (Cardinality(Under(i, v)))'
      PROVE  (D!Dom(DefBlock(valStack[v][m]), frames[i].bb))'
  <2>1. D!Dom(DefBlock(valStack'[v][m]), frames'[i].bb)
    <3>1. CASE m = n + 1
      <4>1. CASE i = Depth
        BY <1>1, <1>2, <1>4, <3>1, <4>1
      <4>2. CASE i # Depth
        <5>1. i \in 0 .. Depth /\ i \in 0 .. Depth - 1 /\ Depth \in 0 .. Depth
          BY <1>2, <4>2
        <5>2. m <= Cardinality(Under(i, v)) /\ Cardinality(Under(i, v)) <= n
              /\ Cardinality(Under(i, v)) \in Nat
          BY <1>1, <1>7, <5>1, UnderMonotonic, UnderIs DEF StackOf
        <5> QED  BY <1>3, <3>1, <5>2
      <4> QED  BY <4>1, <4>2
    <3>2. CASE m # n + 1
      <4>1. m \in 1 .. n
        BY <1>3, <3>2
      <4>2. m <= Cardinality(Under(i, v))
        <5>1. CASE i = Depth
          BY <4>1, <5>1 DEF StackOf
        <5>2. CASE i # Depth
          <6>1. i \in 0 .. Depth - 1
            BY <1>2, <5>2
          <6> QED  BY <1>1, <1>7, <6>1
        <5> QED  BY <5>1, <5>2
      <4>3. D!Dom(DefBlock(valStack[v][m]), frames[i].bb)
        BY <4>1, <4>2 DEF StackOf
      <4> QED  BY <1>1, <1>4, <4>1, <4>3
    <3> QED  BY <3>1, <3>2
  <2> QED  BY <1>1, <1>6, <2>1 DEF D!Dom, D!ReachAvoiding, D!ClosedBut, DefBlock
<1> QED  BY <1>1, <1>4, <1>5, <1>7 DEF StackOf

-----------------------------------------------------------------------------
(* What each action of rename does to the activation on top.               *)

LEMMA TopPlace ==
    ASSUME Code, Typed, Chain, frames # << >>
    PROVE  /\ Top \in Activations /\ Top.bb \in Blocks /\ Progress(Top)
           /\ Len(code[Top.bb]) \in Nat /\ DOMAIN code[Top.bb] = 1 .. Len(code[Top.bb])
           /\ \A v : StoresTo(Top.bb, v) \subseteq 1 .. Len(code[Top.bb])
<1>1. Top \in Activations /\ Top.bb \in Blocks /\ Progress(Top)
  BY TopIs DEF Chain, Activations
<1>2. Len(code[Top.bb]) \in Nat /\ DOMAIN code[Top.bb] = 1 .. Len(code[Top.bb])
  BY <1>1, LenProperties DEF Code
<1> QED  BY <1>1, <1>2 DEF StoresTo

LEMMA PushPhisMoves ==
    ASSUME Code, Typed, Chain, PushPhis
    PROVE  /\ Moved([Top EXCEPT !.stage = "body", !.k = 1])
           /\ \A v : (PushedBy(Top, v))' = PushedBy(Top, v) \cup {x \in {<<Top.bb, 0>>} : v \in PhisOf(Top.bb)}
           /\ \A v : PushedBy(Top, v) = {}
<1> DEFINE f == [Top EXCEPT !.stage = "body", !.k = 1]
<1>1. /\ frames # << >> /\ Top.stage = "enter" /\ SetTop(f)
      /\ UNCHANGED <<domVars, code, phis>>
  BY DEF PushPhis, Active, irVars
<1>2. /\ Top \in Activations /\ Progress(Top) /\ Len(code[Top.bb]) \in Nat
      /\ \A v : StoresTo(Top.bb, v) \subseteq 1 .. Len(code[Top.bb])
  BY <1>1, TopPlace
<1>3. /\ f \in Activations /\ f.bb = Top.bb /\ f.k = 1 /\ f.stage = "body" /\ f.kids = Top.kids
      /\ Top.k = 0
  BY <1>1, <1>2 DEF Activations, Progress
<1> HIDE DEF f
<1>4. Progress(f)
  BY <1>1, <1>2, <1>3 DEF Progress
<1>5. Moved(f)
  BY <1>1, <1>3, <1>4 DEF Moved
<1>6. Top' = f
  BY <1>5, MoveIs
<1>7. ASSUME NEW v
      PROVE  /\ PushedBy(Top, v) = {}
             /\ (PushedBy(Top, v))' = {x \in {<<Top.bb, 0>>} : v \in PhisOf(Top.bb)}
  <2>1. {k \in StoresTo(Top.bb, v) : k < 0} = {} /\ {k \in StoresTo(Top.bb, v) : k < 1} = {}
    BY <1>2
  <2>2. PushedBy(Top, v) = {}
    BY <1>1, <1>3, <2>1 DEF PushedBy
  <2>3. (PushedBy(Top, v))' = {Top.bb} \X (IF v \in PhisOf(Top.bb) THEN {0} ELSE {})
    BY <1>1, <1>3, <1>6, <2>1 DEF PushedBy, PhisOf, StoresTo
  <2> QED  BY <2>2, <2>3
<1> QED  BY <1>5, <1>7 DEF f

LEMMA InstrMoves ==
    ASSUME Code, Typed, Chain, NEW op, AtInstr(op), SetTop([Top EXCEPT !.k = @ + 1]),
           UNCHANGED <<domVars, code, phis>>
    PROVE  /\ Moved([Top EXCEPT !.k = @ + 1]) /\ Top.stage = "body"
           /\ Top.bb \in Blocks /\ Top.k \in DOMAIN code[Top.bb] /\ code[Top.bb][Top.k].op = op
           /\ \A v : /\ (PushedBy(Top, v))' = PushedBy(Top, v) \cup ({Top.bb} \X ({Top.k} \cap StoresTo(Top.bb, v)))
                     /\ <<Top.bb, Top.k>> \notin PushedBy(Top, v)
<1> DEFINE f == [Top EXCEPT !.k = @ + 1]
<1>1. /\ frames # << >> /\ Top.stage = "body" /\ Top.k \in DOMAIN code[Top.bb]
      /\ code[Top.bb][Top.k].op = op
  BY DEF AtInstr, Active, IsOp, Instr
<1>2. /\ Top \in Activations /\ Top.bb \in Blocks /\ Progress(Top) /\ Len(code[Top.bb]) \in Nat
      /\ DOMAIN code[Top.bb] = 1 .. Len(code[Top.bb])
      /\ \A v : StoresTo(Top.bb, v) \subseteq 1 .. Len(code[Top.bb])
  BY <1>1, TopPlace
<1>3. /\ f \in Activations /\ f.bb = Top.bb /\ f.k = Top.k + 1 /\ f.stage = "body" /\ f.kids = Top.kids
      /\ Top.k \in Nat \ {0} /\ f.k \in 1 .. Len(code[Top.bb]) + 1
  BY <1>1, <1>2 DEF Activations, Progress
<1>4. SetTop(f)
  OBVIOUS
<1> HIDE DEF f
<1>5. Progress(f)
  BY <1>1, <1>2, <1>3 DEF Progress
<1>6. Moved(f)
  BY <1>1, <1>3, <1>4, <1>5 DEF Moved
<1>7. Top' = f
  BY <1>6, MoveIs
<1>8. ASSUME NEW v
      PROVE  /\ (PushedBy(Top, v))' = PushedBy(Top, v) \cup ({Top.bb} \X ({Top.k} \cap StoresTo(Top.bb, v)))
             /\ <<Top.bb, Top.k>> \notin PushedBy(Top, v)
  <2>1. {k \in StoresTo(Top.bb, v) : k < Top.k + 1} =
        {k \in StoresTo(Top.bb, v) : k < Top.k} \cup ({Top.k} \cap StoresTo(Top.bb, v))
    BY <1>2, <1>3
  <2>2. (PushedBy(Top, v))' =
          {Top.bb} \X ((IF v \in PhisOf(Top.bb) THEN {0} ELSE {}) \cup {k \in StoresTo(Top.bb, v) : k < Top.k + 1})
    BY <1>3, <1>7 DEF PushedBy, PhisOf, StoresTo
  <2>3. PushedBy(Top, v) =
          {Top.bb} \X ((IF v \in PhisOf(Top.bb) THEN {0} ELSE {}) \cup {k \in StoresTo(Top.bb, v) : k < Top.k})
    BY <1>1 DEF PushedBy
  <2>4. ~(Top.k < Top.k) /\ Top.k # 0
    BY <1>3
  <2> QED  BY <2>1, <2>2, <2>3, <2>4
<1> QED  BY <1>1, <1>2, <1>6, <1>8 DEF f

LEMMA FillMoves ==
    ASSUME Code, Typed, Chain, FillSuccPhis
    PROVE  /\ Moved([Top EXCEPT !.stage = "kids"])
           /\ \A v : (PushedBy(Top, v))' = PushedBy(Top, v)
<1> DEFINE f == [Top EXCEPT !.stage = "kids"]
<1>1. /\ frames # << >> /\ Top.stage = "body" /\ Top.k \notin DOMAIN code[Top.bb] /\ SetTop(f)
      /\ UNCHANGED <<domVars, code, phis>>
  BY DEF FillSuccPhis, Active
<1>2. /\ Top \in Activations /\ Progress(Top) /\ Len(code[Top.bb]) \in Nat
      /\ DOMAIN code[Top.bb] = 1 .. Len(code[Top.bb])
  BY <1>1, TopPlace
<1>3. /\ f \in Activations /\ f.bb = Top.bb /\ f.k = Top.k /\ f.stage = "kids" /\ f.kids = Top.kids
  BY <1>2 DEF Activations
<1> HIDE DEF f
<1>4. Progress(f)
  <2>1. Top.k \in 1 .. Len(code[Top.bb]) + 1 /\ Top.kids = tree[Top.bb] /\ Top.bb \in D!Reachable
    BY <1>1, <1>2 DEF Progress
  <2>2. Top.k = Len(code[Top.bb]) + 1
    BY <1>1, <1>2, <2>1
  <2> QED  BY <1>3, <2>1, <2>2 DEF Progress
<1>5. Moved(f)
  BY <1>1, <1>3, <1>4 DEF Moved
<1>6. Top' = f
  BY <1>5, MoveIs
<1>7. \A v : (PushedBy(Top, v))' = PushedBy(Top, v)
  BY <1>1, <1>3, <1>6 DEF PushedBy, PhisOf, StoresTo
<1> QED  BY <1>5, <1>7 DEF f

-----------------------------------------------------------------------------
(* rename calls itself for a child of the tree, and returns.               *)
Called(c) ==
    /\ frames # << >> /\ Top.stage = "kids" /\ c \in Top.kids
    /\ frames' \in Seq(Activations) /\ Depth' = Depth + 1
    /\ frames'[Depth + 1] = Frame(c) /\ frames'[Depth] = [Top EXCEPT !.kids = Top.kids \ {c}]
    /\ \A i \in 1 .. Depth - 1 : frames'[i] = frames[i]
    /\ \A i \in 1 .. Depth : /\ frames'[i].bb = frames[i].bb /\ frames'[i].k = frames[i].k
                             /\ frames'[i].stage = frames[i].stage

LEMMA RecurseIs ==
    ASSUME Typed, Recurse, PathFacts, TreeFacts
    PROVE  \E c : Called(c)
<1>1. PICK c \in Top.kids :
        /\ frames # << >> /\ Top.stage = "kids"
        /\ frames' = Append([frames EXCEPT ![Len(frames)].kids = @ \ {c}], Frame(c))
  BY DEF Recurse, Active
<1> DEFINE f == [Top EXCEPT !.kids = Top.kids \ {c}]
           s == [frames EXCEPT ![Depth] = f]
<1>2. Depth \in Nat \ {0} /\ Top = frames[Depth] /\ Top \in Activations /\ frames \in Seq(Activations)
      /\ Depth \in 1 .. Len(frames)
  BY <1>1, TopIs DEF Typed, Depth
<1>3. f \in Activations /\ f.bb = Top.bb /\ f.k = Top.k /\ f.stage = Top.stage
  BY <1>2 DEF Activations
<1>4. frames' = Append(s, Frame(c))
  BY <1>1, <1>2 DEF Depth
<1> HIDE DEF f
<1>5. /\ s \in Seq(Activations) /\ Len(s) = Depth
      /\ \A i \in 1 .. Depth : s[i] = IF i = Depth THEN f ELSE frames[i]
  BY <1>2, <1>3, ExceptSeq DEF Depth
<1> HIDE DEF s
<1>6. c \in Blocks
  BY <1>1, <1>2 DEF Activations
<1>7. Frame(c) \in Activations
  BY <1>6, FrameIs
<1>8. /\ frames' \in Seq(Activations) /\ Depth' = Depth + 1 /\ frames'[Depth + 1] = Frame(c)
      /\ \A i \in 1 .. Depth : frames'[i] = IF i = Depth THEN f ELSE frames[i]
  BY <1>4, <1>5, <1>7, AppendProperties DEF Depth
<1>9. /\ \A i \in 1 .. Depth - 1 : frames'[i] = frames[i]
      /\ frames'[Depth] = f
  BY <1>2, <1>8
<1>10. \A i \in 1 .. Depth : /\ frames'[i].bb = frames[i].bb /\ frames'[i].k = frames[i].k
                             /\ frames'[i].stage = frames[i].stage
  BY <1>2, <1>3, <1>8
<1> QED  BY <1>1, <1>8, <1>9, <1>10 DEF Called, f

LEMMA CallUnder ==
    ASSUME Code, Typed, NEW c \in Blocks, Called(c), UNCHANGED <<code, phis>>, NEW v
    PROVE  /\ \A n \in 0 .. Depth : (Under(n, v))' = Under(n, v)
           /\ (Under(Depth, v))' = Under(Depth, v)
<1>1. Depth \in Nat \ {0} /\ Depth' = Depth + 1
  BY TopIs DEF Called
<1>2. ASSUME NEW n \in 0 .. Depth PROVE (Under(n, v))' = Under(n, v)
  <2>1. \A i \in 1 .. n : i \in 1 .. Depth
    BY <1>1
  <2> QED  BY <2>1, UnderKept DEF Called
<1>3. PICK m \in 0 .. Depth : m = Depth
  BY <1>1
<1>4. (PushedBy(Frame(c), v))' = {}
  <2>1. Len(code[c]) \in Nat /\ \A k \in StoresTo(c, v) : k \in 1 .. Len(code[c])
    BY LenProperties DEF Code, StoresTo
  <2>2. {k \in StoresTo(c, v) : k < 0} = {}
    BY <2>1
  <2> QED  BY <2>2 DEF PushedBy, Frame, StoresTo
<1>5. \A i \in 1 .. m + 1 : i = m + 1 => (PushedBy(frames[i], v))' = {}
  BY <1>3, <1>4 DEF Called, PushedBy, Frame
<1>6. (Under(Depth, v))' = UNION {(PushedBy(frames[i], v))' : i \in 1 .. m + 1}
  BY <1>1, <1>3 DEF Under
<1>7. (Under(m, v))' = UNION {(PushedBy(frames[i], v))' : i \in 1 .. m}
  BY DEF Under
<1>8. 1 .. m + 1 = 1 .. m \cup {m + 1}
  BY <1>1, <1>3
<1>9. (Under(Depth, v))' = (Under(m, v))'
  BY <1>5, <1>6, <1>7, <1>8
<1> QED  BY <1>2, <1>3, <1>9

LEMMA ChainCall ==
    ASSUME Code, Typed, Chain, PathFacts, TreeFacts, NEW c, Called(c), UNCHANGED <<domVars, code>>
    PROVE  /\ Chain' /\ c \in D!Reachable \ {Entry} /\ c \in tree[Top.bb] /\ c \in Blocks
           /\ D!Dom(Top.bb, c)
<1>1. UNCHANGED <<succ, idom, tree, code>>
  BY DEF domVars
<1>2. Depth \in Nat \ {0} /\ Top = frames[Depth] /\ Depth \in 1 .. Depth /\ Top.bb \in Blocks
  BY TopIs DEF Called, Activations
<1>3. /\ c \in tree[Top.bb] /\ c \in D!Reachable \ {Entry} /\ idom[c] = Top.bb
      /\ D!StrictDom(Top.bb, c) /\ \A d : D!StrictDom(d, c) => D!Dom(d, Top.bb)
  <2>1. Top.kids \subseteq tree[Top.bb]
    BY <1>2 DEF Called, Chain, Progress
  <2>2. c \in tree[Top.bb]
    BY <2>1 DEF Called
  <2> QED  BY <1>2, <2>2 DEF TreeFacts
<1>4. c \in Blocks
  BY <1>3 DEF PathFacts
<1>5. /\ Depth' = Depth + 1 /\ frames'[Depth + 1] = Frame(c)
      /\ Frame(c).bb = c /\ Frame(c).stage = "enter" /\ Frame(c).k = 0 /\ Frame(c).kids = tree[c]
      /\ \A i \in 1 .. Depth : frames'[i].bb = frames[i].bb
  BY <1>4, FrameIs DEF Called
<1>6. \A j \in 1 .. Depth : D!Dom(frames[j].bb, Top.bb)
  BY <1>2 DEF Chain, D!StrictDom, D!Dom
<1>7. \A j \in 1 .. Depth : D!StrictDom(frames[j].bb, c)
  <2> SUFFICES ASSUME NEW j \in 1 .. Depth PROVE D!StrictDom(frames[j].bb, c)
    OBVIOUS
  <2>1. D!Dom(frames[j].bb, c)
    BY <1>3, <1>6 DEF PathFacts, D!StrictDom
  <2>2. frames[j].bb # c
    BY <1>3, <1>6 DEF PathFacts
  <2> QED  BY <2>1, <2>2 DEF D!StrictDom
<1>8. ASSUME NEW i \in 1 .. Depth + 1
      PROVE  /\ Progress(frames'[i])
             /\ i < Depth + 1 => frames'[i].stage = "kids"
             /\ i = 1 => frames'[i].bb = Entry
             /\ i > 1 => frames'[i].bb # Entry /\ idom[frames'[i].bb] = frames'[i - 1].bb
             /\ \A j \in 1 .. Depth + 1 : j < i => D!StrictDom(frames'[j].bb, frames'[i].bb)
             /\ \A d : D!Dom(d, frames'[i].bb) => \E j \in 1 .. i : frames'[j].bb = d
  <2>1. CASE i = Depth + 1
    <3>1. Progress(frames'[i])
      BY <1>3, <1>5, <2>1 DEF Progress
    <3>2. i - 1 \in 1 .. Depth /\ i - 1 = Depth /\ i # 1
      BY <1>2, <2>1
    <3>3. frames'[i].bb # Entry /\ idom[frames'[i].bb] = frames'[i - 1].bb
      BY <1>2, <1>3, <1>5, <2>1, <3>2
    <3>4. \A j \in 1 .. Depth + 1 : j < i => j \in 1 .. Depth
      BY <1>2, <2>1
    <3>5. \A j \in 1 .. Depth + 1 : j < i => D!StrictDom(frames'[j].bb, frames'[i].bb)
      BY <1>5, <1>7, <2>1, <3>4
    <3>6. ASSUME NEW d, D!Dom(d, frames'[i].bb) PROVE \E j \in 1 .. i : frames'[j].bb = d
      <4>1. CASE d = c
        BY <1>2, <1>5, <2>1, <4>1
      <4>2. CASE d # c
        <5>1. D!Dom(d, Top.bb)
          BY <1>3, <1>5, <2>1, <3>6, <4>2 DEF D!StrictDom
        <5>2. PICK j \in 1 .. Depth : frames[j].bb = d
          BY <1>2, <5>1 DEF Chain
        <5> QED  BY <1>2, <1>5, <2>1, <5>2
      <4> QED  BY <4>1, <4>2
    <3> QED  BY <1>2, <2>1, <3>1, <3>2, <3>3, <3>5, <3>6
  <2>2. CASE i # Depth + 1
    <3>1. i \in 1 .. Depth /\ \A j \in 1 .. Depth + 1 : j < i => j \in 1 .. Depth
      BY <1>2, <2>2
    <3>2. \A j \in 1 .. i : j \in 1 .. Depth
      BY <1>2, <3>1
    <3>3. i > 1 => i - 1 \in 1 .. Depth
      BY <1>2, <3>1
    <3>4. Progress(frames'[i]) /\ frames'[i].stage = "kids"
      <4>1. CASE i = Depth
        <5>1. Progress(Top) /\ Top.stage = "kids" /\ Top \in Activations
          BY <1>2, TopIs DEF Chain, Called
        <5>2. [Top EXCEPT !.kids = Top.kids \ {c}].kids \subseteq Top.kids
          BY <5>1 DEF Activations
        <5>3. /\ frames'[i].stage = "kids" /\ frames'[i].k = Top.k /\ frames'[i].bb = Top.bb
              /\ frames'[i].kids \subseteq Top.kids
          BY <4>1, <5>1, <5>2 DEF Called, Activations
        <5> QED  BY <5>1, <5>3 DEF Progress
      <4>2. CASE i # Depth
        <5>1. i \in 1 .. Depth - 1 /\ i < Depth
          BY <3>1, <4>2, <1>2
        <5> QED  BY <3>1, <5>1 DEF Called, Chain
      <4> QED  BY <4>1, <4>2
    <3>5. /\ i = 1 => frames'[i].bb = Entry
          /\ i > 1 => frames'[i].bb # Entry /\ idom[frames'[i].bb] = frames'[i - 1].bb
      BY <1>5, <3>1, <3>3 DEF Chain
    <3>6. \A j \in 1 .. Depth + 1 : j < i => D!StrictDom(frames'[j].bb, frames'[i].bb)
      BY <1>5, <3>1 DEF Chain
    <3>7. \A d : D!Dom(d, frames'[i].bb) => \E j \in 1 .. i : frames'[j].bb = d
      BY <1>5, <3>1, <3>2 DEF Chain
    <3> QED  BY <3>4, <3>5, <3>6, <3>7
  <2> QED  BY <2>1, <2>2
<1>9. Chain'
  <2>1. ASSUME NEW i \in 1 .. Depth + 1
        PROVE  /\ Progress(frames[i])'
               /\ \A j \in 1 .. Depth + 1 : j < i => (D!StrictDom(frames[j].bb, frames[i].bb))'
               /\ \A d : (D!Dom(d, frames[i].bb))' => \E j \in 1 .. i : frames'[j].bb = d
    <3>1. Progress(frames[i])'
      BY <1>1, <1>8, PathsKept DEF Progress
    <3>2. ASSUME NEW j \in 1 .. Depth + 1, j < i PROVE (D!StrictDom(frames[j].bb, frames[i].bb))'
      <4>1. D!StrictDom(frames'[j].bb, frames'[i].bb)
        BY <1>8, <3>2
      <4> QED  BY <1>1, <4>1 DEF D!StrictDom, D!Dom, D!ReachAvoiding, D!ClosedBut
    <3>3. ASSUME NEW d, (D!Dom(d, frames[i].bb))' PROVE \E j \in 1 .. i : frames'[j].bb = d
      <4>1. D!Dom(d, frames'[i].bb)
        BY <1>1, <3>3 DEF D!Dom, D!ReachAvoiding, D!ClosedBut
      <4> QED  BY <1>8, <4>1
    <3> QED  BY <3>1, <3>2, <3>3
  <2>2. idom' = idom /\ Depth' = Depth + 1
    BY <1>1, <1>5
  <2> QED  BY <1>8, <2>1, <2>2 DEF Chain
<1> QED  BY <1>3, <1>4, <1>9 DEF D!StrictDom

LEMMA ReturnIs ==
    ASSUME Code, Typed, Chain, Leave
    PROVE  /\ frames' \in Seq(Activations) /\ Depth' = Depth - 1
           /\ Depth \in Nat \ {0} /\ Top = frames[Depth] /\ Top.stage = "kids" /\ Top.kids = {}
           /\ \A i \in 1 .. Depth - 1 : frames'[i] = frames[i]
           /\ \A n \in 0 .. Depth - 1 : \A v : (Under(n, v))' = Under(n, v)
           /\ \A v : (Under(Depth, v))' = Under(Depth - 1, v)
           /\ UNCHANGED <<domVars, code, phis>>
<1>1. /\ frames # << >> /\ frames' = Front(frames) /\ UNCHANGED <<domVars, code, phis>>
      /\ Top.stage = "kids" /\ Top.kids = {}
  BY DEF Leave, Active
<1>2. Depth \in Nat \ {0} /\ Top = frames[Depth]
  BY <1>1, TopIs
<1>3. /\ frames' \in Seq(Activations) /\ Depth' = Depth - 1
      /\ \A i \in 1 .. Depth - 1 : frames'[i] = frames[i]
  BY <1>1, FrontIs DEF Depth
<1>4. ASSUME NEW n \in 0 .. Depth - 1, NEW v PROVE (Under(n, v))' = Under(n, v)
  <2>1. \A i \in 1 .. n : frames'[i] = frames[i]
    BY <1>2, <1>3
  <2> QED  BY <1>1, <2>1, UnderKept
<1>5. ASSUME NEW v PROVE (Under(Depth, v))' = Under(Depth - 1, v)
  <2>1. PICK m \in 0 .. Depth - 1 : m = Depth - 1
    BY <1>2
  <2>2. (Under(Depth, v))' = (Under(m, v))'
    BY <1>3, <2>1 DEF Under
  <2> QED  BY <1>4, <2>1, <2>2
<1> QED  BY <1>1, <1>2, <1>3, <1>4, <1>5

LEMMA ChainReturn ==
    ASSUME Code, Typed, Chain, Leave
    PROVE  Chain'
<1>1. /\ Depth' = Depth - 1 /\ Depth \in Nat \ {0}
      /\ \A i \in 1 .. Depth - 1 : frames'[i] = frames[i]
      /\ UNCHANGED <<succ, idom, tree, code>>
  BY ReturnIs DEF domVars
<1>2. ASSUME NEW i \in 1 .. Depth - 1
      PROVE  /\ Progress(frames[i])'
             /\ i < Depth - 1 => frames'[i].stage = "kids"
             /\ i = 1 => frames'[i].bb = Entry
             /\ i > 1 => frames'[i].bb # Entry /\ idom'[frames'[i].bb] = frames'[i - 1].bb
             /\ \A j \in 1 .. Depth - 1 : j < i => (D!StrictDom(frames[j].bb, frames[i].bb))'
             /\ \A d : (D!Dom(d, frames[i].bb))' => \E j \in 1 .. i : frames'[j].bb = d
  <2>1. i \in 1 .. Depth /\ i < Depth /\ \A j \in 1 .. i : j \in 1 .. Depth - 1
        /\ (i > 1 => i - 1 \in 1 .. Depth - 1)
    BY <1>1
  <2>2. Progress(frames[i])'
    BY <1>1, <2>1, PathsKept DEF Progress, Chain
  <2>3. /\ frames'[i].stage = "kids"
        /\ i = 1 => frames'[i].bb = Entry
        /\ i > 1 => frames'[i].bb # Entry /\ idom'[frames'[i].bb] = frames'[i - 1].bb
    BY <1>1, <2>1 DEF Chain
  <2>4. ASSUME NEW j \in 1 .. Depth - 1, j < i PROVE (D!StrictDom(frames[j].bb, frames[i].bb))'
    <3>1. j \in 1 .. Depth
      BY <1>1
    <3>2. D!StrictDom(frames'[j].bb, frames'[i].bb)
      BY <1>1, <2>1, <2>4, <3>1 DEF Chain
    <3> QED  BY <1>1, <3>2 DEF D!StrictDom, D!Dom, D!ReachAvoiding, D!ClosedBut
  <2>5. ASSUME NEW d, (D!Dom(d, frames[i].bb))' PROVE \E j \in 1 .. i : frames'[j].bb = d
    <3>1. D!Dom(d, frames'[i].bb)
      BY <1>1, <2>5 DEF D!Dom, D!ReachAvoiding, D!ClosedBut
    <3>2. PICK j \in 1 .. i : frames[j].bb = d
      BY <1>1, <2>1, <3>1 DEF Chain
    <3> QED  BY <1>1, <2>1, <3>2
  <2> QED  BY <2>2, <2>3, <2>4, <2>5
<1> QED  BY <1>1, <1>2 DEF Chain

(* rename pops as much as it pushed: one value per phi and store.          *)
LEMMA PushedIs ==
    ASSUME Code, Typed, Chain, frames # << >>, Top.stage = "kids", NEW v \in Vars
    PROVE  /\ Pushed(Top.bb, v) = Cardinality(PushedBy(Top, v)) /\ Pushed(Top.bb, v) \in Nat
           /\ Cardinality(Under(Depth, v)) = Cardinality(Under(Depth - 1, v)) + Pushed(Top.bb, v)
<1> DEFINE b == Top.bb
           P == IF v \in PhisOf(b) THEN {0} ELSE {}
           S == StoresTo(b, v)
<1>1. Top.bb \in Blocks /\ Progress(Top) /\ Len(code[b]) \in Nat /\ S \in SUBSET (1 .. Len(code[b]))
  BY TopPlace
<1>2. {k \in S : k < Top.k} = S
  BY <1>1 DEF Progress
<1>3. PushedBy(Top, v) = {b} \X (P \cup S)
  BY <1>2 DEF PushedBy
<1>4. IsFiniteSet(S) /\ IsFiniteSet(1 .. Len(code[b]))
  <2>1. 1 \in Int /\ Len(code[b]) \in Int
    BY <1>1
  <2>2. IsFiniteSet(1 .. Len(code[b]))
    BY <2>1, FS_Interval
  <2> QED  BY <1>1, <2>2, FS_Subset
<1>5. IsFiniteSet(P) /\ Cardinality(P) = Cardinality({v} \cap PhisOf(b))
      /\ Cardinality(P) \in Nat /\ Cardinality(S) \in Nat
  <2>1. CASE v \in PhisOf(b)
    <3>1. {v} \cap PhisOf(b) = {v}
      BY <2>1
    <3> QED  BY <1>4, <2>1, <3>1, FS_Singleton, FS_CardinalityType
  <2>2. CASE v \notin PhisOf(b)
    <3>1. {v} \cap PhisOf(b) = {}
      BY <2>2
    <3> QED  BY <1>4, <2>2, <3>1, FS_EmptySet, FS_CardinalityType
  <2> QED  BY <2>1, <2>2
<1>6. P \cap S = {}
  BY <1>1
<1>7. IsFiniteSet(P \cup S) /\ Cardinality(P \cup S) = Cardinality(P) + Cardinality(S)
  <2> HIDE DEF P, S
  <2>1. Cardinality(P \cap S) = 0
    BY <1>6, FS_EmptySet
  <2>2. /\ IsFiniteSet(P \cup S)
        /\ Cardinality(P \cup S) = Cardinality(P) + Cardinality(S) - Cardinality(P \cap S)
    BY <1>4, <1>5, FS_Union
  <2>3. Cardinality(P) \in Nat /\ Cardinality(S) \in Nat
    BY <1>5
  <2> QED  BY <2>1, <2>2, <2>3
<1>8. Cardinality(PushedBy(Top, v)) = Cardinality(P) + Cardinality(S)
  <2> HIDE DEF P, S, b
  <2>1. IsFiniteSet({b}) /\ Cardinality({b}) = 1
    BY FS_Singleton
  <2>2. Cardinality({b} \X (P \cup S)) = 1 * Cardinality(P \cup S)
    BY <1>7, <2>1, FS_Product
  <2> QED  BY <1>3, <1>5, <1>7, <2>2
<1>9. Pushed(b, v) = Cardinality(PushedBy(Top, v)) /\ Pushed(b, v) \in Nat
  BY <1>5, <1>8 DEF Pushed
<1>10. Cardinality(Under(Depth, v)) = Cardinality(Under(Depth - 1, v)) + Cardinality(PushedBy(Top, v))
  <2> DEFINE A == Under(Depth - 1, v)
             B == PushedBy(Top, v)
  <2>1. Under(Depth, v) = A \cup B /\ IsFiniteSet(A) /\ IsFiniteSet(B) /\ A \cap B = {}
    BY TopPushes
  <2> HIDE DEF A, B
  <2>2. Cardinality(A \cap B) = 0 /\ Cardinality(A) \in Nat /\ Cardinality(B) \in Nat
    BY <2>1, FS_EmptySet, FS_CardinalityType
  <2>3. Cardinality(A \cup B) = Cardinality(A) + Cardinality(B)
    BY <2>1, <2>2, FS_Union
  <2> QED  BY <2>1, <2>3 DEF A, B
<1> QED  BY <1>9, <1>10

LEMMA PoppedIs ==
    ASSUME Code, Typed, Chain, Stacks, Leave, NEW v \in Vars
    PROVE  /\ valStack'[v] \in Seq(Val) /\ Len(valStack'[v]) = Cardinality(Under(Depth - 1, v))
           /\ Len(valStack'[v]) <= Len(valStack[v])
           /\ \A i \in 1 .. Len(valStack'[v]) : valStack'[v][i] = valStack[v][i]
<1>1. frames # << >> /\ Top.stage = "kids" /\ valStack'[v] = Pop(valStack[v], Pushed(Top.bb, v))
  BY DEF Leave, Active
<1>2. /\ Pushed(Top.bb, v) \in Nat
      /\ Len(valStack[v]) = Cardinality(Under(Depth - 1, v)) + Pushed(Top.bb, v)
  BY <1>1, PushedIs DEF Stacks, StackOf
<1>3. valStack[v] \in Seq(Val)
  BY DEF Typed
<1>4. Cardinality(Under(Depth - 1, v)) \in Nat
  <2>1. Depth - 1 \in 0 .. Depth
    BY <1>1, TopIs
  <2> QED  BY <2>1, UnderIs
<1> DEFINE c == Cardinality(Under(Depth - 1, v))
           n == Pushed(Top.bb, v)
           m == Len(valStack[v])
<1> HIDE DEF c, n, m
<1>5. c \in Nat /\ n \in Nat /\ m = c + n
  BY <1>2, <1>4 DEF c, n, m
<1>6. n <= m /\ m - n = c /\ c <= m
  BY <1>5
<1>7. /\ Pop(valStack[v], n) \in Seq(Val) /\ Len(Pop(valStack[v], n)) = m - n
      /\ \A i \in 1 .. m - n : Pop(valStack[v], n)[i] = valStack[v][i]
  BY <1>3, <1>5, <1>6, PopIs DEF m
<1>8. valStack'[v] = Pop(valStack[v], n)
  BY <1>1 DEF n
<1>9. c = Cardinality(Under(Depth - 1, v)) /\ m = Len(valStack[v])
  BY DEF c, m
<1> QED  BY <1>6, <1>7, <1>8, <1>9

LEMMA StackReturn ==
    ASSUME Code, Typed, Chain, Stacks, Leave
    PROVE  Stacks'
<1> SUFFICES ASSUME NEW v \in Vars PROVE StackOf(v)'
  BY DEF Stacks
<1>1. /\ Depth' = Depth - 1 /\ Depth \in Nat \ {0}
      /\ \A i \in 1 .. Depth - 1 : frames'[i] = frames[i]
      /\ UNCHANGED succ
      /\ \A n \in 0 .. Depth - 1 : (Under(n, v))' = Under(n, v)
      /\ (Under(Depth, v))' = Under(Depth - 1, v)
  BY ReturnIs DEF domVars
<1>2. /\ Len(valStack'[v]) = Cardinality(Under(Depth - 1, v))
      /\ Len(valStack'[v]) <= Len(valStack[v])
      /\ Len(valStack'[v]) \in Nat /\ Len(valStack[v]) \in Nat
      /\ valStack'[v] \in Seq(Val)
      /\ \A i \in 1 .. Len(valStack'[v]) : valStack'[v][i] = valStack[v][i]
  BY PoppedIs, LenProperties DEF Typed
<1>3. ASSUME NEW i \in 1 .. Depth - 1, NEW m \in 1 .. Len(valStack'[v]), m <= (Cardinality(Under(i, v)))'
      PROVE  (D!Dom(DefBlock(valStack[v][m]), frames[i].bb))'
  <2>1. i \in 0 .. Depth - 1 /\ i \in 1 .. Depth /\ m \in 1 .. Len(valStack[v])
    BY <1>1, <1>2
  <2>2. D!Dom(DefBlock(valStack[v][m]), frames[i].bb)
    BY <1>1, <1>3, <2>1 DEF Stacks, StackOf
  <2>3. D!Dom(DefBlock(valStack'[v][m]), frames'[i].bb)
    BY <1>1, <1>2, <2>2
  <2> QED  BY <1>1, <2>3 DEF D!Dom, D!ReachAvoiding, D!ClosedBut, DefBlock
<1>4. v \notin keys' => valStack'[v] = << >>
  <2>1. keys' = keys
    BY DEF Leave
  <2>2. v \notin keys => Len(valStack[v]) = 0
    BY EmptySeq DEF Stacks, StackOf
  <2>3. v \notin keys => Len(valStack'[v]) = 0
    BY <1>2, <2>2
  <2> QED  BY <1>2, <2>1, <2>3, EmptySeq
<1> QED  BY <1>1, <1>2, <1>3, <1>4 DEF StackOf

-----------------------------------------------------------------------------
(* The parts of the invariant, action by action.                           *)

LEMMA TypedRename ==
    ASSUME Code, Typed, Chain, Stacks, PathFacts, TreeFacts, Rename
    PROVE  Code' /\ Typed'
<1> USE DEF Active
<1>1. CASE PushPhis
  <2>1. /\ frames # << >> /\ SetTop([Top EXCEPT !.stage = "body", !.k = 1])
        /\ valStack' = [v \in Vars |-> IF v \in PhisOf(Top.bb)
                                   THEN Append(valStack[v], Phi(Top.bb, v)) ELSE valStack[v]]
        /\ UNCHANGED <<code, opnd, phis, phiArgs>>
    BY <1>1 DEF PushPhis, irVars
  <2>2. Top \in Activations /\ [Top EXCEPT !.stage = "body", !.k = 1] \in Activations
    BY <2>1, TopIs DEF Activations
  <2>3. frames' \in Seq(Activations)
    BY <2>1, <2>2, SetTopIs
  <2>4. \A v \in Vars : Phi(Top.bb, v) \in Val
    BY <2>2 DEF Activations, Phi, Val
  <2>5. valStack' \in [Vars -> Seq(Val)]
    BY <2>1, <2>4, AppendProperties DEF Typed
  <2> QED  BY <2>1, <2>3, <2>5, CodeKept DEF Typed
<1>2. CASE RenameLoad
  <2>1. /\ frames # << >> /\ SetTop([Top EXCEPT !.k = @ + 1])
        /\ UNCHANGED <<code, phis, valStack>>
    BY <1>2 DEF RenameLoad, AtInstr
  <2>2. Top \in Activations /\ [Top EXCEPT !.k = @ + 1] \in Activations
    BY <2>1, TopIs DEF Activations
  <2>3. frames' \in Seq(Activations)
    BY <2>1, <2>2, SetTopIs
  <2>4. CASE UNCHANGED <<opnd, phiArgs>>
    BY <2>1, <2>3, <2>4, CodeKept DEF Typed
  <2>5. CASE ~UNCHANGED <<opnd, phiArgs>>
    <3> DEFINE v == Instr(<<Top.bb, Top.k>>).var
    <3>1. valStack[v] # << >> /\ ReplaceUses(Inst(Top.bb, Top.k), Last(valStack[v]))
      BY <1>2, <2>5 DEF RenameLoad
    <3>2. v \in Vars
      <4>1. Top.k \in DOMAIN code[Top.bb] /\ IsOp(<<Top.bb, Top.k>>, "load") /\ Top.bb \in Blocks
        BY <1>2, <2>2 DEF RenameLoad, AtInstr, Activations
      <4> QED  BY <4>1, InstructionsOf DEF IsOp, Instr
    <3>3. Last(valStack[v]) \in Val
      BY <3>1, <3>2, EmptySeq, ElementOfSeq DEF Last, Typed
    <3> HIDE DEF v
    <3> QED  BY <2>1, <2>3, <3>1, <3>3, ReplaceUsesIs, CodeKept DEF Typed
  <2> QED  BY <2>4, <2>5
<1>3. CASE RenameStore
  <2> DEFINE p == <<Top.bb, Top.k>>
             v == Instr(p).var
  <2>1. /\ frames # << >> /\ SetTop([Top EXCEPT !.k = @ + 1])
        /\ UNCHANGED <<code, opnd, phis, phiArgs>>
        /\ valStack' = [valStack EXCEPT ![v] = Append(valStack[v], opnd[p])]
        /\ Top.k \in DOMAIN code[Top.bb] /\ code[Top.bb][Top.k].op = "store"
        /\ v = code[Top.bb][Top.k].var
    BY <1>3 DEF RenameStore, AtInstr, irVars, IsOp, Instr
  <2>2. Top \in Activations /\ [Top EXCEPT !.k = @ + 1] \in Activations /\ Top.bb \in Blocks
    BY <2>1, TopIs DEF Activations
  <2>3. frames' \in Seq(Activations)
    BY <2>1, <2>2, SetTopIs
  <2>4. v \in Vars /\ p \in DOMAIN opnd
    BY <2>1, <2>2, InstructionsOf
  <2> HIDE DEF p, v
  <2>5. valStack' \in [Vars -> Seq(Val)]
    BY <2>1, <2>4, AppendProperties DEF Typed
  <2> QED  BY <2>1, <2>3, <2>5, CodeKept DEF Typed
<1>4. CASE RenameOther
  <2>1. /\ frames # << >> /\ SetTop([Top EXCEPT !.k = @ + 1])
        /\ UNCHANGED <<code, opnd, phis, phiArgs, valStack>>
    BY <1>4 DEF RenameOther, AtInstr, irVars
  <2>2. Top \in Activations /\ [Top EXCEPT !.k = @ + 1] \in Activations
    BY <2>1, TopIs DEF Activations
  <2>3. frames' \in Seq(Activations)
    BY <2>1, <2>2, SetTopIs
  <2> QED  BY <2>1, <2>3, CodeKept DEF Typed
<1>5. CASE FillSuccPhis
  <2>1. /\ frames # << >> /\ SetTop([Top EXCEPT !.stage = "kids"])
        /\ UNCHANGED <<code, opnd, phis, valStack>>
        /\ phiArgs' = [p \in phis |->
             IF p[1] \in ToSet(succ[Top.bb]) /\ valStack[p[2]] # << >>
             THEN Append(phiArgs[p], [val |-> Last(valStack[p[2]]), bb |-> Top.bb])
             ELSE phiArgs[p]]
    BY <1>5 DEF FillSuccPhis
  <2>2. Top \in Activations /\ [Top EXCEPT !.stage = "kids"] \in Activations
    BY <2>1, TopIs DEF Activations
  <2>3. frames' \in Seq(Activations)
    BY <2>1, <2>2, SetTopIs
  <2>4. ASSUME NEW p \in phis PROVE phiArgs'[p] \in Seq(Pairs)
    <3>1. phiArgs[p] \in Seq(Pairs) /\ p[2] \in Vars
      BY DEF Typed
    <3>2. ASSUME valStack[p[2]] # << >>
          PROVE  [val |-> Last(valStack[p[2]]), bb |-> Top.bb] \in Pairs
      <4>1. Last(valStack[p[2]]) \in Val
        BY <3>1, <3>2, EmptySeq, ElementOfSeq DEF Last, Typed
      <4> QED  BY <2>2, <4>1 DEF Pairs, Activations
    <3> QED  BY <2>1, <3>1, <3>2, AppendProperties
  <2>5. DOMAIN phiArgs' = phis
    BY <2>1
  <2> QED  BY <2>1, <2>3, <2>4, <2>5, CodeKept DEF Typed
<1>6. CASE Recurse
  <2>1. UNCHANGED <<code, opnd, phis, phiArgs, valStack>>
    BY <1>6 DEF Recurse, irVars
  <2>2. frames' \in Seq(Activations)
    BY <1>6, RecurseIs DEF Called
  <2> QED  BY <2>1, <2>2, CodeKept DEF Typed
<1>7. CASE Leave
  <2>1. /\ UNCHANGED <<code, opnd, phis, phiArgs>>
        /\ valStack' = [v \in Vars |-> Pop(valStack[v], Pushed(Top.bb, v))]
    BY <1>7 DEF Leave
  <2>2. ASSUME NEW v \in Vars PROVE valStack'[v] \in Seq(Val)
    BY <1>7, PoppedIs
  <2>3. frames' \in Seq(Activations)
    BY <1>7, ReturnIs
  <2>4. valStack' \in [Vars -> Seq(Val)]
    BY <2>1, <2>2
  <2> QED  BY <2>1, <2>3, <2>4, CodeKept DEF Typed
<1> QED  BY <1>1, <1>2, <1>3, <1>4, <1>5, <1>6, <1>7 DEF Rename

LEMMA ChainRename ==
    ASSUME Code, Typed, Chain, Stacks, PathFacts, TreeFacts, Rename
    PROVE  Chain'
<1>1. CASE PushPhis
  BY <1>1, PushPhisMoves, ChainMove
<1>2. CASE RenameLoad
  <2>1. AtInstr("load") /\ SetTop([Top EXCEPT !.k = @ + 1]) /\ UNCHANGED <<domVars, code, phis>>
    BY <1>2 DEF RenameLoad
  <2> QED  BY <2>1, InstrMoves, ChainMove
<1>3. CASE RenameStore
  <2>1. AtInstr("store") /\ SetTop([Top EXCEPT !.k = @ + 1]) /\ UNCHANGED <<domVars, code, phis>>
    BY <1>3 DEF RenameStore, irVars
  <2> QED  BY <2>1, InstrMoves, ChainMove
<1>4. CASE RenameOther
  <2>1. /\ AtInstr("add") \/ AtInstr("print")
        /\ SetTop([Top EXCEPT !.k = @ + 1]) /\ UNCHANGED <<domVars, code, phis>>
    BY <1>4 DEF RenameOther, irVars
  <2> QED  BY <2>1, InstrMoves, ChainMove
<1>5. CASE FillSuccPhis
  BY <1>5, FillMoves, ChainMove
<1>6. CASE Recurse
  <2>1. UNCHANGED <<domVars, code>>
    BY <1>6 DEF Recurse
  <2> QED  BY <1>6, <2>1, RecurseIs, ChainCall
<1>7. CASE Leave
  BY <1>7, ChainReturn
<1> QED  BY <1>1, <1>2, <1>3, <1>4, <1>5, <1>6, <1>7 DEF Rename

(* A definition dominates its uses; of a phi operand, the end of the edge's *)
(* source.                                                                  *)
Dominance ==
    /\ \A p \in DOMAIN opnd : D!Dom(DefBlock(opnd[p]), p[1])
    /\ \A p \in phis : \A i \in 1 .. Len(phiArgs[p]) :
          D!Dom(DefBlock(phiArgs[p][i].val), phiArgs[p][i].bb)

LEMMA PhisUnder ==
    ASSUME Code, Typed, Chain, PushPhis, NEW v \in Vars
    PROVE  /\ v \in PhisOf(Top.bb) =>
                 /\ (Under(Depth, v))' = Under(Depth, v) \cup {<<Top.bb, 0>>}
                 /\ <<Top.bb, 0>> \notin Under(Depth, v)
           /\ v \notin PhisOf(Top.bb) => (Under(Depth, v))' = Under(Depth, v)
<1> DEFINE f == [Top EXCEPT !.stage = "body", !.k = 1]
           b == Top.bb
<1>1. frames # << >>
  BY DEF PushPhis, Active
<1>2. /\ Moved(f) /\ PushedBy(Top, v) = {}
      /\ (PushedBy(Top, v))' = PushedBy(Top, v) \cup {x \in {<<b, 0>>} : v \in PhisOf(b)}
  BY PushPhisMoves
<1> HIDE DEF f
<1>3. (Under(Depth, v))' = Under(Depth - 1, v) \cup (PushedBy(Top, v))'
  BY <1>2, MoveIs
<1>4. /\ Under(Depth, v) = Under(Depth - 1, v) \cup PushedBy(Top, v)
      /\ \A q \in Under(Depth - 1, v) : q[1] # b
  BY <1>1, TopPushes
<1> QED  BY <1>2, <1>3, <1>4

(* A step of RenameStore, for the variable w it defines.                     *)
Stored(w) ==
    /\ w \in Vars /\ w = code[Top.bb][Top.k].var
    /\ Top.k \in DOMAIN code[Top.bb] /\ code[Top.bb][Top.k].op = "store"
    /\ <<Top.bb, Top.k>> \in DOMAIN opnd /\ <<Top.bb, Top.k>> \notin Under(Depth, w)
    /\ valStack' = [valStack EXCEPT ![w] = Append(valStack[w], opnd[<<Top.bb, Top.k>>])]
    /\ keys' = keys \cup {w}
    /\ (Under(Depth, w))' = Under(Depth, w) \cup {<<Top.bb, Top.k>>}
    /\ \A v \in Vars \ {w} : (Under(Depth, v))' = Under(Depth, v)
    /\ Moved([Top EXCEPT !.k = @ + 1]) /\ UNCHANGED <<opnd, phiArgs, erased>>

LEMMA StoreUnder ==
    ASSUME Code, Typed, Chain, RenameStore
    PROVE  \E w : Stored(w)
<1> DEFINE f == [Top EXCEPT !.k = @ + 1]
           b == Top.bb
           p == <<Top.bb, Top.k>>
<1>0. PICK w : w = Instr(p).var
  OBVIOUS
<1>1. /\ frames # << >> /\ AtInstr("store") /\ SetTop(f) /\ UNCHANGED <<domVars, code, phis>>
      /\ valStack' = [valStack EXCEPT ![w] = Append(valStack[w], opnd[p])] /\ keys' = keys \cup {w}
      /\ UNCHANGED <<opnd, phiArgs, erased>>
  BY <1>0 DEF RenameStore, irVars, AtInstr, Active
<1>2. /\ Moved(f) /\ b \in Blocks /\ Top.k \in DOMAIN code[b] /\ code[b][Top.k].op = "store"
      /\ \A v : /\ (PushedBy(Top, v))' = PushedBy(Top, v) \cup ({b} \X ({Top.k} \cap StoresTo(b, v)))
                /\ p \notin PushedBy(Top, v)
  BY <1>1, InstrMoves
<1>3. p \in DOMAIN opnd /\ w \in Vars /\ w = code[b][Top.k].var
  BY <1>0, <1>2, InstructionsOf DEF Instr
<1>4. p[1] = b
  OBVIOUS
<1> HIDE DEF f
<1>5. \A v : (Under(Depth, v))' = Under(Depth - 1, v) \cup (PushedBy(Top, v))'
  BY <1>2, MoveIs
<1>6. \A v : /\ Under(Depth, v) = Under(Depth - 1, v) \cup PushedBy(Top, v)
             /\ \A q \in Under(Depth - 1, v) : q[1] # b
  BY <1>1, TopPushes
<1>7. \A v : Top.k \in StoresTo(b, v) <=> v = w
  BY <1>2, <1>3 DEF StoresTo
<1>8. {b} \X ({Top.k} \cap StoresTo(b, w)) = {p}
  BY <1>7
<1> HIDE DEF p
<1>9. p \notin Under(Depth, w)
  BY <1>2, <1>4, <1>6
<1>10. (Under(Depth, w))' = Under(Depth, w) \cup {p}
  BY <1>2, <1>5, <1>6, <1>8
<1>11. ASSUME NEW v \in Vars \ {w} PROVE (Under(Depth, v))' = Under(Depth, v)
  <2>1. {b} \X ({Top.k} \cap StoresTo(b, v)) = {}
    BY <1>7
  <2>2. (PushedBy(Top, v))' = PushedBy(Top, v)
    BY <1>2, <2>1
  <2> QED  BY <1>5, <1>6, <2>2
<1>12. Stored(w)
  BY <1>1, <1>2, <1>3, <1>9, <1>10, <1>11 DEF Stored, f, p
<1> QED  BY <1>12

LEMMA OtherUnder ==
    ASSUME Code, Typed, Chain, NEW op \in {"load", "add", "print"}, AtInstr(op),
           SetTop([Top EXCEPT !.k = @ + 1]), UNCHANGED <<domVars, code, phis>>, NEW v
    PROVE  (Under(Depth, v))' = Under(Depth, v)
<1> DEFINE f == [Top EXCEPT !.k = @ + 1]
<1>1. frames # << >>
  BY DEF AtInstr, Active
<1>2. /\ Moved(f) /\ code[Top.bb][Top.k].op = op
      /\ (PushedBy(Top, v))' = PushedBy(Top, v) \cup ({Top.bb} \X ({Top.k} \cap StoresTo(Top.bb, v)))
  BY InstrMoves
<1> HIDE DEF f
<1>3. Top.k \notin StoresTo(Top.bb, v)
  BY <1>2 DEF StoresTo
<1>4. (Under(Depth, v))' = Under(Depth - 1, v) \cup (PushedBy(Top, v))'
  BY <1>2, MoveIs
<1>5. Under(Depth, v) = Under(Depth - 1, v) \cup PushedBy(Top, v)
  BY <1>1, TopPushes
<1> QED  BY <1>2, <1>3, <1>4, <1>5

LEMMA FillUnder ==
    ASSUME Code, Typed, Chain, FillSuccPhis, NEW v
    PROVE  (Under(Depth, v))' = Under(Depth, v)
<1> DEFINE f == [Top EXCEPT !.stage = "kids"]
<1>1. frames # << >>
  BY DEF FillSuccPhis, Active
<1>2. Moved(f) /\ (PushedBy(Top, v))' = PushedBy(Top, v)
  BY FillMoves
<1> HIDE DEF f
<1>3. (Under(Depth, v))' = Under(Depth - 1, v) \cup (PushedBy(Top, v))'
  BY <1>2, MoveIs
<1>4. Under(Depth, v) = Under(Depth - 1, v) \cup PushedBy(Top, v)
  BY <1>1, TopPushes
<1> QED  BY <1>2, <1>3, <1>4

LEMMA StacksRename ==
    ASSUME Code, Typed, Chain, Stacks, Dominance, PathFacts, TreeFacts, Rename
    PROVE  Stacks'
<1> SUFFICES ASSUME NEW v \in Vars PROVE StackOf(v)'
  BY DEF Stacks
<1>0. StackOf(v)
  BY DEF Stacks
<1>1. CASE PushPhis
  <2> DEFINE b == Top.bb
  <2>1. /\ frames # << >> /\ keys' = keys \cup PhisOf(b)
        /\ valStack' = [x \in Vars |-> IF x \in PhisOf(b)
                                       THEN Append(valStack[x], Phi(b, x)) ELSE valStack[x]]
    BY <1>1 DEF PushPhis, Active
  <2>2. PICK f : Moved(f)
    BY <1>1, PushPhisMoves
  <2>3. CASE v \in PhisOf(b)
    <3>1. (Under(Depth, v))' = Under(Depth, v) \cup {<<b, 0>>} /\ <<b, 0>> \notin Under(Depth, v)
      BY <1>1, <2>3, PhisUnder
    <3>2. Phi(b, v) \in Val /\ DefBlock(Phi(b, v)) = b /\ D!Dom(b, b)
      BY <2>1, TopPlace DEF Phi, Val, DefBlock, D!Dom
    <3>3. valStack'[v] = Append(valStack[v], Phi(b, v)) /\ v \in keys'
      BY <2>1, <2>3
    <3> QED  BY <1>0, <2>2, <3>1, <3>2, <3>3, StackPush
  <2>4. CASE v \notin PhisOf(b)
    BY <1>0, <1>1, <2>1, <2>2, <2>4, PhisUnder, StackKept
  <2> QED  BY <2>3, <2>4
<1>2. ASSUME NEW op \in {"load", "add", "print"}, AtInstr(op), SetTop([Top EXCEPT !.k = @ + 1]),
             UNCHANGED <<domVars, code, phis, valStack, keys>>
      PROVE  StackOf(v)'
  BY <1>0, <1>2, InstrMoves, OtherUnder, StackKept
<1>3. CASE RenameStore
  <2>0. PICK w : Stored(w)
    BY <1>3, StoreUnder
  <2>1. /\ <<Top.bb, Top.k>> \in DOMAIN opnd /\ <<Top.bb, Top.k>> \notin Under(Depth, w)
        /\ valStack' = [valStack EXCEPT ![w] = Append(valStack[w], opnd[<<Top.bb, Top.k>>])]
        /\ keys' = keys \cup {w}
        /\ (Under(Depth, w))' = Under(Depth, w) \cup {<<Top.bb, Top.k>>}
        /\ \A x \in Vars \ {w} : (Under(Depth, x))' = Under(Depth, x)
        /\ Moved([Top EXCEPT !.k = @ + 1])
    BY <2>0 DEF Stored
  <2>2. PICK f : Moved(f)
    BY <2>1
  <2> DEFINE p == <<Top.bb, Top.k>>
  <2>3. p[1] = Top.bb
    OBVIOUS
  <2> HIDE DEF p
  <2>4. CASE v = w
    <3>1. opnd[p] \in Val /\ D!Dom(DefBlock(opnd[p]), Top.bb)
      BY <2>1, <2>3 DEF Typed, Dominance, p
    <3>2. valStack'[v] = Append(valStack[v], opnd[p]) /\ v \in keys'
      BY <2>1, <2>4 DEF Typed, p
    <3>3. p \notin Under(Depth, v) /\ (Under(Depth, v))' = Under(Depth, v) \cup {p}
      BY <2>1, <2>4 DEF p
    <3> QED  BY <1>0, <2>2, <3>1, <3>2, <3>3, StackPush
  <2>5. CASE v # w
    <3>1. (Under(Depth, v))' = Under(Depth, v)
      BY <2>1, <2>5
    <3>2. valStack'[v] = valStack[v] /\ keys \subseteq keys'
      BY <2>1, <2>5 DEF Typed
    <3> QED  BY <1>0, <2>2, <3>1, <3>2, StackKept
  <2> QED  BY <2>4, <2>5
<1>4. CASE RenameLoad
  BY <1>2, <1>4 DEF RenameLoad
<1>5. CASE RenameOther
  BY <1>2, <1>5 DEF RenameOther, irVars
<1>6. CASE FillSuccPhis
  <2>1. UNCHANGED <<valStack, keys>>
    BY <1>6 DEF FillSuccPhis
  <2> QED  BY <1>0, <1>6, <2>1, FillMoves, FillUnder, StackKept
<1>7. CASE Recurse
  <2>1. UNCHANGED <<domVars, code, phis, valStack, keys>>
    BY <1>7 DEF Recurse, irVars
  <2>2. UNCHANGED succ
    BY <2>1 DEF domVars
  <2>3. PICK c : Called(c)
    BY <1>7, RecurseIs
  <2>4. /\ c \in Blocks /\ D!Dom(Top.bb, c)
        /\ Depth' = Depth + 1 /\ Depth \in Nat \ {0} /\ Top = frames[Depth]
        /\ frames'[Depth + 1].bb = c /\ \A i \in 1 .. Depth : frames'[i].bb = frames[i].bb
    BY <2>1, <2>3, ChainCall, TopIs DEF Called, Frame
  <2>5. /\ \A n \in 0 .. Depth : (Under(n, v))' = Under(n, v)
        /\ (Under(Depth, v))' = Under(Depth, v)
    BY <2>1, <2>3, <2>4, CallUnder
  <2>6. ASSUME NEW i \in 1 .. Depth + 1, NEW m \in 1 .. Len(valStack[v]), m <= (Cardinality(Under(i, v)))'
        PROVE  (D!Dom(DefBlock(valStack[v][m]), frames[i].bb))'
    <3>1. D!Dom(DefBlock(valStack[v][m]), frames'[i].bb)
      <4>1. CASE i = Depth + 1
        <5>1. Len(valStack[v]) = Cardinality(Under(Depth, v)) /\ Depth \in 1 .. Depth
          BY <1>0, <2>4 DEF StackOf
        <5>2. m <= Cardinality(Under(Depth, v))
          BY <5>1
        <5>3. D!Dom(DefBlock(valStack[v][m]), Top.bb)
          BY <1>0, <2>4, <5>1, <5>2 DEF StackOf
        <5> QED  BY <2>4, <4>1, <5>3 DEF PathFacts
      <4>2. CASE i # Depth + 1
        <5>1. i \in 1 .. Depth /\ i \in 0 .. Depth
          BY <2>4, <4>2
        <5> QED  BY <1>0, <2>4, <2>5, <2>6, <5>1 DEF StackOf
      <4> QED  BY <4>1, <4>2
    <3> QED  BY <2>1, <2>2, <3>1 DEF D!Dom, D!ReachAvoiding, D!ClosedBut, DefBlock
  <2> QED  BY <1>0, <2>1, <2>4, <2>5, <2>6 DEF StackOf
<1>8. CASE Leave
  BY <1>8, StackReturn DEF Stacks
<1> QED  BY <1>1, <1>3, <1>4, <1>5, <1>6, <1>7, <1>8 DEF Rename

LEMMA SameDominance ==
    ASSUME UNCHANGED succ,
           \A p \in DOMAIN opnd' : D!Dom(DefBlock(opnd'[p]), p[1]),
           \A p \in phis' : \A i \in 1 .. Len(phiArgs'[p]) :
              D!Dom(DefBlock(phiArgs'[p][i].val), phiArgs'[p][i].bb)
    PROVE  Dominance'
BY DEF Dominance, D!Dom, D!ReachAvoiding, D!ClosedBut, DefBlock

LEMMA LoadStep ==
    ASSUME Code, Typed, Chain, Stacks, RenameLoad
    PROVE  \/ UNCHANGED <<opnd, phiArgs>>
           \/ \E v \in Vars :
                 /\ valStack[v] # << >> /\ v = code[Top.bb][Top.k].var
                 /\ Last(valStack[v]) \in Val /\ D!Dom(DefBlock(Last(valStack[v])), Top.bb)
                 /\ ReplaceUses(Inst(Top.bb, Top.k), Last(valStack[v]))
<1> DEFINE v == Instr(<<Top.bb, Top.k>>).var
<1>1. /\ frames # << >> /\ AtInstr("load") /\ SetTop([Top EXCEPT !.k = @ + 1])
      /\ UNCHANGED <<domVars, code, phis>>
  BY DEF RenameLoad, AtInstr, Active
<1>2. Top.bb \in Blocks /\ Top.k \in DOMAIN code[Top.bb] /\ code[Top.bb][Top.k].op = "load"
  BY <1>1, InstrMoves
<1>3. v \in Vars /\ v = code[Top.bb][Top.k].var
  BY <1>2, InstructionsOf DEF Instr
<1>4. ASSUME ~UNCHANGED <<opnd, phiArgs>>
      PROVE  valStack[v] # << >> /\ ReplaceUses(Inst(Top.bb, Top.k), Last(valStack[v]))
  BY <1>4 DEF RenameLoad
<1> HIDE DEF v
<1>5. ASSUME valStack[v] # << >>
      PROVE  Last(valStack[v]) \in Val /\ D!Dom(DefBlock(Last(valStack[v])), Top.bb)
  BY <1>1, <1>3, <1>5, StackIs, TopOfStack
<1> QED  BY <1>3, <1>4, <1>5

LEMMA DominanceRename ==
    ASSUME Code, Typed, Chain, Stacks, Dominance, PathFacts, Rename
    PROVE  Dominance'
<1>0. UNCHANGED <<succ, phis>>
  BY DEF Rename, PushPhis, RenameLoad, RenameStore, RenameOther, FillSuccPhis, Recurse, Leave,
         domVars, irVars
<1>1. ASSUME UNCHANGED <<opnd, phiArgs>> PROVE Dominance'
  BY <1>0, <1>1, SameDominance DEF Dominance
<1>2. CASE RenameLoad /\ ~UNCHANGED <<opnd, phiArgs>>
  <2>1. PICK v \in Vars :
          /\ Last(valStack[v]) \in Val /\ D!Dom(DefBlock(Last(valStack[v])), Top.bb)
          /\ ReplaceUses(Inst(Top.bb, Top.k), Last(valStack[v]))
    BY <1>2, LoadStep
  <2> DEFINE old == Inst(Top.bb, Top.k)
             new == Last(valStack[v])
  <2>2. DefBlock(old) = Top.bb
    BY DEF Inst, DefBlock
  <2> HIDE DEF old, new
  <2>3. new \in Val /\ ReplaceUses(old, new) /\ D!Dom(DefBlock(new), Top.bb)
    BY <2>1 DEF old, new
  <2>4. /\ DOMAIN opnd' = DOMAIN opnd
        /\ \A p \in DOMAIN opnd : opnd'[p] = IF opnd[p] = old THEN new ELSE opnd[p]
        /\ \A p \in phis :
              /\ Len(phiArgs'[p]) = Len(phiArgs[p])
              /\ \A i \in 1 .. Len(phiArgs[p]) :
                    /\ phiArgs'[p][i].bb = phiArgs[p][i].bb
                    /\ phiArgs'[p][i].val = IF phiArgs[p][i].val = old THEN new ELSE phiArgs[p][i].val
    BY <2>3, ReplaceUsesIs
  <2>5. \A p \in DOMAIN opnd' : D!Dom(DefBlock(opnd'[p]), p[1])
    BY <2>2, <2>3, <2>4 DEF Dominance, PathFacts
  <2>6. \A p \in phis' : \A i \in 1 .. Len(phiArgs'[p]) :
           D!Dom(DefBlock(phiArgs'[p][i].val), phiArgs'[p][i].bb)
    BY <1>0, <2>2, <2>3, <2>4 DEF Dominance, PathFacts
  <2> QED  BY <1>0, <2>5, <2>6, SameDominance
<1>3. CASE FillSuccPhis
  <2>1. /\ frames # << >> /\ UNCHANGED opnd
        /\ phiArgs' = [p \in phis |->
             IF p[1] \in ToSet(succ[Top.bb]) /\ valStack[p[2]] # << >>
             THEN Append(phiArgs[p], [val |-> Last(valStack[p[2]]), bb |-> Top.bb])
             ELSE phiArgs[p]]
    BY <1>3 DEF FillSuccPhis, Active
  <2>2. ASSUME NEW p \in phis, NEW i \in 1 .. Len(phiArgs'[p])
        PROVE  D!Dom(DefBlock(phiArgs'[p][i].val), phiArgs'[p][i].bb)
    <3>1. phiArgs[p] \in Seq(Pairs) /\ p[2] \in Vars /\ Len(phiArgs[p]) \in Nat
      BY LenProperties DEF Typed
    <3>2. CASE phiArgs'[p] = phiArgs[p]
      BY <2>2, <3>2 DEF Dominance
    <3>3. CASE phiArgs'[p] # phiArgs[p]
      <4> DEFINE a == [val |-> Last(valStack[p[2]]), bb |-> Top.bb]
      <4>1. valStack[p[2]] # << >> /\ phiArgs'[p] = Append(phiArgs[p], a)
        BY <2>1, <3>3
      <4>2. a \in Pairs /\ a.bb = Top.bb /\ D!Dom(DefBlock(a.val), Top.bb)
        BY <2>1, <3>1, <4>1, StackIs, TopOfStack, TopPlace DEF Pairs
      <4> HIDE DEF a
      <4>3. /\ Len(phiArgs'[p]) = Len(phiArgs[p]) + 1 /\ phiArgs'[p][Len(phiArgs[p]) + 1] = a
            /\ \A j \in 1 .. Len(phiArgs[p]) : phiArgs'[p][j] = phiArgs[p][j]
        BY <3>1, <4>1, <4>2, AppendProperties
      <4>4. i = Len(phiArgs[p]) + 1 \/ i \in 1 .. Len(phiArgs[p])
        BY <3>1, <4>3
      <4> QED  BY <4>2, <4>3, <4>4 DEF Dominance
    <3> QED  BY <3>2, <3>3
  <2> QED  BY <1>0, <2>1, <2>2, SameDominance DEF Dominance
<1>4. CASE PushPhis \/ RenameStore \/ RenameOther \/ Recurse \/ Leave
  BY <1>1, <1>4 DEF PushPhis, RenameStore, RenameOther, Recurse, Leave, irVars
<1> QED  BY <1>1, <1>2, <1>3, <1>4 DEF Rename

-----------------------------------------------------------------------------
(* The definitions of a variable, in the order of execution: the stores,   *)
(* and the phis at place 0 of their blocks.                                *)
Placed == \A v \in Vars : {b \in Blocks : <<b, v>> \in phis} = PhiBlocks(v)

DefIn(v) == StoredIn(v) \cup {b \in Blocks : <<b, v>> \in phis}
HasDef(b, v) == \E d \in DefIn(v) : D!Dom(d, b)
HasDefAtEntry(b, v) == <<b, v>> \in phis \/ \E d \in DefIn(v) : D!StrictDom(d, b)

DefPoints(v) ==
    {b \in Blocks : <<b, v>> \in phis} \X {0} \cup UNION {{b} \X StoresTo(b, v) : b \in Blocks}
Before(q, p) == D!StrictDom(q[1], p[1]) \/ (q[1] = p[1] /\ q[2] < p[2])

LEMMA PhiBlocksClosed ==
    ASSUME FrontierFacts, NEW v
    PROVE  /\ \A b \in StoredIn(v) \cup PhiBlocks(v) : df[b] \subseteq PhiBlocks(v)
           /\ \A y \in PhiBlocks(v) : \E b \in StoredIn(v) \cup PhiBlocks(v) : y \in df[b]
           /\ PhiBlocks(v) \subseteq Blocks
<1> DEFINE closed == {S \in SUBSET Blocks : \A b \in StoredIn(v) \cup S : df[b] \subseteq S}
           A == PhiBlocks(v)
           B == {y \in A : \E b \in StoredIn(v) \cup A : y \in df[b]}
<1>1. A = {b \in Blocks : \A S \in closed : b \in S}
  BY DEF PhiBlocks
<1>2. StoredIn(v) \subseteq Blocks /\ A \subseteq Blocks
  BY <1>1 DEF StoredIn
<1>3. ASSUME NEW b \in StoredIn(v) \cup A PROVE df[b] \subseteq A
  <2>1. df[b] \subseteq Blocks
    BY <1>2, <1>3 DEF FrontierFacts
  <2>2. \A S \in closed : b \in StoredIn(v) \cup S
    BY <1>1, <1>3
  <2>3. \A S \in closed : df[b] \subseteq S
    BY <2>2
  <2> QED  BY <1>1, <2>1, <2>3
<1>4. B \in closed
  <2>1. B \in SUBSET Blocks
    BY <1>2
  <2>2. ASSUME NEW b \in StoredIn(v) \cup B PROVE df[b] \subseteq B
    BY <1>3, <2>2
  <2> QED  BY <2>1, <2>2
<1>5. A \subseteq B
  BY <1>1, <1>4
<1> QED  BY <1>2, <1>3, <1>5

(* Where a store of v can have run, a definition of v dominates: the       *)
(* frontiers place a phi wherever dominance alone would lose it.           *)
LEMMA Covered ==
    ASSUME PathFacts, FrontierFacts, Placed, NEW v \in Vars, NEW b \in D!Reachable,
           b \in Reaches(v)
    PROVE  HasDefAtEntry(b, v)
<1> DEFINE S == {x \in Blocks : x \notin D!Reachable \/ HasDefAtEntry(x, v)}
<1>1. ASSUME NEW a \in StoredIn(v) \cup S, NEW y \in ToSet(succ[a]) PROVE y \in S
  <2>1. a \in Blocks /\ y \in Blocks
    BY DEF PathFacts, StoredIn
  <2> SUFFICES ASSUME y \in D!Reachable PROVE HasDefAtEntry(y, v)
    BY <2>1
  <2>2. a \in D!Reachable
    BY <1>1, <2>1 DEF PathFacts
  <2>3. D!Dom(a, a)
    BY DEF D!Dom
  <2>4. PICK d \in DefIn(v) : D!Dom(d, a)
    BY <1>1, <2>1, <2>2, <2>3 DEF HasDefAtEntry, DefIn, D!StrictDom
  <2>5. CASE D!StrictDom(d, y)
    BY <2>4, <2>5 DEF HasDefAtEntry
  <2>6. CASE ~D!StrictDom(d, y)
    <3>1. y \in df[d]
      BY <1>1, <2>2, <2>4, <2>6 DEF PathFacts, FrontierFacts
    <3>2. d \in StoredIn(v) \cup PhiBlocks(v)
      BY <2>4 DEF DefIn, Placed
    <3>3. y \in PhiBlocks(v)
      BY <3>1, <3>2, PhiBlocksClosed
    <3> QED  BY <3>3 DEF HasDefAtEntry, Placed
  <2> QED  BY <2>5, <2>6
<1>2. \A a \in StoredIn(v) \cup S : ToSet(succ[a]) \subseteq S
  BY <1>1
<1>3. S \in SUBSET Blocks
  OBVIOUS
<1>4. b \in S
  <2> HIDE DEF S
  <2> QED  BY <1>2, <1>3 DEF Reaches
<1> QED  BY <1>4

LEMMA DefPointsIs ==
    ASSUME Code, NEW v
    PROVE  /\ \A q \in DefPoints(v) :
                 /\ q = <<q[1], q[2]>> /\ q[1] \in DefIn(v) /\ q[1] \in Blocks
                 /\ q[2] \in 0 .. Len(code[q[1]]) /\ Len(code[q[1]]) \in Nat /\ q[2] \in Int
                 /\ q[2] = 0 => <<q[1], v>> \in phis
                 /\ q[2] # 0 => q[2] \in StoresTo(q[1], v)
           /\ \A d \in DefIn(v) : \E q \in DefPoints(v) : q[1] = d
           /\ \A b \in Blocks : <<b, v>> \in phis => <<b, 0>> \in DefPoints(v)
           /\ \A b \in Blocks : \A k \in StoresTo(b, v) : <<b, k>> \in DefPoints(v)
<1>0. \A b \in Blocks : /\ Len(code[b]) \in Nat /\ StoresTo(b, v) \subseteq 1 .. Len(code[b])
  BY LenProperties DEF Code, StoresTo
<1>1. ASSUME NEW q \in DefPoints(v)
      PROVE  /\ q = <<q[1], q[2]>> /\ q[1] \in DefIn(v) /\ q[1] \in Blocks
             /\ q[2] \in 0 .. Len(code[q[1]]) /\ q[2] \in Int
             /\ q[2] = 0 => <<q[1], v>> \in phis
             /\ q[2] # 0 => q[2] \in StoresTo(q[1], v)
  <2>1. CASE q \in {b \in Blocks : <<b, v>> \in phis} \X {0}
    BY <1>0, <2>1 DEF DefIn
  <2>2. CASE q \notin {b \in Blocks : <<b, v>> \in phis} \X {0}
    <3>1. PICK b \in Blocks : q \in {b} \X StoresTo(b, v)
      BY <2>2 DEF DefPoints
    <3>2. q = <<q[1], q[2]>> /\ q[1] = b /\ q[2] \in StoresTo(b, v) /\ q[2] \in 1 .. Len(code[b])
      BY <1>0, <3>1
    <3> QED  BY <1>0, <3>2 DEF DefIn, StoredIn
  <2> QED  BY <2>1, <2>2
<1>2. \A b \in Blocks : <<b, v>> \in phis => <<b, 0>> \in DefPoints(v)
  BY DEF DefPoints
<1>3. ASSUME NEW b \in Blocks, NEW k \in StoresTo(b, v) PROVE <<b, k>> \in DefPoints(v)
  <2>1. <<b, k>> \in {b} \X StoresTo(b, v)
    OBVIOUS
  <2> QED  BY <2>1 DEF DefPoints
<1>4. ASSUME NEW d \in DefIn(v) PROVE \E q \in DefPoints(v) : q[1] = d
  <2>1. d \in Blocks /\ ((\E k : k \in StoresTo(d, v)) \/ <<d, v>> \in phis)
    BY DEF DefIn, StoredIn
  <2>2. \A k : <<d, k>>[1] = d
    OBVIOUS
  <2> QED  BY <1>2, <1>3, <2>1, <2>2
<1> QED  BY <1>0, <1>1, <1>2, <1>3, <1>4

(* An activation has pushed the definitions up to its place.               *)
LEMMA PushedIsDefs ==
    ASSUME Code, Typed, Chain, NEW i \in 1 .. Depth, NEW v \in Vars
    PROVE  /\ PushedBy(frames[i], v) =
                {q \in DefPoints(v) : q[1] = frames[i].bb /\ q[2] < frames[i].k}
           /\ i < Depth => PushedBy(frames[i], v) = {q \in DefPoints(v) : q[1] = frames[i].bb}
<1> DEFINE f == frames[i]
           P == IF f.stage # "enter" /\ v \in PhisOf(f.bb) THEN {0} ELSE {}
           S == {k \in StoresTo(f.bb, v) : k < f.k}
           R == {q \in DefPoints(v) : q[1] = f.bb /\ q[2] < f.k}
<1>1. f \in Activations /\ f.bb \in Blocks /\ f.k \in Nat /\ Progress(f)
  <2>1. f \in Activations
    BY ElementOfSeq DEF Typed, Depth
  <2> QED  BY <2>1 DEF Activations, Chain
<1>2. Len(code[f.bb]) \in Nat
  BY <1>1, LenProperties DEF Code
<1>3. f.stage = "enter" <=> f.k = 0
  <2>1. f.stage \in {"enter", "body", "kids"}
    BY <1>1 DEF Activations
  <2> QED  BY <1>1, <1>2, <2>1 DEF Progress
<1>4. PushedBy(f, v) = {f.bb} \X (P \cup S)
  BY DEF PushedBy
<1>5. ASSUME NEW q \in R PROVE q \in {f.bb} \X (P \cup S)
  <2>1. /\ q = <<q[1], q[2]>> /\ q[1] = f.bb /\ q[2] < f.k /\ q[2] \in Nat
        /\ q[2] = 0 => <<q[1], v>> \in phis
        /\ q[2] # 0 => q[2] \in StoresTo(q[1], v)
    BY <1>5, DefPointsIs
  <2>2. q[2] = 0 => q[2] \in P
    BY <1>1, <1>3, <2>1 DEF PhisOf
  <2>3. q[2] \in P \cup S
    BY <2>1, <2>2
  <2> HIDE DEF P, S
  <2> QED  BY <2>1, <2>3
<1>6. ASSUME NEW x \in P \cup S PROVE <<f.bb, x>> \in R
  <2>1. x < f.k /\ <<f.bb, x>> \in DefPoints(v)
    <3>1. CASE x \in P
      <4>1. x = 0 /\ <<f.bb, v>> \in phis /\ f.k # 0
        BY <1>3, <3>1 DEF PhisOf
      <4> QED  BY <1>1, <4>1, DefPointsIs
    <3>2. CASE x \in S
      BY <1>1, <3>2, DefPointsIs
    <3> QED  BY <1>6, <3>1, <3>2
  <2> QED  BY <2>1
<1>7. PushedBy(f, v) = R
  <2> HIDE DEF P, S, R
  <2>1. \A q \in {f.bb} \X (P \cup S) : q = <<f.bb, q[2]>> /\ q[2] \in P \cup S
    OBVIOUS
  <2> QED  BY <1>4, <1>5, <1>6, <2>1
<1>8. ASSUME i < Depth PROVE R = {q \in DefPoints(v) : q[1] = f.bb}
  <2>1. f.k = Len(code[f.bb]) + 1
    BY <1>1, <1>8 DEF Chain, Progress
  <2>2. ASSUME NEW q \in DefPoints(v), q[1] = f.bb PROVE q[2] < f.k
    <3>1. q[2] \in 0 .. Len(code[f.bb])
      BY <2>2, DefPointsIs
    <3> HIDE DEF f
    <3> QED  BY <1>2, <2>1, <3>1
  <2> QED  BY <2>2
<1> QED  BY <1>7, <1>8

LEMMA UnderIsBefore ==
    ASSUME Code, Typed, Chain, frames # << >>, NEW v \in Vars
    PROVE  Under(Depth, v) = {q \in DefPoints(v) : Before(q, <<Top.bb, Top.k>>)}
<1>1. Depth \in Nat \ {0} /\ Top = frames[Depth] /\ Depth \in 1 .. Depth
  BY TopIs
<1> DEFINE p == <<Top.bb, Top.k>>
<1>2. p[1] = Top.bb /\ p[2] = Top.k
  OBVIOUS
<1> HIDE DEF p
<1>3. ASSUME NEW q \in Under(Depth, v) PROVE q \in DefPoints(v) /\ Before(q, p)
  <2>1. PICK i \in 1 .. Depth : q \in PushedBy(frames[i], v)
    BY <1>3 DEF Under
  <2>2. q \in DefPoints(v) /\ q[1] = frames[i].bb /\ q[2] < frames[i].k
    BY <2>1, PushedIsDefs
  <2>3. CASE i = Depth
    BY <1>1, <1>2, <2>2, <2>3 DEF Before
  <2>4. CASE i # Depth
    <3>1. i < Depth
      BY <1>1, <2>4
    <3> QED  BY <1>1, <1>2, <2>2, <3>1 DEF Before, Chain
  <2> QED  BY <2>3, <2>4
<1>4. ASSUME NEW q \in DefPoints(v), Before(q, p) PROVE q \in Under(Depth, v)
  <2>1. CASE q[1] = Top.bb
    <3>1. q[2] < Top.k
      BY <1>2, <1>4, <2>1 DEF Before, D!StrictDom
    <3>2. q \in PushedBy(frames[Depth], v)
      BY <1>1, <2>1, <3>1, PushedIsDefs
    <3> QED  BY <1>1, <3>2 DEF Under
  <2>2. CASE q[1] # Top.bb
    <3>1. D!Dom(q[1], Top.bb)
      BY <1>2, <1>4, <2>2 DEF Before, D!StrictDom
    <3>2. PICK i \in 1 .. Depth : frames[i].bb = q[1]
      BY <1>1, <3>1 DEF Chain
    <3>3. i < Depth
      BY <1>1, <2>2, <3>2
    <3>4. q \in PushedBy(frames[i], v)
      BY <3>2, <3>3, PushedIsDefs
    <3> QED  BY <3>4 DEF Under
  <2> QED  BY <2>1, <2>2
<1> QED  BY <1>3, <1>4 DEF p

-----------------------------------------------------------------------------
(* Which blocks have been renamed, and which phis have been filled.        *)
ActiveBlocks == {frames[i].bb : i \in 1 .. Depth}

Visits ==
    /\ erased \subseteq D!Reachable /\ erased \cap ActiveBlocks = {}
    /\ Entry \in erased \cup ActiveBlocks
    /\ \A c \in D!Reachable \ {Entry} : idom[c] \in erased => c \in erased
    /\ \A c \in (erased \cup ActiveBlocks) \ {Entry} : idom[c] \in erased \cup ActiveBlocks
    /\ \A i \in 1 .. Depth : frames[i].kids \cap (erased \cup ActiveBlocks) = {}
    /\ \A i \in 1 .. Depth :
          /\ i < Depth => tree[frames[i].bb] \subseteq erased \cup frames[i].kids \cup {frames[i + 1].bb}
          /\ i = Depth => tree[frames[i].bb] \subseteq erased \cup frames[i].kids

(* The blocks that have supplied the phis of their successors.             *)
Filled == erased \cup {frames[i].bb : i \in {j \in 1 .. Depth : frames[j].stage = "kids"}}

FilledPhis ==
    \A p \in phis :
       /\ \A i, j \in 1 .. Len(phiArgs[p]) : phiArgs[p][i].bb = phiArgs[p][j].bb => i = j
       /\ {phiArgs[p][i].bb : i \in 1 .. Len(phiArgs[p])} =
             {b \in Filled : p[1] \in ToSet(succ[b]) /\ HasDef(b, p[2])}

LEMMA VisitsMove ==
    ASSUME Code, Typed, Chain, Visits, NEW f, Moved(f), f.kids = Top.kids, UNCHANGED erased
    PROVE  Visits' /\ ActiveBlocks' = ActiveBlocks
<1>1. /\ Depth' = Depth /\ Depth \in Nat \ {0} /\ Top = frames[Depth] /\ frames'[Depth] = f
      /\ \A i \in 1 .. Depth - 1 : frames'[i] = frames[i]
      /\ \A i \in 1 .. Depth : frames'[i].bb = frames[i].bb
      /\ UNCHANGED <<succ, idom, tree>>
  BY MoveIs, TopIs DEF Moved, domVars
<1>2. \A i \in 1 .. Depth : frames'[i].kids = frames[i].kids /\ (i < Depth => i + 1 \in 1 .. Depth)
  BY <1>1
<1>3. ActiveBlocks' = ActiveBlocks
  BY <1>1 DEF ActiveBlocks
<1>4. D!Reachable' = D!Reachable
  BY <1>1, PathsKept
<1>5. \A i \in 1 .. Depth : frames'[i].kids \cap (erased \cup ActiveBlocks) = {}
  BY <1>2 DEF Visits
<1>6. \A i \in 1 .. Depth :
         /\ i < Depth => tree[frames'[i].bb] \subseteq erased \cup frames'[i].kids \cup {frames'[i + 1].bb}
         /\ i = Depth => tree[frames'[i].bb] \subseteq erased \cup frames'[i].kids
  BY <1>1, <1>2 DEF Visits
<1> QED  BY <1>1, <1>3, <1>4, <1>5, <1>6 DEF Visits

LEMMA VisitsCall ==
    ASSUME Code, Typed, Chain, Visits, PathFacts, TreeFacts, NEW c, Called(c),
           UNCHANGED <<domVars, code, erased>>
    PROVE  Visits' /\ ActiveBlocks' = ActiveBlocks \cup {c}
<1>1. UNCHANGED <<succ, idom, tree>>
  BY DEF domVars
<1>2. /\ c \in D!Reachable \ {Entry} /\ c \in tree[Top.bb] /\ c \in Blocks /\ c \in Top.kids
      /\ Depth \in Nat \ {0} /\ Top = frames[Depth] /\ Top \in Activations
      /\ Depth' = Depth + 1 /\ frames'[Depth + 1] = Frame(c) /\ Frame(c).bb = c /\ Frame(c).kids = tree[c]
      /\ \A i \in 1 .. Depth - 1 : frames'[i] = frames[i]
      /\ \A i \in 1 .. Depth : frames'[i].bb = frames[i].bb
      /\ frames'[Depth] = [Top EXCEPT !.kids = Top.kids \ {c}]
  BY ChainCall, TopIs, FrameIs DEF Called
<1>3. frames'[Depth].kids = Top.kids \ {c}
  BY <1>2 DEF Activations
<1>4. idom[c] = Top.bb /\ D!Reachable' = D!Reachable
  BY <1>1, <1>2, TopPlace, PathsKept DEF TreeFacts, Called
<1>5. ActiveBlocks' = ActiveBlocks \cup {c}
  <2>1. 1 .. Depth + 1 = 1 .. Depth \cup {Depth + 1}
    BY <1>2
  <2> QED  BY <1>2, <2>1 DEF ActiveBlocks
<1>6. c \notin erased \cup ActiveBlocks /\ Top.bb \in ActiveBlocks
  BY <1>2 DEF Visits, ActiveBlocks
<1>7. ASSUME NEW i \in 1 .. Depth + 1 PROVE frames'[i].kids \cap (erased \cup ActiveBlocks \cup {c}) = {}
  <2>1. CASE i = Depth + 1
    <3>1. frames'[i].kids = {x \in D!Reachable \ {Entry} : idom[x] = c}
      BY <1>2, <2>1 DEF TreeFacts
    <3>2. \A x \in (erased \cup ActiveBlocks) \ {Entry} : idom[x] # c
      BY <1>6 DEF Visits
    <3>3. idom[c] # c
      BY <1>4, <1>6
    <3> QED  BY <3>1, <3>2, <3>3
  <2>2. CASE i = Depth
    <3>1. Top.kids \cap (erased \cup ActiveBlocks) = {}
      BY <1>2 DEF Visits
    <3> QED  BY <1>3, <2>2, <3>1
  <2>3. CASE i # Depth /\ i # Depth + 1
    <3>1. i \in 1 .. Depth - 1 /\ i \in 1 .. Depth /\ Depth \in 1 .. Depth
      BY <1>2, <2>3
    <3>2. frames[i].bb # Top.bb /\ frames[i].bb \in Blocks
      <4>1. frames[i] \in Activations
        BY <3>1, ElementOfSeq DEF Typed, Depth
      <4> QED  BY <1>2, <2>3, <3>1, <4>1, BlocksDiffer DEF Activations
    <3>3. frames[i].kids \subseteq tree[frames[i].bb]
      <4>1. frames[i].stage = "kids" /\ Progress(frames[i])
        BY <1>2, <3>1 DEF Chain
      <4> QED  BY <4>1 DEF Progress
    <3>4. c \notin tree[frames[i].bb]
      BY <1>4, <3>2 DEF TreeFacts
    <3> QED  BY <1>2, <3>1, <3>3, <3>4 DEF Visits
  <2> QED  BY <2>1, <2>2, <2>3
<1>8. ASSUME NEW i \in 1 .. Depth + 1
      PROVE  /\ i < Depth + 1 => tree[frames'[i].bb] \subseteq erased \cup frames'[i].kids \cup {frames'[i + 1].bb}
             /\ i = Depth + 1 => tree[frames'[i].bb] \subseteq erased \cup frames'[i].kids
  <2>1. CASE i = Depth + 1
    BY <1>2, <2>1
  <2>2. CASE i = Depth
    <3>1. tree[Top.bb] \subseteq erased \cup Top.kids
      BY <1>2 DEF Visits
    <3>2. frames'[i].bb = Top.bb /\ frames'[i + 1].bb = c
      BY <1>2, <2>2
    <3> QED  BY <1>2, <1>3, <2>2, <3>1, <3>2
  <2>3. CASE i # Depth /\ i # Depth + 1
    <3>1. i \in 1 .. Depth - 1 /\ i \in 1 .. Depth /\ i + 1 \in 1 .. Depth /\ i < Depth /\ i # Depth + 1
      BY <1>2, <2>3
    <3> QED  BY <1>2, <3>1 DEF Visits
  <2> QED  BY <2>1, <2>2, <2>3
<1>9. \A x \in (erased \cup ActiveBlocks \cup {c}) \ {Entry} : idom[x] \in erased \cup ActiveBlocks \cup {c}
  BY <1>4, <1>6 DEF Visits
<1>10. erased \cap (ActiveBlocks \cup {c}) = {}
  BY <1>6 DEF Visits
<1> QED  BY <1>1, <1>2, <1>4, <1>5, <1>7, <1>8, <1>9, <1>10 DEF Visits

LEMMA VisitsReturn ==
    ASSUME Code, Typed, Chain, Visits, TreeFacts, PathFacts, Leave
    PROVE  /\ Visits' /\ ActiveBlocks = ActiveBlocks' \cup {Top.bb} /\ Top.bb \notin ActiveBlocks'
           /\ erased' = erased \cup {Top.bb}
<1>1. /\ Depth' = Depth - 1 /\ Depth \in Nat \ {0} /\ Top = frames[Depth] /\ Top.kids = {}
      /\ \A i \in 1 .. Depth - 1 : frames'[i] = frames[i]
      /\ UNCHANGED <<succ, idom, tree>> /\ erased' = erased \cup {Top.bb}
  BY ReturnIs DEF domVars, Leave
<1>2. D!Reachable' = D!Reachable
  BY <1>1, PathsKept
<1>3. Depth \in 1 .. Depth /\ \A i \in 1 .. Depth - 1 : i \in 1 .. Depth /\ i # Depth
  BY <1>1
<1>4. ActiveBlocks = ActiveBlocks' \cup {Top.bb} /\ Top.bb \notin ActiveBlocks'
  <2>1. 1 .. Depth = 1 .. Depth - 1 \cup {Depth}
    BY <1>1
  <2>2. ActiveBlocks' = {frames[i].bb : i \in 1 .. Depth - 1}
    BY <1>1 DEF ActiveBlocks
  <2> QED  BY <1>1, <1>3, <2>1, <2>2, BlocksDiffer DEF ActiveBlocks
<1>5. erased' \cup ActiveBlocks' = erased \cup ActiveBlocks
  BY <1>1, <1>4
<1>6. Top.bb \in D!Reachable /\ tree[Top.bb] \subseteq erased /\ Top.bb \in Blocks
  BY <1>1, <1>3 DEF Visits, Chain, Progress, PathFacts
<1>7. erased' \subseteq D!Reachable /\ erased' \cap ActiveBlocks' = {}
  BY <1>1, <1>4, <1>6 DEF Visits
<1>8. \A c \in D!Reachable \ {Entry} : idom[c] \in erased' => c \in erased'
  BY <1>1, <1>6 DEF Visits, TreeFacts
<1>9. \A i \in 1 .. Depth - 1 : frames'[i].kids \cap (erased' \cup ActiveBlocks') = {}
  BY <1>1, <1>3, <1>5 DEF Visits
<1>10. ASSUME NEW i \in 1 .. Depth - 1
       PROVE  /\ i < Depth - 1 => tree[frames'[i].bb] \subseteq erased' \cup frames'[i].kids \cup {frames'[i + 1].bb}
              /\ i = Depth - 1 => tree[frames'[i].bb] \subseteq erased' \cup frames'[i].kids
  <2>1. /\ i < Depth /\ i \in 1 .. Depth
        /\ i < Depth - 1 => i + 1 \in 1 .. Depth - 1
        /\ i = Depth - 1 => i + 1 = Depth
    BY <1>1
  <2>2. tree[frames[i].bb] \subseteq erased \cup frames[i].kids \cup {frames[i + 1].bb}
    BY <2>1 DEF Visits
  <2> QED  BY <1>1, <2>1, <2>2
<1>11. /\ Entry \in erased' \cup ActiveBlocks'
       /\ \A c \in (erased' \cup ActiveBlocks') \ {Entry} : idom[c] \in erased' \cup ActiveBlocks'
  BY <1>5 DEF Visits
<1> QED  BY <1>1, <1>2, <1>4, <1>7, <1>8, <1>9, <1>10, <1>11 DEF Visits

LEMMA VisitsRename ==
    ASSUME Code, Typed, Chain, Visits, PathFacts, TreeFacts, Rename
    PROVE  Visits'
<1>1. ASSUME NEW f, Moved(f), f.kids = Top.kids, UNCHANGED erased PROVE Visits'
  BY <1>1, VisitsMove
<1>2. \A f : Moved(f) => frames # << >>
  BY DEF Moved
<1>3. frames # << >> => /\ [Top EXCEPT !.stage = "body", !.k = 1].kids = Top.kids
                        /\ [Top EXCEPT !.k = @ + 1].kids = Top.kids
                        /\ [Top EXCEPT !.stage = "kids"].kids = Top.kids
  BY TopIs DEF Activations
<1>4. CASE PushPhis
  <2>1. UNCHANGED erased
    BY <1>4 DEF PushPhis, irVars
  <2> QED  BY <1>1, <1>2, <1>3, <1>4, <2>1, PushPhisMoves
<1>5. CASE RenameLoad \/ RenameStore \/ RenameOther
  <2>1. PICK op : /\ AtInstr(op) /\ SetTop([Top EXCEPT !.k = @ + 1])
                  /\ UNCHANGED <<domVars, code, phis, erased>>
    BY <1>5 DEF RenameLoad, RenameStore, RenameOther, irVars
  <2> QED  BY <1>1, <1>2, <1>3, <2>1, InstrMoves
<1>6. CASE FillSuccPhis
  <2>1. UNCHANGED erased
    BY <1>6 DEF FillSuccPhis
  <2> QED  BY <1>1, <1>2, <1>3, <1>6, <2>1, FillMoves
<1>7. CASE Recurse
  <2>1. UNCHANGED <<domVars, code, erased>>
    BY <1>7 DEF Recurse, irVars
  <2> QED  BY <1>7, <2>1, RecurseIs, VisitsCall
<1>8. CASE Leave
  BY <1>8, VisitsReturn
<1> QED  BY <1>4, <1>5, <1>6, <1>7, <1>8 DEF Rename

LEMMA HasDefKept ==
    ASSUME UNCHANGED <<succ, phis, code>>
    PROVE  \A b, v : (HasDef(b, v))' <=> HasDef(b, v)
BY DEF HasDef, DefIn, StoredIn, StoresTo, D!Dom, D!ReachAvoiding, D!ClosedBut

(* The phis stay filled while the filled blocks and their operands' blocks *)
(* stay the same.                                                          *)
LEMMA FilledKept ==
    ASSUME Typed, FilledPhis, UNCHANGED <<domVars, code, phis>>, Filled' = Filled,
           \A p \in phis : /\ Len(phiArgs'[p]) = Len(phiArgs[p])
                           /\ \A i \in 1 .. Len(phiArgs[p]) : phiArgs'[p][i].bb = phiArgs[p][i].bb
    PROVE  FilledPhis'
<1>1. UNCHANGED <<succ, phis, code>>
  BY DEF domVars
<1>2. \A b, v : (HasDef(b, v))' <=> HasDef(b, v)
  BY <1>1, HasDefKept
<1>3. ASSUME NEW p \in phis
      PROVE  /\ \A i, j \in 1 .. Len(phiArgs'[p]) : phiArgs'[p][i].bb = phiArgs'[p][j].bb => i = j
             /\ {phiArgs'[p][i].bb : i \in 1 .. Len(phiArgs'[p])} =
                  {b \in Filled : p[1] \in ToSet(succ[b]) /\ HasDef(b, p[2])}
  <2> DEFINE n == Len(phiArgs[p])
  <2>1. Len(phiArgs'[p]) = n /\ \A i \in 1 .. n : phiArgs'[p][i].bb = phiArgs[p][i].bb
    BY <1>3
  <2>2. /\ \A i, j \in 1 .. n : phiArgs[p][i].bb = phiArgs[p][j].bb => i = j
        /\ {phiArgs[p][i].bb : i \in 1 .. n} =
             {b \in Filled : p[1] \in ToSet(succ[b]) /\ HasDef(b, p[2])}
    BY <1>3 DEF FilledPhis
  <2> HIDE DEF n
  <2>3. {phiArgs'[p][i].bb : i \in 1 .. n} = {phiArgs[p][i].bb : i \in 1 .. n}
    BY <2>1
  <2> QED  BY <2>1, <2>2, <2>3
<1>4. \A p \in phis : {b \in Filled' : p[1] \in ToSet(succ'[b]) /\ (HasDef(b, p[2]))'} =
                      {b \in Filled : p[1] \in ToSet(succ[b]) /\ HasDef(b, p[2])}
  BY <1>1, <1>2
<1>5. \A p \in phis' :
         /\ \A i, j \in 1 .. Len(phiArgs'[p]) : phiArgs'[p][i].bb = phiArgs'[p][j].bb => i = j
         /\ {phiArgs'[p][i].bb : i \in 1 .. Len(phiArgs'[p])} =
              {b \in Filled' : p[1] \in ToSet(succ'[b]) /\ (HasDef(b, p[2]))'}
  BY <1>1, <1>3, <1>4
<1> QED  BY <1>5 DEF FilledPhis

LEMMA FilledOfMove ==
    ASSUME Code, Typed, Chain, NEW f, Moved(f), UNCHANGED erased
    PROVE  /\ Top.stage # "kids" /\ f.stage # "kids" => Filled' = Filled
           /\ Top.stage # "kids" /\ f.stage = "kids" => Filled' = Filled \cup {Top.bb}
<1>1. /\ Depth' = Depth /\ Depth \in Nat \ {0} /\ Top = frames[Depth] /\ frames'[Depth] = f
      /\ \A i \in 1 .. Depth - 1 : frames'[i] = frames[i] /\ i \in 1 .. Depth /\ i # Depth
      /\ Depth \in 1 .. Depth /\ f.bb = Top.bb
  BY MoveIs, TopIs DEF Moved
<1> DEFINE F == {frames[i].bb : i \in {j \in 1 .. Depth : frames[j].stage = "kids"}}
           G == {frames'[i].bb : i \in {j \in 1 .. Depth : frames'[j].stage = "kids"}}
<1>2. Filled = erased \cup F /\ Filled' = erased \cup G
  BY <1>1 DEF Filled
<1>3. \A i \in 1 .. Depth : i = Depth \/ i \in 1 .. Depth - 1
  BY <1>1
<1>4. Top.stage # "kids" /\ f.stage # "kids" => G = F
  BY <1>1, <1>3
<1>5. Top.stage # "kids" /\ f.stage = "kids" => G = F \cup {Top.bb}
  BY <1>1, <1>3
<1> QED  BY <1>2, <1>4, <1>5

(* A block has a value of v on the stack at its end exactly if a           *)
(* definition of v dominates that end.                                     *)
LEMMA StackAtEnd ==
    ASSUME Code, Typed, Chain, Stacks, frames # << >>, NEW v \in Vars,
           Top.stage = "body", Top.k \notin DOMAIN code[Top.bb]
    PROVE  valStack[v] # << >> <=> HasDef(Top.bb, v)
<1>1. /\ Progress(Top) /\ Top.bb \in Blocks /\ Len(code[Top.bb]) \in Nat
      /\ DOMAIN code[Top.bb] = 1 .. Len(code[Top.bb])
  BY TopPlace
<1>2. Top.k = Len(code[Top.bb]) + 1
  BY <1>1 DEF Progress
<1> DEFINE p == <<Top.bb, Top.k>>
<1>3. p[1] = Top.bb /\ p[2] = Top.k
  OBVIOUS
<1> HIDE DEF p
<1>4. valStack[v] # << >> <=> \E q \in DefPoints(v) : Before(q, p)
  <2>1. Under(Depth, v) = {q \in DefPoints(v) : Before(q, p)}
    BY UnderIsBefore DEF p
  <2> QED  BY <2>1, StackIs
<1>5. ASSUME NEW q \in DefPoints(v), Before(q, p) PROVE HasDef(Top.bb, v)
  <2>1. q[1] \in DefIn(v)
    BY DefPointsIs
  <2>2. D!Dom(q[1], Top.bb)
    BY <1>3, <1>5 DEF Before, D!StrictDom, D!Dom
  <2> QED  BY <2>1, <2>2 DEF HasDef
<1>6. ASSUME NEW d \in DefIn(v), D!Dom(d, Top.bb) PROVE \E q \in DefPoints(v) : Before(q, p)
  <2>1. PICK q \in DefPoints(v) : q[1] = d
    BY DefPointsIs
  <2>2. CASE d = Top.bb
    <3>1. q[2] \in 0 .. Len(code[Top.bb])
      BY <2>1, <2>2, DefPointsIs
    <3>2. q[2] < Top.k
      BY <1>1, <1>2, <3>1
    <3> QED  BY <1>3, <2>1, <2>2, <3>2 DEF Before
  <2>3. CASE d # Top.bb
    BY <1>3, <1>6, <2>1, <2>3 DEF Before, D!StrictDom
  <2> QED  BY <2>2, <2>3
<1> QED  BY <1>4, <1>5, <1>6 DEF HasDef

LEMMA FilledByFill ==
    ASSUME Code, Typed, Chain, Stacks, Visits, FilledPhis, FillSuccPhis
    PROVE  FilledPhis'
<1> DEFINE b == Top.bb
<1>1. /\ frames # << >> /\ Top.stage = "body" /\ Top.k \notin DOMAIN code[b] /\ UNCHANGED erased
      /\ phiArgs' = [p \in phis |->
           IF p[1] \in ToSet(succ[b]) /\ valStack[p[2]] # << >>
           THEN Append(phiArgs[p], [val |-> Last(valStack[p[2]]), bb |-> b])
           ELSE phiArgs[p]]
  BY DEF FillSuccPhis, Active
<1> DEFINE f == [Top EXCEPT !.stage = "kids"]
<1>2. Moved(f) /\ Top \in Activations /\ b \in Blocks
  BY <1>1, FillMoves, TopPlace
<1>3. f.stage = "kids"
  BY <1>2 DEF Activations
<1> HIDE DEF f
<1>4. Filled' = Filled \cup {b} /\ UNCHANGED <<succ, phis, code>>
  BY <1>1, <1>2, <1>3, FilledOfMove DEF Moved, domVars
<1>5. b \notin Filled
  <2>1. Depth \in 1 .. Depth /\ Top = frames[Depth]
    BY <1>1, TopIs
  <2>2. b \notin erased
    BY <2>1 DEF Visits, ActiveBlocks
  <2>3. \A i \in 1 .. Depth : frames[i].bb = b => i = Depth
    BY <2>1, BlocksDiffer
  <2> QED  BY <1>1, <2>1, <2>2, <2>3 DEF Filled
<1>6. ASSUME NEW p \in phis
      PROVE  /\ \A i, j \in 1 .. Len(phiArgs'[p]) : phiArgs'[p][i].bb = phiArgs'[p][j].bb => i = j
             /\ {phiArgs'[p][i].bb : i \in 1 .. Len(phiArgs'[p])} =
                  {x \in Filled \cup {b} : p[1] \in ToSet(succ[x]) /\ HasDef(x, p[2])}
  <2> DEFINE n == Len(phiArgs[p])
             A == {phiArgs[p][i].bb : i \in 1 .. n}
  <2>1. phiArgs[p] \in Seq(Pairs) /\ p[2] \in Vars /\ n \in Nat
    BY LenProperties DEF Typed
  <2>2. /\ \A i, j \in 1 .. n : phiArgs[p][i].bb = phiArgs[p][j].bb => i = j
        /\ A = {x \in Filled : p[1] \in ToSet(succ[x]) /\ HasDef(x, p[2])}
    BY DEF FilledPhis
  <2>3. valStack[p[2]] # << >> <=> HasDef(b, p[2])
    BY <1>1, <2>1, StackAtEnd
  <2>4. CASE p[1] \in ToSet(succ[b]) /\ valStack[p[2]] # << >>
    <3> DEFINE a == [val |-> Last(valStack[p[2]]), bb |-> b]
    <3>1. phiArgs'[p] = Append(phiArgs[p], a)
      BY <1>1, <2>4
    <3>2. a \in Pairs /\ a.bb = b
      BY <1>2, <2>1, <2>4, StackIs DEF Pairs
    <3> HIDE DEF a
    <3>3. /\ Len(phiArgs'[p]) = n + 1 /\ phiArgs'[p][n + 1] = a
          /\ \A i \in 1 .. n : phiArgs'[p][i] = phiArgs[p][i]
      BY <2>1, <3>1, <3>2, AppendProperties
    <3>4. \A i \in 1 .. n : phiArgs[p][i].bb # b
      BY <1>5, <2>2
    <3> HIDE DEF n
    <3>5. 1 .. n + 1 = 1 .. n \cup {n + 1}
      BY <2>1
    <3>6. {phiArgs'[p][i].bb : i \in 1 .. n + 1} = A \cup {b}
      BY <3>2, <3>3, <3>5
    <3>7. \A i, j \in 1 .. n + 1 : phiArgs'[p][i].bb = phiArgs'[p][j].bb => i = j
      BY <2>2, <3>2, <3>3, <3>4, <3>5
    <3> HIDE DEF A
    <3> QED  BY <2>2, <2>3, <2>4, <3>3, <3>6, <3>7
  <2>5. CASE ~(p[1] \in ToSet(succ[b]) /\ valStack[p[2]] # << >>)
    <3>1. phiArgs'[p] = phiArgs[p]
      BY <1>1, <2>5
    <3> QED  BY <2>2, <2>3, <2>5, <3>1
  <2> QED  BY <2>4, <2>5
<1>7. \A x, v : (HasDef(x, v))' <=> HasDef(x, v)
  BY <1>4, HasDefKept
<1>8. \A p \in phis : {x \in Filled' : p[1] \in ToSet(succ'[x]) /\ (HasDef(x, p[2]))'} =
                      {x \in Filled \cup {b} : p[1] \in ToSet(succ[x]) /\ HasDef(x, p[2])}
  BY <1>4, <1>7
<1>9. \A p \in phis' :
         /\ \A i, j \in 1 .. Len(phiArgs'[p]) : phiArgs'[p][i].bb = phiArgs'[p][j].bb => i = j
         /\ {phiArgs'[p][i].bb : i \in 1 .. Len(phiArgs'[p])} =
              {x \in Filled' : p[1] \in ToSet(succ'[x]) /\ (HasDef(x, p[2]))'}
  BY <1>4, <1>6, <1>8
<1> QED  BY <1>9 DEF FilledPhis

LEMMA FilledRename ==
    ASSUME Code, Typed, Chain, Stacks, Visits, FilledPhis, PathFacts, TreeFacts, Rename
    PROVE  FilledPhis'
<1>1. \A f : Moved(f) => /\ frames # << >> /\ UNCHANGED <<domVars, code, phis>>
  BY DEF Moved
<1>2. frames # << >> => /\ [Top EXCEPT !.stage = "body", !.k = 1].stage = "body"
                        /\ [Top EXCEPT !.k = @ + 1].stage = Top.stage
  BY TopIs DEF Activations
<1>3. ASSUME UNCHANGED <<domVars, code, phis, phiArgs>>, Filled' = Filled PROVE FilledPhis'
  BY <1>3, FilledKept
<1>4. CASE PushPhis
  <2>1. UNCHANGED <<erased, phiArgs>> /\ Top.stage = "enter"
    BY <1>4 DEF PushPhis, irVars, Active
  <2>2. Moved([Top EXCEPT !.stage = "body", !.k = 1])
    BY <1>4, PushPhisMoves
  <2>3. [Top EXCEPT !.stage = "body", !.k = 1].stage = "body"
    BY <1>1, <1>2, <2>2
  <2>4. Filled' = Filled
    BY <2>1, <2>2, <2>3, FilledOfMove
  <2> QED  BY <1>1, <1>3, <2>1, <2>2, <2>4
<1>5. CASE RenameLoad \/ RenameStore \/ RenameOther
  <2>1. PICK op : /\ AtInstr(op) /\ SetTop([Top EXCEPT !.k = @ + 1])
                  /\ UNCHANGED <<domVars, code, phis, erased>>
    BY <1>5 DEF RenameLoad, RenameStore, RenameOther, irVars
  <2>2. Moved([Top EXCEPT !.k = @ + 1]) /\ Top.stage = "body"
    BY <2>1, InstrMoves
  <2>3. [Top EXCEPT !.k = @ + 1].stage = "body"
    BY <1>1, <1>2, <2>2
  <2>4. Filled' = Filled
    BY <2>1, <2>2, <2>3, FilledOfMove
  <2>5. \A p \in phis : /\ Len(phiArgs'[p]) = Len(phiArgs[p])
                        /\ \A i \in 1 .. Len(phiArgs[p]) : phiArgs'[p][i].bb = phiArgs[p][i].bb
    <3>1. CASE UNCHANGED phiArgs
      BY <3>1
    <3>2. CASE ~UNCHANGED phiArgs
      <4>1. RenameLoad
        BY <1>5, <3>2 DEF RenameStore, RenameOther, irVars
      <4>2. PICK v \in Vars : /\ Last(valStack[v]) \in Val
                              /\ ReplaceUses(Inst(Top.bb, Top.k), Last(valStack[v]))
        BY <3>2, <4>1, LoadStep
      <4> QED  BY <4>2, ReplaceUsesIs
    <3> QED  BY <3>1, <3>2
  <2> QED  BY <2>1, <2>4, <2>5, FilledKept
<1>6. CASE FillSuccPhis
  BY <1>6, FilledByFill
<1>7. CASE Recurse
  <2>1. UNCHANGED <<domVars, code, phis, phiArgs, erased>>
    BY <1>7 DEF Recurse, irVars
  <2>2. PICK c : Called(c)
    BY <1>7, RecurseIs
  <2>3. /\ Depth \in Nat /\ Depth' = Depth + 1 /\ frames'[Depth + 1].stage = "enter"
        /\ \A i \in 1 .. Depth : frames'[i].bb = frames[i].bb /\ frames'[i].stage = frames[i].stage
    BY <2>2, TopIs DEF Called, Frame
  <2>4. 1 .. Depth + 1 = 1 .. Depth \cup {Depth + 1}
    BY <2>3
  <2>5. Filled' = Filled
    BY <2>1, <2>3, <2>4 DEF Filled
  <2> QED  BY <1>3, <2>1, <2>5
<1>8. CASE Leave
  <2>1. UNCHANGED <<domVars, code, phis, phiArgs>> /\ erased' = erased \cup {Top.bb}
    BY <1>8 DEF Leave
  <2>2. /\ Depth' = Depth - 1 /\ Depth \in Nat \ {0} /\ Top = frames[Depth] /\ Top.stage = "kids"
        /\ \A i \in 1 .. Depth - 1 : frames'[i] = frames[i]
    BY <1>8, ReturnIs
  <2>3. 1 .. Depth = 1 .. Depth - 1 \cup {Depth}
    BY <2>2
  <2>4. Filled' = Filled
    BY <2>1, <2>2, <2>3 DEF Filled
  <2> QED  BY <1>3, <2>1, <2>4
<1> QED  BY <1>4, <1>5, <1>6, <1>7, <1>8 DEF Rename

-----------------------------------------------------------------------------
(* The invariant of the pass up to the execution.                          *)

(* rename read an empty stack.                                             *)
EmptyRead ==
    phase = "ub" =>
       /\ frames # << >> /\ Top.k - 1 \in DOMAIN code[Top.bb]
       /\ IsOp(<<Top.bb, Top.k - 1>>, "load")
       /\ valStack[Instr(<<Top.bb, Top.k - 1>>).var] = << >>

Renaming ==
    /\ DP!DomInv /\ phase \in {"dominators", "rename", "ub", "run", "exit"}
    /\ Code /\ Typed /\ Chain /\ Stacks /\ Dominance /\ EmptyRead
    /\ phase = "dominators" => frames = << >> /\ erased = {} /\ phis = {}
    /\ phase # "dominators" => pc = "done" /\ Placed /\ Visits /\ FilledPhis
    /\ phase \in {"run", "exit"} => frames = << >>

LEMMA NoFrames ==
    ASSUME frames = << >>
    PROVE  /\ Depth = 0 /\ Chain
           /\ \A v \in Vars : Under(Depth, v) = {}
           /\ (\A v \in Vars : Len(valStack[v]) = 0) /\ (\A v \in Vars : valStack[v] = << >>) => Stacks
<1>1. Depth = 0
  BY EmptySeq DEF Depth
<1>2. 1 .. Depth = {}
  BY <1>1
<1>3. \A v \in Vars : Under(Depth, v) = {}
  BY <1>2 DEF Under
<1> QED  BY <1>1, <1>2, <1>3, FS_EmptySet DEF Chain, Stacks, StackOf

LEMMA RenamingInit ==
    ASSUME Init
    PROVE  Renaming
<1>1. DP!DomInv
  BY AnalysisInit DEF Init
<1>2. Code /\ Typed
  BY TypedInit
<1>3. /\ phase = "dominators" /\ frames = << >> /\ erased = {} /\ phis = {}
      /\ \A v \in Vars : valStack[v] = << >>
  BY DEF Init
<1>4. Chain /\ Stacks
  BY <1>3, EmptySeq, NoFrames
<1>5. Dominance
  <2>1. opnd = [p \in {q \in Points : ~IsOp(q, "load")} |->
                  IF Instr(p).arg = Prev THEN Inst(p[1], p[2] - 1) ELSE Instr(p).arg]
    BY DEF Init
  <2>2. ASSUME NEW p \in DOMAIN opnd PROVE D!Dom(DefBlock(opnd[p]), p[1])
    <3>1. p \in Points /\ opnd[p] = IF Instr(p).arg = Prev THEN Inst(p[1], p[2] - 1) ELSE Instr(p).arg
      BY <2>1
    <3>2. CASE Instr(p).arg = Prev
      BY <3>1, <3>2 DEF DefBlock, Inst, D!Dom
    <3>3. CASE Instr(p).arg # Prev
      <4>1. Instr(p).arg \in Operands
        BY <1>2, <3>1, PointIs, InstructionsOf DEF Instr
      <4>2. opnd[p][1] = "const"
        BY <3>1, <3>3, <4>1 DEF Operands
      <4> QED  BY <4>2, EntryDominates DEF DefBlock
    <3> QED  BY <3>2, <3>3
  <2> QED  BY <1>3, <2>2 DEF Dominance
<1> QED  BY <1>1, <1>2, <1>3, <1>4, <1>5 DEF Renaming, EmptyRead

LEMMA RenamingAnalyse ==
    ASSUME Renaming, Analyse
    PROVE  Renaming'
<1>1. /\ phase = "dominators" /\ D!Step
      /\ UNCHANGED <<code, opnd, erased, phis, phiArgs, phase, valStack, keys, frames>>
  BY DEF Analyse, irVars, renameVars
<1>2. DP!DomInv'
  BY <1>1, AnalysisStep DEF Renaming
<1>3. UNCHANGED succ
  BY <1>1 DEF D!Step, D!VisitSucc, D!VisitDone, D!StartIdom, D!IdomBlock, D!IdomSweepDone,
      D!FrontierBlock, D!CreateTree, D!graphVars
<1>4. Code' /\ Typed'
  BY <1>1, CodeKept DEF Renaming, Typed
<1>5. frames' = << >> /\ \A v \in Vars : valStack'[v] = << >>
  <2>1. \A v \in Vars : valStack[v] \in Seq(Val) /\ Len(valStack[v]) = 0
    BY <1>1, NoFrames, FS_EmptySet DEF Renaming, Typed, Stacks, StackOf
  <2> QED  BY <1>1, <2>1, EmptySeq DEF Renaming
<1>6. Chain' /\ Stacks'
  <2>1. Depth' = 0 /\ 1 .. Depth' = {}
    BY <1>5, EmptySeq DEF Depth
  <2>2. \A v \in Vars : (Under(Depth, v))' = {}
    BY <2>1 DEF Under
  <2>3. \A v \in Vars : Len(valStack'[v]) = 0
    BY <1>5, EmptySeq
  <2> QED  BY <1>5, <2>1, <2>2, <2>3, FS_EmptySet DEF Chain, Stacks, StackOf
<1>7. Dominance'
  BY <1>1, <1>3, SameDominance DEF Renaming, Dominance
<1> QED  BY <1>1, <1>2, <1>4, <1>6, <1>7 DEF Renaming, EmptyRead

LEMMA RenamingStart ==
    ASSUME Renaming, GeneratePhi
    PROVE  Renaming'
<1>1. /\ phase = "dominators" /\ pc = "done" /\ phase' = "rename"
      /\ frames' = <<Frame(Entry)>>
      /\ phis' = UNION {{<<b, v>> : b \in PhiBlocks(v)} : v \in Vars}
      /\ phiArgs' = [p \in phis' |-> << >>]
      /\ UNCHANGED <<domVars, code, opnd, erased, valStack, keys>>
  BY DEF GeneratePhi
<1>2. PathFacts /\ TreeFacts /\ FrontierFacts
  BY <1>1, Analysed DEF Renaming
<1>3. DP!DomInv' /\ UNCHANGED <<succ, tree, df, idom, pc>>
  BY <1>1, AnalysisStep DEF Renaming, domVars
<1>4. Code' /\ Typed'
  BY <1>2, TypedPhis DEF Renaming
<1>5. /\ Frame(Entry).bb = Entry /\ Frame(Entry).k = 0 /\ Frame(Entry).stage = "enter"
      /\ Frame(Entry).kids = tree[Entry] /\ Frame(Entry) \in Activations
  BY <1>2, EntryAssumption, FrameIs
<1>6. Depth' = 1 /\ frames'[1] = Frame(Entry) /\ 1 .. 1 = {1}
  BY <1>1, <1>5 DEF Depth
<1>7. ASSUME NEW d, (D!Dom(d, Entry))' PROVE d = Entry
  <2>1. D!Dom(d, Entry)
    BY <1>3, <1>7 DEF D!Dom, D!ReachAvoiding, D!ClosedBut
  <2> QED  BY <1>2, <2>1 DEF PathFacts, D!StrictDom
<1>8. Chain'
  <2>1. Progress(frames[1])'
    BY <1>2, <1>3, <1>5, <1>6, PathsKept DEF Progress, PathFacts
  <2>2. \A d : (D!Dom(d, frames[1].bb))' => \E j \in 1 .. 1 : frames'[j].bb = d
    BY <1>5, <1>6, <1>7
  <2> QED  BY <1>5, <1>6, <2>1, <2>2 DEF Chain
<1>9. \A v \in Vars : valStack[v] = << >>
  <2>1. \A v \in Vars : valStack[v] \in Seq(Val) /\ Len(valStack[v]) = 0
    BY <1>1, NoFrames, FS_EmptySet DEF Renaming, Typed, Stacks, StackOf
  <2> QED  BY <2>1, EmptySeq
<1>10. Stacks'
  <2> SUFFICES ASSUME NEW v \in Vars PROVE StackOf(v)'
    BY DEF Stacks
  <2>1. {k \in StoresTo(Entry, v) : k < 0} = {}
    <3>1. Len(code[Entry]) \in Nat /\ \A k \in StoresTo(Entry, v) : k \in 1 .. Len(code[Entry])
      BY EntryAssumption, LenProperties DEF Renaming, Code, StoresTo
    <3> QED  BY <3>1
  <2>2. (PushedBy(frames[1], v))' = {}
    BY <1>1, <1>5, <1>6, <2>1 DEF PushedBy, StoresTo
  <2>3. (Under(Depth, v))' = {}
    <3>1. (Under(Depth, v))' = UNION {(PushedBy(frames[i], v))' : i \in {1}}
      BY <1>6 DEF Under
    <3> QED  BY <2>2, <3>1
  <2>4. valStack'[v] = << >> /\ Len(valStack'[v]) = 0 /\ 1 .. 0 = {}
    BY <1>1, <1>9, EmptySeq
  <2> QED  BY <2>3, <2>4, FS_EmptySet DEF StackOf
<1>11. Dominance'
  <2>1. \A p \in DOMAIN opnd' : D!Dom(DefBlock(opnd'[p]), p[1])
    BY <1>1 DEF Renaming, Dominance
  <2>2. \A p \in phis' : 1 .. Len(phiArgs'[p]) = {}
    BY <1>1
  <2> QED  BY <1>3, <2>1, <2>2, SameDominance
<1>12. Placed'
  <2>1. ASSUME NEW v \in Vars PROVE {b \in Blocks : <<b, v>> \in phis'} = PhiBlocks(v)
    <3>1. PhiBlocks(v) \subseteq Blocks
      BY DEF PhiBlocks
    <3>2. \A b : <<b, v>> \in phis' <=> b \in PhiBlocks(v)
      BY <1>1
    <3> QED  BY <3>1, <3>2
  <2>2. \A v \in Vars : (PhiBlocks(v))' = PhiBlocks(v)
    BY <1>1, <1>3 DEF PhiBlocks, StoredIn, StoresTo
  <2> QED  BY <2>1, <2>2 DEF Placed
<1>13. ActiveBlocks' = {Entry} /\ erased' = {}
  BY <1>1, <1>5, <1>6 DEF ActiveBlocks, Renaming
<1>14. Visits'
  <2>1. Entry \in D!Reachable /\ D!Reachable' = D!Reachable /\ Entry \in Blocks
    BY <1>2, <1>3, PathsKept, EntryAssumption DEF PathFacts
  <2>2. \A c \in D!Reachable \ {Entry} : c \notin erased' /\ idom[c] \notin erased'
    BY <1>13
  <2>3. frames'[1].kids \cap {Entry} = {} /\ tree[frames'[1].bb] \subseteq frames'[1].kids
    BY <1>2, <1>5, <1>6, <2>1 DEF TreeFacts
  <2> QED  BY <1>3, <1>6, <1>13, <2>1, <2>2, <2>3 DEF Visits
<1>15. FilledPhis'
  <2>1. Filled' = {}
    BY <1>5, <1>6, <1>13 DEF Filled
  <2>2. \A p \in phis' : 1 .. Len(phiArgs'[p]) = {}
    BY <1>1
  <2> QED  BY <2>1, <2>2 DEF FilledPhis
<1> QED  BY <1>1, <1>3, <1>4, <1>8, <1>10, <1>11, <1>12, <1>14, <1>15 DEF Renaming, EmptyRead

LEMMA RenamingRename ==
    ASSUME Renaming, Rename
    PROVE  Renaming'
<1>1. phase = "rename" /\ phase' \in {"rename", "ub"} /\ UNCHANGED <<domVars, code, phis>>
  BY DEF Rename, PushPhis, RenameLoad, RenameStore, RenameOther, FillSuccPhis, Recurse, Leave,
         AtInstr, Active, irVars
<1>2. PathFacts /\ TreeFacts /\ FrontierFacts
  BY <1>1, Analysed DEF Renaming
<1>3. DP!DomInv' /\ UNCHANGED <<succ, df, pc>>
  BY <1>1, AnalysisStep DEF Renaming, domVars
<1>4. Code /\ Typed /\ Chain /\ Stacks /\ Dominance /\ Placed /\ Visits /\ FilledPhis /\ pc = "done"
  BY <1>1 DEF Renaming
<1>5. Code' /\ Typed' /\ Chain' /\ Stacks' /\ Dominance' /\ Visits' /\ FilledPhis'
  BY <1>2, <1>4, TypedRename, ChainRename, StacksRename, DominanceRename, VisitsRename, FilledRename
<1>6. Placed'
  BY <1>1, <1>3, <1>4 DEF Placed, PhiBlocks, StoredIn, StoresTo
<1>7. ASSUME phase' = "ub"
      PROVE  /\ frames' # << >> /\ (Top.k - 1 \in DOMAIN code[Top.bb])'
             /\ (IsOp(<<Top.bb, Top.k - 1>>, "load"))'
             /\ (valStack[Instr(<<Top.bb, Top.k - 1>>).var] = << >>)'
  <2>1. RenameLoad
    BY <1>1, <1>7 DEF Rename, PushPhis, RenameStore, RenameOther, FillSuccPhis, Recurse, Leave
  <2>2. /\ AtInstr("load") /\ SetTop([Top EXCEPT !.k = @ + 1]) /\ UNCHANGED valStack
        /\ frames # << >> /\ valStack[Instr(<<Top.bb, Top.k>>).var] = << >>
        /\ IsOp(<<Top.bb, Top.k>>, "load")
    BY <1>1, <1>7, <2>1 DEF RenameLoad, AtInstr, Active
  <2>3. Moved([Top EXCEPT !.k = @ + 1]) /\ Top.k \in DOMAIN code[Top.bb]
    BY <1>1, <1>4, <2>2, InstrMoves
  <2>4. Top' = [Top EXCEPT !.k = @ + 1] /\ frames' # << >>
    BY <1>4, <2>3, MoveIs
  <2>5. Top'.bb = Top.bb /\ Top'.k = Top.k + 1 /\ Top.k \in Nat
    BY <1>4, <2>2, <2>4, TopIs DEF Activations
  <2>6. Top'.k - 1 = Top.k
    BY <2>5
  <2> QED  BY <1>1, <2>2, <2>3, <2>4, <2>5, <2>6 DEF IsOp, Instr
<1> QED  BY <1>1, <1>3, <1>4, <1>5, <1>6, <1>7 DEF Renaming, EmptyRead

(* The execution leaves the compiler's state alone.                        *)
LEMMA RenamingKept ==
    ASSUME Renaming, UNCHANGED <<domVars, code, irVars, renameVars>>,
           \/ UNCHANGED phase
           \/ phase = "rename" /\ frames = << >> /\ phase' = "run"
           \/ phase = "run" /\ phase' = "exit"
    PROVE  Renaming'
<1>1. /\ UNCHANGED <<domVars, code, opnd, erased, phis, phiArgs, valStack, keys, frames>>
      /\ UNCHANGED <<succ, idom, tree, df, pc>>
  BY DEF irVars, renameVars, domVars
<1>2. /\ Depth' = Depth /\ Points' = Points /\ (frames # << >> => Top' = Top)
      /\ \A p, op : (IsOp(p, op))' <=> IsOp(p, op)
      /\ \A n, v : (Under(n, v))' = Under(n, v)
      /\ \A v : (Under(Depth, v))' = Under(Depth, v)
  BY <1>1 DEF Depth, Points, Top, Last, IsOp, Instr, Under, PushedBy, PhisOf, StoresTo
<1>3. /\ \A a, b : (D!Dom(a, b))' <=> D!Dom(a, b)
      /\ \A a, b : (D!StrictDom(a, b))' <=> D!StrictDom(a, b)
      /\ D!Reachable' = D!Reachable
      /\ \A b, v : (HasDef(b, v))' <=> HasDef(b, v)
  BY <1>1, PathsKept, HasDefKept
<1>4. DP!DomInv'
  BY <1>1, AnalysisStep DEF Renaming
<1>5. Code' /\ Typed'
  BY <1>1, CodeKept DEF Renaming, Typed
<1>6. Chain'
  <2>1. \A i \in 1 .. Depth :
           /\ Progress(frames[i])'
           /\ \A j \in 1 .. Depth : j < i => (D!StrictDom(frames[j].bb, frames[i].bb))'
           /\ \A d : (D!Dom(d, frames[i].bb))' => \E j \in 1 .. i : frames[j].bb = d
    <3> SUFFICES ASSUME NEW i \in 1 .. Depth
                 PROVE  /\ Progress(frames[i])'
                        /\ \A j \in 1 .. Depth : j < i => (D!StrictDom(frames[j].bb, frames[i].bb))'
                        /\ \A d : (D!Dom(d, frames[i].bb))' => \E j \in 1 .. i : frames[j].bb = d
      OBVIOUS
    <3>1. /\ Progress(frames[i])
          /\ \A j \in 1 .. Depth : j < i => D!StrictDom(frames[j].bb, frames[i].bb)
          /\ \A d : D!Dom(d, frames[i].bb) => \E j \in 1 .. i : frames[j].bb = d
      BY DEF Renaming, Chain
    <3>2. Progress(frames[i])'
      BY <1>1, <1>3, <3>1 DEF Progress
    <3>3. \A j \in 1 .. Depth : j < i => (D!StrictDom(frames[j].bb, frames[i].bb))'
      BY <1>1, <3>1 DEF D!StrictDom, D!Dom, D!ReachAvoiding, D!ClosedBut
    <3>4. \A d : (D!Dom(d, frames[i].bb))' => \E j \in 1 .. i : frames[j].bb = d
      BY <1>1, <3>1 DEF D!Dom, D!ReachAvoiding, D!ClosedBut
    <3> QED  BY <3>2, <3>3, <3>4
  <2> QED  BY <1>1, <1>2, <2>1 DEF Renaming, Chain
<1>7. Stacks'
  <2> SUFFICES ASSUME NEW v \in Vars PROVE StackOf(v)'
    BY DEF Stacks
  <2>1. StackOf(v)
    BY DEF Renaming, Stacks
  <2>2. ASSUME NEW i \in 1 .. Depth, NEW m \in 1 .. Len(valStack[v]), m <= Cardinality(Under(i, v))
        PROVE  (D!Dom(DefBlock(valStack[v][m]), frames[i].bb))'
    <3>1. D!Dom(DefBlock(valStack[v][m]), frames[i].bb)
      BY <2>1, <2>2 DEF StackOf
    <3> QED  BY <1>1, <3>1 DEF D!Dom, D!ReachAvoiding, D!ClosedBut, DefBlock
  <2> QED  BY <1>1, <1>2, <2>1, <2>2 DEF StackOf
<1>8. Dominance'
  BY <1>1, SameDominance DEF Renaming, Dominance
<1>9. Placed => Placed'
  BY <1>1 DEF Placed, PhiBlocks, StoredIn, StoresTo
<1>10. ActiveBlocks' = ActiveBlocks /\ Filled' = Filled
  BY <1>1, <1>2 DEF ActiveBlocks, Filled
<1>11. Visits => Visits'
  BY <1>1, <1>2, <1>3, <1>10 DEF Visits
<1>12. FilledPhis => FilledPhis'
  BY <1>1, <1>10, FilledKept DEF Renaming
<1>13. EmptyRead'
  BY <1>1, <1>2 DEF Renaming, EmptyRead, IsOp, Instr, Top, Last
<1> QED  BY <1>1, <1>4, <1>5, <1>6, <1>7, <1>8, <1>9, <1>11, <1>12, <1>13 DEF Renaming

LEMMA RenamingStep ==
    ASSUME Renaming, [Next]_vars
    PROVE  Renaming'
<1>1. CASE Analyse
  BY <1>1, RenamingAnalyse
<1>2. CASE GeneratePhi
  BY <1>2, RenamingStart
<1>3. CASE Rename
  BY <1>3, RenamingRename
<1>4. CASE StartRun
  BY <1>4, RenamingKept DEF StartRun
<1>5. CASE Run
  BY <1>5, RenamingKept DEF Run, RunLoad, RunAdd, RunStore, RunPrint, RunBranch, RunExit, RunOn
<1>6. CASE UNCHANGED vars
  BY <1>6, RenamingKept DEF vars
<1> QED  BY <1>1, <1>2, <1>3, <1>4, <1>5, <1>6 DEF Next, Compile

(* The inductive invariant of the pass, for every function: the            *)
(* activations of rename are the dominators of the block it is in, the     *)
(* stacks hold one dominating value per definition pushed, and the phis    *)
(* are filled from the blocks that have been renamed.                      *)
THEOREM RenamingInvariant == Spec => []Renaming
<1>1. Init => Renaming
  BY RenamingInit
<1>2. Renaming /\ [Next]_vars => Renaming'
  BY RenamingStep
<1> QED  BY <1>1, <1>2, PTL DEF Spec

(* The stacks of Mem2Reg hold the definitions of the activations on the    *)
(* path from the entry, one for one, in every state of rename.             *)
THEOREM StacksMatch == Spec => []StackMatchesFrames
<1>1. Renaming => StackMatchesFrames
  <2> SUFFICES ASSUME Renaming, NEW v \in Vars
               PROVE  Len(valStack[v]) =
                        Cardinality(UNION {PushedBy(frames[i], v) : i \in DOMAIN frames})
    BY DEF StackMatchesFrames
  <2>1. DOMAIN frames = 1 .. Depth
    BY LenProperties DEF Renaming, Typed, Depth
  <2> QED  BY <2>1 DEF Renaming, Stacks, StackOf, Under
<1> QED  BY <1>1, RenamingInvariant, PTL

(* SSA: what is on a stack, in an operand or in a phi was computed in a    *)
(* block that dominates the use.                                           *)
THEOREM Ssa == Spec => []DefsDominateUses
<1>1. Renaming => DefsDominateUses
  <2> SUFFICES ASSUME Renaming PROVE DefsDominateUses
    OBVIOUS
  <2>1. ASSUME frames # << >>, NEW v \in Vars, NEW val \in ToSet(valStack[v])
        PROVE  D!Dom(DefBlock(val), Top.bb)
    <3>1. valStack[v] \in Seq(Val)
      BY DEF Renaming, Typed
    <3>2. PICK m \in 1 .. Len(valStack[v]) : val = valStack[v][m]
      BY <2>1, <3>1, LenProperties DEF ToSet
    <3>3. Depth \in 1 .. Depth /\ Top = frames[Depth] /\ Len(valStack[v]) \in Nat
      BY <2>1, <3>1, TopIs, LenProperties DEF Renaming
    <3>4. m <= Cardinality(Under(Depth, v))
      BY <3>2, <3>3 DEF Renaming, Stacks, StackOf
    <3> QED  BY <3>2, <3>3, <3>4 DEF Renaming, Stacks, StackOf
  <2>2. ASSUME NEW p \in phis, NEW a \in ToSet(phiArgs[p]) PROVE D!Dom(DefBlock(a.val), a.bb)
    <3>1. phiArgs[p] \in Seq(Pairs)
      BY DEF Renaming, Typed
    <3>2. PICK i \in 1 .. Len(phiArgs[p]) : a = phiArgs[p][i]
      BY <2>2, <3>1, LenProperties DEF ToSet
    <3> QED  BY <3>2 DEF Renaming, Dominance
  <2> QED  BY <2>1, <2>2 DEF DefsDominateUses, Renaming, Dominance
<1> QED  BY <1>1, RenamingInvariant, PTL

-----------------------------------------------------------------------------
LEMMA AllRenamed ==
    ASSUME Renaming, TreeFacts, phase \in {"run", "exit"}
    PROVE  D!Reachable \subseteq erased
<1>1. Depth = 0 /\ Visits
  BY EmptySeq DEF Renaming, Depth
<1>2. ActiveBlocks = {}
  <2>1. 1 .. Depth = {}
    BY <1>1
  <2> QED  BY <2>1 DEF ActiveBlocks
<1> QED  BY <1>1, <1>2 DEF Visits, TreeFacts

(* Every phi the entry reaches has at most one operand per edge and at     *)
(* least one in all, and none is missing from an edge a store can run      *)
(* before.                                                                 *)
THEOREM PhisComplete == Spec => []PhiOperandsComplete
<1>1. ASSUME Renaming, phase \in {"run", "exit"}, NEW p \in phis, p[1] \in D!Reachable
      PROVE  LET from == [i \in DOMAIN phiArgs[p] |-> phiArgs[p][i].bb]
                 preds == {b \in Blocks : p[1] \in ToSet(succ[b])}
             IN  /\ IsInjective(from) /\ ToSet(from) \subseteq preds
                 /\ from # << >>
                 /\ \A b \in preds \ ToSet(from) : ~StoredBefore(b, Len(code[b]) + 1, p[2])
  <2> DEFINE from == [i \in DOMAIN phiArgs[p] |-> phiArgs[p][i].bb]
             preds == {b \in Blocks : p[1] \in ToSet(succ[b])}
             v == p[2]
  <2>1. /\ PathFacts /\ TreeFacts /\ FrontierFacts /\ Code /\ Typed /\ Placed /\ FilledPhis /\ Visits
    BY <1>1, Analysed DEF Renaming
  <2>2. phiArgs[p] \in Seq(Pairs) /\ DOMAIN phiArgs[p] = 1 .. Len(phiArgs[p]) /\ v \in Vars
        /\ p = <<p[1], p[2]>> /\ p[1] \in Blocks
    BY <1>1, <2>1, LenProperties DEF Typed
  <2>3. D!Reachable \subseteq erased /\ erased \subseteq D!Reachable /\ Depth = 0
    BY <1>1, <2>1, AllRenamed, EmptySeq DEF Visits, Renaming, Depth
  <2>4. Filled = D!Reachable
    <3>1. 1 .. Depth = {}
      BY <2>3
    <3> QED  BY <2>3, <3>1 DEF Filled
  <2>5. ToSet(from) = {b \in D!Reachable : p[1] \in ToSet(succ[b]) /\ HasDef(b, v)}
    <3>1. ToSet(from) = {phiArgs[p][i].bb : i \in 1 .. Len(phiArgs[p])}
      BY <2>2 DEF ToSet
    <3> QED  BY <1>1, <2>1, <2>4, <3>1 DEF FilledPhis
  <2>6. IsInjective(from)
    <3>1. \A i, j \in 1 .. Len(phiArgs[p]) : phiArgs[p][i].bb = phiArgs[p][j].bb => i = j
      BY <1>1, <2>1 DEF FilledPhis
    <3> QED  BY <2>2, <3>1 DEF IsInjective
  <2>7. ToSet(from) \subseteq preds
    BY <2>1, <2>5 DEF PathFacts
  <2>8. ToSet(from) # {}
    <3>1. p[1] \in PhiBlocks(v)
      BY <1>1, <2>1, <2>2 DEF Placed
    <3>2. PICK d \in StoredIn(v) \cup PhiBlocks(v) : p[1] \in df[d]
      BY <2>1, <3>1, PhiBlocksClosed
    <3>3. d \in DefIn(v) /\ d \in Blocks
      BY <2>1, <2>2, <3>2 DEF DefIn, Placed, StoredIn, PhiBlocks
    <3>4. PICK b \in D!Reachable : p[1] \in ToSet(succ[b]) /\ D!Dom(d, b)
      BY <1>1, <2>1, <3>2, <3>3 DEF FrontierFacts
    <3> QED  BY <2>5, <3>3, <3>4 DEF HasDef
  <2>9. from # << >>
    <3>1. PICK b : b \in ToSet(from)
      BY <2>8
    <3>2. DOMAIN from # {}
      BY <3>1 DEF ToSet
    <3>3. DOMAIN << >> = {}
      BY EmptySeq, LenProperties
    <3> HIDE DEF from
    <3> QED  BY <3>2, <3>3
  <2>10. ASSUME NEW b \in preds \ ToSet(from), StoredBefore(b, Len(code[b]) + 1, v) PROVE FALSE
    <3>1. b \in D!Reachable /\ b \in Blocks
      BY <1>1, <2>1 DEF PathFacts
    <3>2. ~HasDef(b, v)
      BY <2>5, <3>1, <2>10
    <3>3. D!Dom(b, b)
      BY DEF D!Dom
    <3>4. CASE b \in Reaches(v)
      <4>1. HasDefAtEntry(b, v)
        BY <2>1, <2>2, <3>1, <3>4, Covered
      <4> QED  BY <3>1, <3>2, <3>3, <4>1 DEF HasDefAtEntry, HasDef, DefIn, D!StrictDom
    <3>5. CASE \E j \in StoresTo(b, v) : j < Len(code[b]) + 1
      BY <3>1, <3>2, <3>3, <3>5 DEF HasDef, DefIn, StoredIn
    <3> QED  BY <2>10, <3>4, <3>5 DEF StoredBefore
  <2> QED  BY <2>6, <2>7, <2>9, <2>10
<1>2. Renaming => PhiOperandsComplete
  BY <1>1 DEF PhiOperandsComplete
<1> QED  BY <1>2, RenamingInvariant, PTL

(* An empty stack is read only by a load of a variable no store can have   *)
(* initialised.                                                            *)
THEOREM EmptyReadsAreUninitialised == Spec => []UBOnlyUninitialised
<1>1. Renaming => UBOnlyUninitialised
  <2> SUFFICES ASSUME Renaming, phase = "ub",
                      StoredBefore(Top.bb, Top.k - 1, Instr(<<Top.bb, Top.k - 1>>).var)
               PROVE  FALSE
    BY DEF UBOnlyUninitialised
  <2> DEFINE v == Instr(<<Top.bb, Top.k - 1>>).var
             b == Top.bb
             p == <<Top.bb, Top.k>>
  <2>1. /\ PathFacts /\ TreeFacts /\ FrontierFacts /\ Code /\ Typed /\ Chain /\ Placed /\ Stacks
        /\ frames # << >> /\ Top.k - 1 \in DOMAIN code[Top.bb]
        /\ IsOp(<<Top.bb, Top.k - 1>>, "load") /\ valStack[v] = << >>
    BY Analysed DEF Renaming, EmptyRead
  <2>2. b \in Blocks /\ b \in D!Reachable /\ Top.k \in Nat
    BY <2>1, TopPlace DEF Progress, Activations
  <2>3. v \in Vars /\ Top.k - 1 \in Nat \ {0}
    BY <2>1, <2>2, InstructionsOf DEF IsOp, Instr
  <2>4. p[1] = b /\ p[2] = Top.k
    OBVIOUS
  <2> HIDE DEF v
  <2>5. \A q \in DefPoints(v) : ~Before(q, p)
    <3>1. Under(Depth, v) = {}
      BY <2>1, <2>3, StackIs
    <3> QED  BY <2>1, <2>3, <3>1, UnderIsBefore
  <2> HIDE DEF p
  <2>6. CASE b \in Reaches(v)
    <3>1. HasDefAtEntry(b, v)
      BY <2>1, <2>2, <2>3, <2>6, Covered
    <3>2. CASE <<b, v>> \in phis
      <4>1. <<b, 0>> \in DefPoints(v) /\ <<b, 0>>[1] = b /\ <<b, 0>>[2] = 0
        BY <2>1, <2>2, <3>2, DefPointsIs
      <4>2. 0 < Top.k
        BY <2>2, <2>3
      <4> QED  BY <2>4, <2>5, <4>1, <4>2 DEF Before
    <3>3. ASSUME NEW d \in DefIn(v), D!StrictDom(d, b) PROVE FALSE
      <4>1. PICK q \in DefPoints(v) : q[1] = d
        BY <2>1, DefPointsIs
      <4> QED  BY <2>4, <2>5, <3>3, <4>1 DEF Before
    <3> QED  BY <3>1, <3>2, <3>3 DEF HasDefAtEntry
  <2>7. CASE \E j \in StoresTo(b, v) : j < Top.k - 1
    <3>1. PICK j \in StoresTo(b, v) : j < Top.k - 1
      BY <2>7
    <3>2. j \in Nat
      BY <2>1, TopPlace
    <3>3. j < Top.k
      BY <2>2, <3>1, <3>2
    <3>4. <<b, j>> \in DefPoints(v) /\ <<b, j>>[1] = b /\ <<b, j>>[2] = j
      BY <2>1, <2>2, DefPointsIs
    <3> QED  BY <2>4, <2>5, <3>3, <3>4 DEF Before
  <2> QED  BY <2>6, <2>7 DEF StoredBefore, v
<1> QED  BY <1>1, RenamingInvariant, PTL

-----------------------------------------------------------------------------
(***************************************************************************)
(* What the promoted function does: the order of the definitions, what     *)
(* stacks, operands and phis hold of them while rename runs, and from it   *)
(* that the promoted function prints what the original prints.             *)
(***************************************************************************)

(* The order of definitions, and the latest one before a point.            *)
ValAt(v, q) == IF q[2] = 0 THEN Phi(q[1], v) ELSE opnd[q]
End(b) == <<b, Len(code[b]) + 1>>

Latest(v, p, q) ==
    /\ q \in DefPoints(v) /\ Before(q, p)
    /\ \A r \in DefPoints(v) : Before(r, p) => r = q \/ Before(r, q)

LEMMA BeforeTransitive ==
    ASSUME PathFacts, NEW p, NEW q, NEW r, p[1] \in D!Reachable,
           p[2] \in Int, q[2] \in Int, r[2] \in Int, Before(r, q), Before(q, p)
    PROVE  Before(r, p)
<1>1. CASE q[1] = p[1] /\ q[2] < p[2]
  <2>1. CASE D!StrictDom(r[1], q[1])
    BY <1>1, <2>1 DEF Before
  <2>2. CASE r[1] = q[1] /\ r[2] < q[2]
    <3>1. r[1] = p[1] /\ r[2] < p[2]
      BY <1>1, <2>2
    <3> QED  BY <3>1 DEF Before
  <2> QED  BY <2>1, <2>2 DEF Before
<1>2. CASE D!StrictDom(q[1], p[1])
  <2>1. CASE r[1] = q[1]
    BY <1>2, <2>1 DEF Before
  <2>2. CASE D!StrictDom(r[1], q[1])
    <3>1. D!Dom(r[1], p[1])
      BY <1>2, <2>2 DEF PathFacts, D!StrictDom
    <3>2. r[1] # p[1]
      BY <1>2, <2>2 DEF PathFacts, D!StrictDom
    <3> QED  BY <3>1, <3>2 DEF Before, D!StrictDom
  <2> QED  BY <2>1, <2>2 DEF Before
<1> QED  BY <1>1, <1>2 DEF Before

LEMMA BeforeIrreflexive ==
    ASSUME NEW p, p[2] \in Int
    PROVE  ~Before(p, p)
BY DEF Before, D!StrictDom

LEMMA BeforeAsymmetric ==
    ASSUME PathFacts, NEW p, NEW q, p[1] \in D!Reachable, p[2] \in Int, q[2] \in Int, Before(q, p)
    PROVE  ~Before(p, q)
BY BeforeTransitive, BeforeIrreflexive

LEMMA ReachedBefore ==
    ASSUME PathFacts, NEW p, NEW q, p[1] \in D!Reachable, Before(q, p)
    PROVE  q[1] \in D!Reachable
BY DEF Before, PathFacts, D!StrictDom

LEMMA LatestUnique ==
    ASSUME Code, PathFacts, NEW v, NEW p, p[1] \in D!Reachable,
           NEW q, Latest(v, p, q), NEW r, Latest(v, p, r)
    PROVE  q = r
<1>1. q \in DefPoints(v) /\ r \in DefPoints(v) /\ Before(q, p) /\ Before(r, p)
  BY DEF Latest
<1>2. q[2] \in Int /\ r[2] \in Int
  BY <1>1, DefPointsIs
<1>3. q[1] \in D!Reachable
  BY <1>1, ReachedBefore
<1>4. q = r \/ Before(q, r)
  BY <1>1 DEF Latest
<1>5. r = q \/ Before(r, q)
  BY <1>1 DEF Latest
<1>6. ASSUME Before(q, r), Before(r, q) PROVE FALSE
  BY <1>2, <1>3, <1>6, BeforeAsymmetric
<1> QED  BY <1>4, <1>5, <1>6

LEMMA OrderKept ==
    ASSUME UNCHANGED succ
    PROVE  \A p, q : (Before(q, p))' <=> Before(q, p)
BY DEF Before, D!StrictDom, D!Dom, D!ReachAvoiding, D!ClosedBut

LEMMA LatestKept ==
    ASSUME UNCHANGED <<succ, code, phis>>
    PROVE  \A v, p, q : (Latest(v, p, q))' <=> Latest(v, p, q)
<1>1. \A v : DefPoints(v)' = DefPoints(v)
  BY DEF DefPoints, StoresTo
<1>2. \A p, q : (Before(q, p))' <=> Before(q, p)
  BY OrderKept
<1> QED  BY <1>1, <1>2 DEF Latest

-----------------------------------------------------------------------------
(* What the stacks hold: the m-th value is that of the m-th definition.    *)
Prior(n, v, q) == {r \in Under(n, v) : r = q \/ Before(r, q)}
Holds(v) ==
    \A m \in 1 .. Len(valStack[v]) : \E q \in Under(Depth, v) :
        Cardinality(Prior(Depth, v, q)) = m /\ valStack[v][m] = ValAt(v, q)
Content == \A v \in Vars : Holds(v)

(* The value read on a stack is that of the latest definition.             *)
LEMMA ReadsLatest ==
    ASSUME Code, Typed, Chain, Stacks, Content, frames # << >>, NEW v \in Vars, valStack[v] # << >>
    PROVE  \E q : Latest(v, <<Top.bb, Top.k>>, q) /\ Last(valStack[v]) = ValAt(v, q)
<1> DEFINE n == Len(valStack[v])
           p == <<Top.bb, Top.k>>
           U == Under(Depth, v)
<1>1. n \in 1 .. n /\ Last(valStack[v]) = valStack[v][n] /\ n = Cardinality(U)
  BY StackIs DEF Stacks, StackOf
<1>2. PICK q \in U : Cardinality(Prior(Depth, v, q)) = n /\ valStack[v][n] = ValAt(v, q)
  BY <1>1 DEF Content, Holds
<1>3. IsFiniteSet(U)
  <2>1. Depth \in 0 .. Depth
    BY TopIs
  <2> QED  BY <2>1, UnderIs
<1>4. Prior(Depth, v, q) \in SUBSET U
  BY DEF Prior
<1>5. Prior(Depth, v, q) = U
  <2> HIDE DEF n, U
  <2> QED  BY <1>1, <1>2, <1>3, <1>4, FS_Subset
<1>6. U = {r \in DefPoints(v) : Before(r, p)}
  BY UnderIsBefore
<1>7. Latest(v, p, q)
  BY <1>2, <1>5, <1>6 DEF Latest, Prior
<1> QED  BY <1>1, <1>2, <1>7

LEMMA HoldsKept ==
    ASSUME UNCHANGED succ, NEW v \in Vars, Holds(v), valStack'[v] = valStack[v],
           (Under(Depth, v))' = Under(Depth, v),
           \A q \in Under(Depth, v) : (ValAt(v, q))' = ValAt(v, q)
    PROVE  Holds(v)'
<1>1. \A q : (Prior(Depth, v, q))' = Prior(Depth, v, q)
  BY OrderKept DEF Prior
<1>2. ASSUME NEW m \in 1 .. Len(valStack'[v])
      PROVE  \E q \in (Under(Depth, v))' :
                (Cardinality(Prior(Depth, v, q)))' = m /\ valStack'[v][m] = (ValAt(v, q))'
  <2>1. PICK q \in Under(Depth, v) : Cardinality(Prior(Depth, v, q)) = m /\ valStack[v][m] = ValAt(v, q)
    BY <1>2 DEF Holds
  <2> QED  BY <1>1, <2>1
<1> QED  BY <1>2 DEF Holds

LEMMA HoldsPush ==
    ASSUME Code, Typed, Chain, Stacks, PathFacts, frames # << >>, UNCHANGED <<succ, opnd>>,
           NEW v \in Vars, Holds(v), NEW x \in Val, valStack'[v] = Append(valStack[v], x),
           NEW q, q[1] = Top.bb, q[2] = Top.k, q \notin Under(Depth, v), x = ValAt(v, q),
           (Under(Depth, v))' = Under(Depth, v) \cup {q}
    PROVE  Holds(v)'
<1> DEFINE n == Len(valStack[v])
           U == Under(Depth, v)
<1>1. valStack[v] \in Seq(Val) /\ n \in Nat /\ n = Cardinality(U)
  BY StackIs DEF Stacks, StackOf
<1>2. /\ Len(valStack'[v]) = n + 1 /\ valStack'[v][n + 1] = x
      /\ \A i \in 1 .. n : valStack'[v][i] = valStack[v][i]
  BY <1>1, AppendProperties
<1>3. Top.bb \in D!Reachable /\ q[2] \in Nat
  BY TopPlace DEF Progress, Activations
<1>4. ASSUME NEW r \in U PROVE Before(r, q) /\ ~Before(q, r) /\ r # q
  <2>1. r \in DefPoints(v) /\ Before(r, <<Top.bb, Top.k>>)
    BY <1>4, UnderIsBefore
  <2>2. Before(r, q)
    BY <2>1 DEF Before
  <2>3. r[2] \in Int
    BY <2>1, DefPointsIs
  <2> QED  BY <1>3, <1>4, <2>2, <2>3, BeforeAsymmetric
<1>5. IsFiniteSet(U)
  <2>1. Depth \in 0 .. Depth
    BY TopIs
  <2> QED  BY <2>1, UnderIs
<1>6. \A r, s : (Before(r, s))' <=> Before(r, s)
  BY OrderKept
<1>7. (Prior(Depth, v, q))' = U \cup {q}
  BY <1>4, <1>6 DEF Prior
<1>8. (Cardinality(Prior(Depth, v, q)))' = n + 1
  <2> HIDE DEF n, U
  <2>1. Cardinality(U \cup {q}) = Cardinality(U) + 1
    BY <1>5, FS_AddElement DEF U
  <2> QED  BY <1>1, <1>7, <2>1
<1>9. \A r \in U : (Prior(Depth, v, r))' = Prior(Depth, v, r)
  BY <1>4, <1>6 DEF Prior
<1>10. \A r : (ValAt(v, r))' = ValAt(v, r)
  BY DEF ValAt
<1>11. ASSUME NEW m \in 1 .. n + 1
       PROVE  \E r \in (Under(Depth, v))' :
                 (Cardinality(Prior(Depth, v, r)))' = m /\ valStack'[v][m] = (ValAt(v, r))'
  <2>1. CASE m = n + 1
    BY <1>2, <1>8, <1>10, <2>1
  <2>2. CASE m # n + 1
    <3>1. m \in 1 .. n
      BY <1>1, <2>2
    <3>2. PICK r \in U : Cardinality(Prior(Depth, v, r)) = m /\ valStack[v][m] = ValAt(v, r)
      BY <3>1 DEF Holds
    <3> QED  BY <1>2, <1>9, <1>10, <3>1, <3>2
  <2> QED  BY <2>1, <2>2
<1> QED  BY <1>2, <1>11 DEF Holds

LEMMA HoldsReturn ==
    ASSUME Code, Typed, Chain, Stacks, PathFacts, Leave, NEW v \in Vars, Holds(v)
    PROVE  Holds(v)'
<1> DEFINE U == Under(Depth, v)
           W == Under(Depth - 1, v)
<1>1. /\ (Under(Depth, v))' = W /\ UNCHANGED <<succ, opnd>> /\ frames # << >>
      /\ Top.bb \in D!Reachable
  BY ReturnIs, TopPlace DEF Leave, Active, domVars, Progress
<1>2. /\ Len(valStack'[v]) = Cardinality(W) /\ Len(valStack'[v]) <= Len(valStack[v])
      /\ Len(valStack'[v]) \in Nat /\ Len(valStack[v]) \in Nat
      /\ \A i \in 1 .. Len(valStack'[v]) : valStack'[v][i] = valStack[v][i]
  BY PoppedIs, LenProperties DEF Typed
<1>3. /\ U = W \cup PushedBy(Top, v) /\ IsFiniteSet(W) /\ IsFiniteSet(PushedBy(Top, v))
      /\ \A q \in PushedBy(Top, v) : q[1] = Top.bb
  BY <1>1, TopPushes
<1>4. ASSUME NEW r \in W PROVE D!StrictDom(r[1], Top.bb)
  <2>1. Depth - 1 \in 0 .. Depth /\ Depth \in 1 .. Depth /\ Top = frames[Depth] /\ Depth \in Nat
    BY <1>1, TopIs
  <2>2. PICK j \in 1 .. Depth - 1 : frames[j].bb = r[1]
    BY <1>4, <2>1, UnderIs
  <2>3. j \in 1 .. Depth /\ j < Depth
    BY <2>1
  <2> QED  BY <2>1, <2>2, <2>3 DEF Chain
<1>5. \A r, s : (Before(r, s))' <=> Before(r, s)
  BY <1>1, OrderKept
<1>6. ASSUME NEW m \in 1 .. Len(valStack'[v])
      PROVE  \E r \in W : (Cardinality(Prior(Depth, v, r)))' = m /\ valStack'[v][m] = (ValAt(v, r))'
  <2>1. m \in 1 .. Len(valStack[v]) /\ m <= Cardinality(W) /\ Cardinality(W) \in Nat
    BY <1>2
  <2>2. PICK q \in U : Cardinality(Prior(Depth, v, q)) = m /\ valStack[v][m] = ValAt(v, q)
    BY <2>1 DEF Holds
  <2>3. q \in W
    <3> SUFFICES ASSUME q \notin W PROVE FALSE
      OBVIOUS
    <3>1. q[1] = Top.bb
      BY <1>3, <2>2
    <3>2. W \cup {q} \subseteq Prior(Depth, v, q)
      BY <1>3, <1>4, <2>2, <3>1 DEF Prior, Before
    <3>3. IsFiniteSet(Prior(Depth, v, q))
      <4>1. IsFiniteSet(W \cup PushedBy(Top, v))
        BY <1>3, FS_Union
      <4>2. Prior(Depth, v, q) \in SUBSET (W \cup PushedBy(Top, v))
        BY <1>3 DEF Prior
      <4> QED  BY <4>1, <4>2, FS_Subset
    <3> HIDE DEF W
    <3>4. Cardinality(W \cup {q}) = Cardinality(W) + 1
      BY <1>3, FS_AddElement
    <3>5. W \cup {q} \in SUBSET Prior(Depth, v, q)
      BY <3>2
    <3>6. Cardinality(W \cup {q}) <= Cardinality(Prior(Depth, v, q))
      BY <3>3, <3>5, FS_Subset
    <3> QED  BY <2>1, <2>2, <3>4, <3>6
  <2>4. \A r \in PushedBy(Top, v) : r # q /\ ~Before(r, q)
    <3>1. D!StrictDom(q[1], Top.bb)
      BY <1>4, <2>3
    <3> QED  BY <1>1, <1>3, <3>1 DEF Before, PathFacts, D!StrictDom
  <2>5. (Prior(Depth, v, q))' = Prior(Depth, v, q)
    BY <1>1, <1>3, <1>5, <2>4 DEF Prior
  <2>6. (ValAt(v, q))' = ValAt(v, q)
    BY <1>1 DEF ValAt
  <2> QED  BY <1>2, <2>2, <2>3, <2>5, <2>6
<1> QED  BY <1>1, <1>6 DEF Holds

-----------------------------------------------------------------------------
(* Where a value is computed; what is used is computed before.             *)
DefAt(val) == <<val[2], IF val[1] = "phi" THEN 0 ELSE val[3]>>

OperandsBefore ==
    \A p \in DOMAIN opnd :
        (p[1] \in D!Reachable /\ opnd[p][1] # "const") => Before(DefAt(opnd[p]), p)

LEMMA DefIs ==
    ASSUME Code, Typed, NEW v \in Vars, NEW q \in DefPoints(v)
    PROVE  /\ ValAt(v, q) \in Val
           /\ q[2] # 0 => q \in DOMAIN opnd /\ ValAt(v, q) = opnd[q]
<1>1. q = <<q[1], q[2]>> /\ q[1] \in Blocks /\ (q[2] # 0 => q[2] \in StoresTo(q[1], v))
  BY DefPointsIs
<1>2. ASSUME q[2] # 0 PROVE q \in DOMAIN opnd /\ ValAt(v, q) = opnd[q]
  <2>1. q[2] \in DOMAIN code[q[1]] /\ code[q[1]][q[2]].op = "store"
    BY <1>1, <1>2 DEF StoresTo
  <2>2. <<q[1], q[2]>> \in DOMAIN opnd
    BY <1>1, <2>1, InstructionsOf
  <2> QED  BY <1>1, <1>2, <2>2 DEF ValAt
<1>3. ASSUME q[2] = 0 PROVE ValAt(v, q) \in Val
  BY <1>1, <1>3 DEF ValAt, Phi, Val
<1> QED  BY <1>2, <1>3 DEF Typed

(* A value a definition before p has is not computed at p.                 *)
LEMMA NotYet ==
    ASSUME Code, Typed, PathFacts, OperandsBefore, NEW p, p[1] \in D!Reachable, p[2] \in Int,
           NEW v \in Vars, NEW q \in DefPoints(v), Before(q, p)
    PROVE  ValAt(v, q) # Inst(p[1], p[2])
<1>1. q[1] \in D!Reachable /\ q[2] \in Int
  BY ReachedBefore, DefPointsIs
<1>2. CASE q[2] = 0
  BY <1>2 DEF ValAt, Phi, Inst
<1>3. CASE q[2] # 0
  <2> SUFFICES ASSUME opnd[q] = Inst(p[1], p[2]) PROVE FALSE
    BY <1>3, DefIs
  <2>1. q \in DOMAIN opnd /\ opnd[q][1] = "inst" /\ DefAt(opnd[q]) = <<p[1], p[2]>>
    BY <1>3, DefIs DEF Inst, DefAt
  <2>2. Before(<<p[1], p[2]>>, q)
    BY <1>1, <2>1 DEF OperandsBefore
  <2>3. Before(p, q)
    BY <2>2 DEF Before
  <2> QED  BY <1>1, <2>3, BeforeAsymmetric
<1> QED  BY <1>2, <1>3

(* What the last definition before p has was computed before p.            *)
LEMMA ReadBefore ==
    ASSUME Code, Typed, PathFacts, OperandsBefore, NEW p, p[1] \in D!Reachable, p[2] \in Int,
           NEW v \in Vars, NEW q \in DefPoints(v), Before(q, p), ValAt(v, q)[1] # "const"
    PROVE  Before(DefAt(ValAt(v, q)), p) /\ DefAt(ValAt(v, q))[2] \in Int
<1> DEFINE x == ValAt(v, q)
<1>1. q[1] \in D!Reachable /\ q[2] \in Int /\ q = <<q[1], q[2]>>
  BY ReachedBefore, DefPointsIs
<1>2. DefAt(x)[2] \in Int
  <2>1. x \in Val
    BY DefIs
  <2> HIDE DEF x
  <2> QED  BY <2>1 DEF DefAt, Val
<1>3. CASE q[2] = 0
  <2>1. DefAt(x) = q
    BY <1>1, <1>3 DEF ValAt, Phi, DefAt
  <2> QED  BY <1>2, <2>1
<1>4. CASE q[2] # 0
  <2>1. q \in DOMAIN opnd /\ x = opnd[q]
    BY <1>4, DefIs
  <2>2. Before(DefAt(x), q)
    BY <1>1, <2>1 DEF OperandsBefore
  <2> HIDE DEF x
  <2> QED  BY <1>1, <1>2, <2>2, BeforeTransitive DEF x
<1> QED  BY <1>3, <1>4

-----------------------------------------------------------------------------
(* A load in full: nothing to read, or the latest definition's value.      *)
TopAt == <<Top.bb, Top.k>>
Read(v) ==
    /\ v \in Vars /\ v = code[Top.bb][Top.k].var
    /\ Top.k \in DOMAIN code[Top.bb] /\ code[Top.bb][Top.k].op = "load"
    /\ Top.bb \in Blocks /\ Top.bb \in D!Reachable /\ Top.k \in Nat
    /\ Moved([Top EXCEPT !.k = @ + 1]) /\ UNCHANGED <<succ, code, phis, erased, valStack>>
    /\ \A w : (Under(Depth, w))' = Under(Depth, w)
    /\ \/ UNCHANGED <<opnd, phiArgs>> /\ \A q : ~Latest(v, TopAt, q)
       \/ \E q : /\ Latest(v, TopAt, q)
                 /\ ReplaceUses(Inst(Top.bb, Top.k), ValAt(v, q))

LEMMA ReadIs ==
    ASSUME Code, Typed, Chain, Stacks, Content, PathFacts, RenameLoad
    PROVE  \E v : Read(v)
<1>1. PICK v : v = Instr(<<Top.bb, Top.k>>).var
  OBVIOUS
<1>2. /\ frames # << >> /\ AtInstr("load") /\ SetTop([Top EXCEPT !.k = @ + 1])
      /\ UNCHANGED <<domVars, succ, code, phis, erased, valStack>>
  BY DEF RenameLoad, AtInstr, Active, domVars
<1>3. /\ Moved([Top EXCEPT !.k = @ + 1]) /\ Top.bb \in Blocks
      /\ Top.k \in DOMAIN code[Top.bb] /\ code[Top.bb][Top.k].op = "load"
  BY <1>2, InstrMoves
<1>4. v \in Vars /\ v = code[Top.bb][Top.k].var
  BY <1>1, <1>3, InstructionsOf DEF Instr
<1>5. \A w : (Under(Depth, w))' = Under(Depth, w)
  BY <1>2, OtherUnder
<1>6. Top.bb \in D!Reachable /\ Top.k \in Nat
  BY <1>2, TopPlace DEF Progress, Activations
<1>7. CASE valStack[v] = << >>
  <2>1. UNCHANGED <<opnd, phiArgs>>
    BY <1>1, <1>4, <1>7 DEF RenameLoad
  <2>2. Under(Depth, v) = {}
    BY <1>4, <1>7, StackIs
  <2>3. \A q : ~Latest(v, TopAt, q)
    BY <1>2, <1>4, <2>2, UnderIsBefore DEF Latest, TopAt
  <2> QED  BY <1>2, <1>3, <1>4, <1>5, <1>6, <2>1, <2>3 DEF Read
<1>8. CASE valStack[v] # << >>
  <2>1. v \in keys
    BY <1>4, <1>8 DEF Stacks, StackOf
  <2>2. ReplaceUses(Inst(Top.bb, Top.k), Last(valStack[v]))
    BY <1>1, <1>8, <2>1 DEF RenameLoad
  <2>3. PICK q : Latest(v, <<Top.bb, Top.k>>, q) /\ Last(valStack[v]) = ValAt(v, q)
    BY <1>2, <1>4, <1>8, ReadsLatest
  <2> QED  BY <1>2, <1>3, <1>4, <1>5, <1>6, <2>2, <2>3 DEF Read, TopAt
<1> QED  BY <1>7, <1>8

(* What the replacement of a load does to the values of definitions.       *)
LEMMA ReadValues ==
    ASSUME Code, Typed, NEW b, NEW k, NEW x \in Val, ReplaceUses(Inst(b, k), x),
           NEW v \in Vars, NEW q \in DefPoints(v)
    PROVE  (ValAt(v, q))' = IF ValAt(v, q) = Inst(b, k) THEN x ELSE ValAt(v, q)
<1> DEFINE old == Inst(b, k)
<1>1. \A p \in DOMAIN opnd : opnd'[p] = IF opnd[p] = old THEN x ELSE opnd[p]
  BY ReplaceUsesIs
<1>2. CASE q[2] = 0
  BY <1>2 DEF ValAt, Phi, Inst
<1>3. CASE q[2] # 0
  <2> HIDE DEF old
  <2>1. q \in DOMAIN opnd /\ ValAt(v, q) = opnd[q]
    BY <1>3, DefIs
  <2>2. (ValAt(v, q))' = opnd'[q]
    BY <1>3 DEF ValAt
  <2> QED  BY <1>1, <2>1, <2>2 DEF old
<1> QED  BY <1>2, <1>3

-----------------------------------------------------------------------------
(* Renaming keeps what stacks, operands and phis hold.                     *)
LEMMA BeforeRename ==
    ASSUME Code, Typed, Chain, Stacks, Content, PathFacts, OperandsBefore, Rename
    PROVE  OperandsBefore'
<1>1. UNCHANGED succ
  BY DEF Rename, PushPhis, RenameLoad, RenameStore, RenameOther, FillSuccPhis, Recurse, Leave, domVars
<1>2. D!Reachable' = D!Reachable /\ \A p, q : (Before(q, p))' <=> Before(q, p)
  BY <1>1, PathsKept, OrderKept
<1>3. ASSUME UNCHANGED opnd PROVE OperandsBefore'
  BY <1>2, <1>3 DEF OperandsBefore, DefAt
<1>4. CASE RenameLoad
  <2>1. PICK v : Read(v)
    BY <1>4, ReadIs
  <2>2. CASE UNCHANGED <<opnd, phiArgs>>
    BY <1>3, <2>2
  <2>3. CASE ~UNCHANGED <<opnd, phiArgs>>
    <3>1. PICK q : Latest(v, TopAt, q) /\ ReplaceUses(Inst(Top.bb, Top.k), ValAt(v, q))
      BY <2>1, <2>3 DEF Read
    <3>2. /\ v \in Vars /\ Top.bb \in D!Reachable /\ Top.k \in Int
          /\ q \in DefPoints(v) /\ Before(q, TopAt)
      BY <2>1, <3>1 DEF Read, Latest
    <3>3. TopAt[1] = Top.bb /\ TopAt[2] = Top.k
      BY DEF TopAt
    <3>4. PICK x, old : x = ValAt(v, q) /\ old = Inst(Top.bb, Top.k)
      OBVIOUS
    <3>5. x \in Val
      BY <3>2, <3>4, DefIs
    <3>6. /\ DOMAIN opnd' = DOMAIN opnd
          /\ \A p \in DOMAIN opnd : opnd'[p] = IF opnd[p] = old THEN x ELSE opnd[p]
      BY <3>1, <3>4, <3>5, ReplaceUsesIs
    <3>7. old[1] = "inst" /\ DefAt(old) = TopAt
      BY <3>4 DEF Inst, DefAt, TopAt
    <3>8. x[1] # "const" => Before(DefAt(x), TopAt) /\ DefAt(x)[2] \in Int
      BY <3>2, <3>3, <3>4, ReadBefore
    <3>9. ASSUME NEW p \in DOMAIN opnd, p[1] \in D!Reachable, opnd'[p][1] # "const"
          PROVE  Before(DefAt(opnd'[p]), p)
      <4>1. CASE opnd[p] # old
        BY <3>6, <3>9, <4>1 DEF OperandsBefore
      <4>2. CASE opnd[p] = old
        <5>1. opnd'[p] = x /\ Before(TopAt, p)
          BY <3>6, <3>7, <3>9, <4>2 DEF OperandsBefore
        <5>2. p[2] \in Int
          <6>1. p \in Points
            BY <3>9 DEF Code
          <6> QED  BY <6>1, PointIs, InstructionsOf
        <5>3. DefAt(x)[2] \in Int /\ Before(DefAt(x), TopAt) /\ TopAt[2] \in Int
          BY <3>2, <3>3, <3>8, <3>9, <5>1
        <5> QED  BY <3>9, <5>1, <5>2, <5>3, BeforeTransitive
      <4> QED  BY <4>1, <4>2
    <3> QED  BY <1>2, <3>6, <3>9 DEF OperandsBefore, DefAt
  <2> QED  BY <2>2, <2>3
<1>5. CASE PushPhis \/ RenameStore \/ RenameOther \/ FillSuccPhis \/ Recurse \/ Leave
  BY <1>3, <1>5 DEF PushPhis, RenameStore, RenameOther, FillSuccPhis, Recurse, Leave, irVars
<1> QED  BY <1>4, <1>5 DEF Rename

LEMMA ContentRename ==
    ASSUME Code, Typed, Chain, Stacks, Content, PathFacts, TreeFacts, OperandsBefore, Rename
    PROVE  Content'
<1> SUFFICES ASSUME NEW v \in Vars PROVE Holds(v)'
  BY DEF Content
<1>0. UNCHANGED succ /\ Holds(v)
  BY DEF Rename, PushPhis, RenameLoad, RenameStore, RenameOther, FillSuccPhis, Recurse, Leave, domVars,
         Content
<1>1. ASSUME UNCHANGED <<opnd, valStack>>, (Under(Depth, v))' = Under(Depth, v) PROVE Holds(v)'
  <2>1. \A q : (ValAt(v, q))' = ValAt(v, q)
    BY <1>1 DEF ValAt
  <2> QED  BY <1>0, <1>1, <2>1, HoldsKept
<1>2. CASE PushPhis
  <2>1. /\ frames # << >> /\ UNCHANGED opnd /\ Top.stage = "enter"
        /\ valStack' = [x \in Vars |-> IF x \in PhisOf(Top.bb)
                                       THEN Append(valStack[x], Phi(Top.bb, x)) ELSE valStack[x]]
    BY <1>2 DEF PushPhis, Active, irVars
  <2>2. CASE v \in PhisOf(Top.bb)
    <3>1. PICK q : q = <<Top.bb, 0>>
      OBVIOUS
    <3>2. (Under(Depth, v))' = Under(Depth, v) \cup {q} /\ q \notin Under(Depth, v)
      BY <1>2, <2>2, <3>1, PhisUnder
    <3>3. q[1] = Top.bb /\ q[2] = 0 /\ Top.k = 0 /\ Top.bb \in Blocks
      BY <2>1, <3>1, TopPlace DEF Progress
    <3>4. Phi(Top.bb, v) \in Val /\ Phi(Top.bb, v) = ValAt(v, q)
      BY <3>3 DEF Phi, Val, ValAt
    <3>5. valStack'[v] = Append(valStack[v], Phi(Top.bb, v))
      BY <2>1, <2>2
    <3> QED  BY <1>0, <2>1, <3>2, <3>3, <3>4, <3>5, HoldsPush
  <2>3. CASE v \notin PhisOf(Top.bb)
    <3>1. valStack'[v] = valStack[v] /\ (Under(Depth, v))' = Under(Depth, v)
      BY <1>2, <2>1, <2>3, PhisUnder
    <3>2. \A q : (ValAt(v, q))' = ValAt(v, q)
      BY <2>1 DEF ValAt
    <3> QED  BY <1>0, <3>1, <3>2, HoldsKept
  <2> QED  BY <2>2, <2>3
<1>3. CASE RenameLoad
  <2>1. PICK w : Read(w)
    BY <1>3, ReadIs
  <2>2. valStack'[v] = valStack[v] /\ (Under(Depth, v))' = Under(Depth, v)
    BY <2>1 DEF Read
  <2>3. ASSUME NEW q \in Under(Depth, v) PROVE (ValAt(v, q))' = ValAt(v, q)
    <3>1. CASE UNCHANGED opnd
      BY <3>1 DEF ValAt
    <3>2. CASE ~UNCHANGED opnd
      <4>1. PICK r : Latest(w, TopAt, r) /\ ReplaceUses(Inst(Top.bb, Top.k), ValAt(w, r))
        BY <2>1, <3>2 DEF Read
      <4>2. /\ w \in Vars /\ Top.bb \in D!Reachable /\ Top.k \in Int /\ r \in DefPoints(w)
            /\ frames # << >>
        BY <2>1, <4>1 DEF Read, Latest, Moved
      <4>3. ValAt(w, r) \in Val
        BY <4>2, DefIs
      <4>4. q \in DefPoints(v) /\ Before(q, TopAt)
        BY <4>2, UnderIsBefore DEF TopAt
      <4>5. TopAt[1] = Top.bb /\ TopAt[2] = Top.k
        BY DEF TopAt
      <4>6. ValAt(v, q) # Inst(TopAt[1], TopAt[2])
        BY <4>2, <4>4, <4>5, NotYet
      <4> QED  BY <4>1, <4>3, <4>4, <4>5, <4>6, ReadValues
    <3> QED  BY <3>1, <3>2
  <2> QED  BY <1>0, <2>2, <2>3, HoldsKept
<1>4. CASE RenameStore
  <2>1. PICK w : Stored(w)
    BY <1>4, StoreUnder
  <2>2. frames # << >> /\ UNCHANGED opnd /\ \A q : (ValAt(v, q))' = ValAt(v, q)
    BY <2>1 DEF Stored, Moved, ValAt
  <2>3. CASE v = w
    <3>1. PICK q : q = <<Top.bb, Top.k>>
      OBVIOUS
    <3>2. /\ q \in DOMAIN opnd /\ q \notin Under(Depth, v)
          /\ (Under(Depth, v))' = Under(Depth, v) \cup {q}
          /\ valStack'[v] = Append(valStack[v], opnd[q]) /\ Top.k \in DOMAIN code[Top.bb]
      BY <2>1, <2>3, <3>1 DEF Stored, Typed
    <3>3. Top.k # 0 /\ q[1] = Top.bb /\ q[2] = Top.k
      BY <2>2, <3>1, <3>2, TopPlace, InstructionsOf
    <3>4. opnd[q] \in Val /\ opnd[q] = ValAt(v, q)
      BY <3>2, <3>3 DEF ValAt, Typed
    <3> QED  BY <1>0, <2>2, <3>2, <3>3, <3>4, HoldsPush
  <2>4. CASE v # w
    <3>1. valStack'[v] = valStack[v] /\ (Under(Depth, v))' = Under(Depth, v)
      BY <2>1, <2>4 DEF Stored, Typed
    <3> QED  BY <1>0, <2>2, <3>1, HoldsKept
  <2> QED  BY <2>3, <2>4
<1>5. CASE RenameOther
  <2>1. PICK op \in {"add", "print"} : AtInstr(op) /\ SetTop([Top EXCEPT !.k = @ + 1])
    BY <1>5 DEF RenameOther
  <2>2. UNCHANGED <<domVars, code, phis, opnd, valStack>>
    BY <1>5 DEF RenameOther, irVars
  <2>3. (Under(Depth, v))' = Under(Depth, v)
    BY <2>1, <2>2, OtherUnder
  <2> QED  BY <1>1, <2>2, <2>3
<1>6. CASE FillSuccPhis
  <2>1. UNCHANGED <<opnd, valStack>>
    BY <1>6 DEF FillSuccPhis
  <2> QED  BY <1>1, <1>6, <2>1, FillUnder
<1>7. CASE Recurse
  <2>1. UNCHANGED <<domVars, code, phis, opnd, valStack>>
    BY <1>7 DEF Recurse, irVars
  <2>2. PICK c : Called(c)
    BY <1>7, RecurseIs
  <2>3. c \in Blocks
    BY <2>1, <2>2, ChainCall
  <2>4. (Under(Depth, v))' = Under(Depth, v)
    BY <2>1, <2>2, <2>3, CallUnder
  <2> QED  BY <1>1, <2>1, <2>4
<1>8. CASE Leave
  BY <1>0, <1>8, HoldsReturn
<1> QED  BY <1>2, <1>3, <1>4, <1>5, <1>6, <1>7, <1>8 DEF Rename

(* A phi has, for each edge, the value of the last definition before its   *)
(* end.                                                                    *)
PhiValues ==
    \A p \in phis : \A i \in 1 .. Len(phiArgs[p]) : \A q :
        Latest(p[2], End(phiArgs[p][i].bb), q) => phiArgs[p][i].val = ValAt(p[2], q)

LEMMA PhiValuesKept ==
    ASSUME PhiValues, UNCHANGED <<succ, code, phis, phiArgs, opnd>>
    PROVE  PhiValues'
<1>1. \A v, p, q : (Latest(v, p, q))' <=> Latest(v, p, q)
  BY LatestKept
<1>2. \A v, q : (ValAt(v, q))' = ValAt(v, q)
  BY DEF ValAt
<1>3. ASSUME NEW p \in phis, NEW i \in 1 .. Len(phiArgs[p]), NEW q,
             (Latest(p[2], End(phiArgs[p][i].bb), q))'
      PROVE  (phiArgs[p][i].val = ValAt(p[2], q))'
  <2>1. Latest(p[2], End(phiArgs[p][i].bb), q)
    BY <1>1, <1>3 DEF End
  <2>2. phiArgs[p][i].val = ValAt(p[2], q)
    BY <2>1 DEF PhiValues
  <2> QED  BY <1>2, <2>2
<1> QED  BY <1>3 DEF PhiValues

LEMMA PhiValuesRename ==
    ASSUME Code, Typed, Chain, Stacks, Content, PathFacts, PhiValues, Rename
    PROVE  PhiValues'
<1>0. UNCHANGED <<succ, code, phis>>
  BY DEF Rename, PushPhis, RenameLoad, RenameStore, RenameOther, FillSuccPhis, Recurse, Leave, domVars,
         irVars
<1>1. ASSUME UNCHANGED <<opnd, phiArgs>> PROVE PhiValues'
  BY <1>0, <1>1, PhiValuesKept
<1>2. \A v, p, q : (Latest(v, p, q))' <=> Latest(v, p, q)
  BY <1>0, LatestKept
<1>3. CASE RenameLoad
  <2>1. PICK w : Read(w)
    BY <1>3, ReadIs
  <2>2. CASE UNCHANGED <<opnd, phiArgs>>
    BY <1>1, <2>2
  <2>3. CASE ~UNCHANGED <<opnd, phiArgs>>
    <3>1. PICK r : Latest(w, TopAt, r) /\ ReplaceUses(Inst(Top.bb, Top.k), ValAt(w, r))
      BY <2>1, <2>3 DEF Read
    <3>2. PICK x, old : x = ValAt(w, r) /\ old = Inst(Top.bb, Top.k)
      OBVIOUS
    <3>3. x \in Val
      BY <2>1, <3>1, <3>2, DefIs DEF Read, Latest
    <3>4. \A p \in phis :
             /\ Len(phiArgs'[p]) = Len(phiArgs[p])
             /\ \A i \in 1 .. Len(phiArgs[p]) :
                   /\ phiArgs'[p][i].bb = phiArgs[p][i].bb
                   /\ phiArgs'[p][i].val = IF phiArgs[p][i].val = old THEN x ELSE phiArgs[p][i].val
      BY <3>1, <3>2, <3>3, ReplaceUsesIs
    <3>5. \A v \in Vars : \A q \in DefPoints(v) :
             (ValAt(v, q))' = IF ValAt(v, q) = old THEN x ELSE ValAt(v, q)
      BY <3>1, <3>2, <3>3, ReadValues
    <3>6. ASSUME NEW p \in phis, NEW i \in 1 .. Len(phiArgs[p]), NEW q,
                 Latest(p[2], End(phiArgs[p][i].bb), q)
          PROVE  phiArgs'[p][i].val = (ValAt(p[2], q))'
      <4>1. phiArgs[p][i].val = ValAt(p[2], q)
        BY <3>6 DEF PhiValues
      <4>2. p[2] \in Vars /\ q \in DefPoints(p[2])
        BY <3>6 DEF Latest, Typed
      <4> QED  BY <3>4, <3>5, <4>1, <4>2
    <3>7. ASSUME NEW p \in phis, NEW i \in 1 .. Len(phiArgs'[p]), NEW q,
                 (Latest(p[2], End(phiArgs[p][i].bb), q))'
          PROVE  phiArgs'[p][i].val = (ValAt(p[2], q))'
      <4>1. i \in 1 .. Len(phiArgs[p]) /\ phiArgs'[p][i].bb = phiArgs[p][i].bb
        BY <3>4, <3>7
      <4>2. (End(phiArgs[p][i].bb))' = End(phiArgs[p][i].bb)
        BY <1>0, <4>1 DEF End
      <4>3. Latest(p[2], End(phiArgs[p][i].bb), q)
        BY <1>2, <3>7, <4>2
      <4> QED  BY <3>6, <4>1, <4>3
    <3> QED  BY <1>0, <3>7 DEF PhiValues
  <2> QED  BY <2>2, <2>3
<1>4. CASE FillSuccPhis
  <2>1. /\ frames # << >> /\ UNCHANGED opnd /\ Top.stage = "body" /\ Top.k \notin DOMAIN code[Top.bb]
        /\ phiArgs' = [p \in phis |->
             IF p[1] \in ToSet(succ[Top.bb]) /\ valStack[p[2]] # << >>
             THEN Append(phiArgs[p], [val |-> Last(valStack[p[2]]), bb |-> Top.bb])
             ELSE phiArgs[p]]
    BY <1>4 DEF FillSuccPhis, Active
  <2>2. /\ Top.bb \in Blocks /\ Top.bb \in D!Reachable /\ Top.k = Len(code[Top.bb]) + 1
    BY <2>1, TopPlace DEF Progress
  <2>3. ASSUME NEW p \in phis, NEW i \in 1 .. Len(phiArgs'[p]), NEW q,
               Latest(p[2], End(phiArgs'[p][i].bb), q)
        PROVE  phiArgs'[p][i].val = ValAt(p[2], q)
    <3>1. phiArgs[p] \in Seq(Pairs) /\ p[2] \in Vars /\ Len(phiArgs[p]) \in Nat
      BY LenProperties DEF Typed
    <3>2. CASE phiArgs'[p] = phiArgs[p]
      <4>1. i \in 1 .. Len(phiArgs[p]) /\ Latest(p[2], End(phiArgs[p][i].bb), q)
        BY <2>3, <3>2
      <4>2. phiArgs[p][i].val = ValAt(p[2], q)
        BY <2>3, <4>1 DEF PhiValues
      <4> QED  BY <3>2, <4>2
    <3>3. CASE phiArgs'[p] # phiArgs[p]
      <4> DEFINE a == [val |-> Last(valStack[p[2]]), bb |-> Top.bb]
      <4>1. valStack[p[2]] # << >> /\ phiArgs'[p] = Append(phiArgs[p], a)
        BY <2>1, <3>3
      <4>2. a \in Pairs /\ a.bb = Top.bb /\ a.val = Last(valStack[p[2]])
        BY <2>2, <3>1, <4>1, StackIs DEF Pairs
      <4>3. PICK r : Latest(p[2], <<Top.bb, Top.k>>, r) /\ Last(valStack[p[2]]) = ValAt(p[2], r)
        BY <2>1, <3>1, <4>1, ReadsLatest
      <4> HIDE DEF a
      <4>4. /\ Len(phiArgs'[p]) = Len(phiArgs[p]) + 1 /\ phiArgs'[p][Len(phiArgs[p]) + 1] = a
            /\ \A j \in 1 .. Len(phiArgs[p]) : phiArgs'[p][j] = phiArgs[p][j]
        BY <3>1, <4>1, <4>2, AppendProperties
      <4>5. CASE i \in 1 .. Len(phiArgs[p])
        <5>1. phiArgs'[p][i] = phiArgs[p][i] /\ Latest(p[2], End(phiArgs[p][i].bb), q)
          BY <2>3, <4>4, <4>5
        <5>2. phiArgs[p][i].val = ValAt(p[2], q)
          BY <2>3, <4>5, <5>1 DEF PhiValues
        <5> QED  BY <5>1, <5>2
      <4>6. CASE i = Len(phiArgs[p]) + 1
        <5>1. Latest(p[2], End(Top.bb), q) /\ Latest(p[2], End(Top.bb), r)
          BY <2>2, <2>3, <4>2, <4>3, <4>4, <4>6 DEF End
        <5>2. End(Top.bb)[1] = Top.bb
          BY DEF End
        <5>3. q = r
          BY <2>2, <5>1, <5>2, LatestUnique
        <5> QED  BY <4>2, <4>3, <4>4, <4>6, <5>3
      <4> QED  BY <3>1, <4>4, <4>5, <4>6
    <3> QED  BY <3>2, <3>3
  <2>4. \A v, q : (ValAt(v, q))' = ValAt(v, q)
    BY <2>1 DEF ValAt
  <2>5. ASSUME NEW p \in phis, NEW i \in 1 .. Len(phiArgs'[p]), NEW q,
               (Latest(p[2], End(phiArgs[p][i].bb), q))'
        PROVE  phiArgs'[p][i].val = (ValAt(p[2], q))'
    <3>1. (End(phiArgs[p][i].bb))' = End(phiArgs'[p][i].bb)
      BY <1>0 DEF End
    <3>2. Latest(p[2], End(phiArgs'[p][i].bb), q)
      BY <1>2, <2>5, <3>1
    <3> QED  BY <2>3, <2>4, <3>2
  <2> QED  BY <1>0, <2>5 DEF PhiValues
<1>5. CASE PushPhis \/ RenameStore \/ RenameOther \/ Recurse \/ Leave
  BY <1>1, <1>5 DEF PushPhis, RenameStore, RenameOther, Recurse, Leave, irVars
<1> QED  BY <1>3, <1>4, <1>5 DEF Rename

-----------------------------------------------------------------------------
(* What the operands are: a constant, the result of an add, or, once the   *)
(* load before has been renamed, the value of the last definition.         *)
Passed(b, k) ==
    b \in erased \/ \E i \in 1 .. Depth : frames[i].bb = b /\ k < frames[i].k

LoadBefore(p) == Instr(p).arg = Prev /\ code[p[1]][p[2] - 1].op = "load"

OperandIs(p) ==
    /\ Instr(p).arg # Prev => opnd[p] = Instr(p).arg
    /\ (Instr(p).arg = Prev /\ ~(LoadBefore(p) /\ Passed(p[1], p[2] - 1))) => opnd[p] = Inst(p[1], p[2] - 1)
    /\ (LoadBefore(p) /\ Passed(p[1], p[2] - 1)) =>
          \A q : Latest(code[p[1]][p[2] - 1].var, <<p[1], p[2] - 1>>, q) =>
                    opnd[p] = ValAt(code[p[1]][p[2] - 1].var, q)

OperandsAre == \A p \in DOMAIN opnd : p[1] \in D!Reachable => OperandIs(p)

LEMMA OperandsAreKept ==
    ASSUME OperandsAre, UNCHANGED <<succ, code, phis, opnd>>,
           \A p \in DOMAIN opnd :
              (p[1] \in D!Reachable /\ LoadBefore(p)) => ((Passed(p[1], p[2] - 1))' <=> Passed(p[1], p[2] - 1))
    PROVE  OperandsAre'
<1>1. \A v, p, q : (Latest(v, p, q))' <=> Latest(v, p, q)
  BY LatestKept
<1>2. /\ \A v, q : (ValAt(v, q))' = ValAt(v, q)
      /\ \A p : (LoadBefore(p))' <=> LoadBefore(p)
      /\ \A p : (Instr(p))' = Instr(p)
  BY DEF ValAt, LoadBefore, Instr
<1>3. D!Reachable' = D!Reachable
  BY PathsKept
<1>4. ASSUME NEW p \in DOMAIN opnd, p[1] \in D!Reachable PROVE OperandIs(p)'
  <2>1. OperandIs(p)
    BY <1>4 DEF OperandsAre
  <2>2. LoadBefore(p) => ((Passed(p[1], p[2] - 1))' <=> Passed(p[1], p[2] - 1))
    BY <1>4
  <2>3. PICK v, b, k : v = code[p[1]][p[2] - 1].var /\ b = p[1] /\ k = p[2] - 1
    OBVIOUS
  <2>4. \A q : (Latest(v, <<b, k>>, q))' <=> Latest(v, <<b, k>>, q)
    BY <1>1
  <2> QED  BY <1>2, <2>1, <2>2, <2>3, <2>4 DEF OperandIs
<1> QED  BY <1>3, <1>4 DEF OperandsAre

(* What a step of rename passes.                                           *)
LEMMA PassedMove ==
    ASSUME Code, Typed, Chain, NEW f, Moved(f), f.k \in {Top.k, Top.k + 1}, UNCHANGED erased,
           NEW b, NEW k \in Nat
    PROVE  (Passed(b, k))' <=> Passed(b, k) \/ (b = Top.bb /\ k = Top.k /\ f.k = Top.k + 1)
<1>1. /\ Depth' = Depth /\ Depth \in Nat \ {0} /\ Top = frames[Depth] /\ frames'[Depth] = f
      /\ \A i \in 1 .. Depth - 1 : frames'[i] = frames[i] /\ i \in 1 .. Depth /\ i # Depth
      /\ Depth \in 1 .. Depth /\ f.bb = Top.bb /\ Top.k \in Nat /\ Top \in Activations
  BY MoveIs, TopIs DEF Moved, Activations
<1>2. \A i \in 1 .. Depth : i = Depth \/ i \in 1 .. Depth - 1
  BY <1>1
<1>3. Passed(b, k) <=> \/ b \in erased \/ (b = Top.bb /\ k < Top.k)
                       \/ \E i \in 1 .. Depth - 1 : frames[i].bb = b /\ k < frames[i].k
  BY <1>1, <1>2 DEF Passed
<1>4. (Passed(b, k))' <=> \/ b \in erased \/ (b = Top.bb /\ k < f.k)
                          \/ \E i \in 1 .. Depth - 1 : frames[i].bb = b /\ k < frames[i].k
  BY <1>1, <1>2 DEF Passed
<1>5. k < f.k <=> k < Top.k \/ (k = Top.k /\ f.k = Top.k + 1)
  BY <1>1
<1> QED  BY <1>3, <1>4, <1>5

LEMMA PassedCall ==
    ASSUME Code, Typed, NEW c \in Blocks, Called(c), UNCHANGED erased, NEW b, NEW k \in Nat
    PROVE  (Passed(b, k))' <=> Passed(b, k)
<1>1. /\ Depth' = Depth + 1 /\ Depth \in Nat /\ frames'[Depth + 1].k = 0
      /\ \A i \in 1 .. Depth : frames'[i].bb = frames[i].bb /\ frames'[i].k = frames[i].k
  BY TopIs DEF Called, Frame
<1>2. \A i \in 1 .. Depth + 1 : i = Depth + 1 \/ i \in 1 .. Depth
  BY <1>1
<1>3. \A i \in 1 .. Depth : i \in 1 .. Depth + 1
  BY <1>1
<1>4. ~(k < 0)
  OBVIOUS
<1> QED  BY <1>1, <1>2, <1>3, <1>4 DEF Passed

LEMMA PassedReturn ==
    ASSUME Code, Typed, Chain, Leave, NEW b \in Blocks, NEW k \in DOMAIN code[b]
    PROVE  (Passed(b, k))' <=> Passed(b, k)
<1>1. /\ Depth' = Depth - 1 /\ Depth \in Nat \ {0} /\ Top = frames[Depth] /\ frames # << >>
      /\ \A i \in 1 .. Depth - 1 : frames'[i] = frames[i] /\ i \in 1 .. Depth /\ i # Depth
      /\ Depth \in 1 .. Depth /\ erased' = erased \cup {Top.bb} /\ Top.stage = "kids"
  BY ReturnIs DEF Leave, Active
<1>2. \A i \in 1 .. Depth : i = Depth \/ i \in 1 .. Depth - 1
  BY <1>1
<1>3. b = Top.bb => k < Top.k
  <2>1. Top.k = Len(code[Top.bb]) + 1 /\ Len(code[Top.bb]) \in Nat
        /\ DOMAIN code[Top.bb] = 1 .. Len(code[Top.bb])
    BY <1>1, TopPlace DEF Progress
  <2> QED  BY <2>1
<1> QED  BY <1>1, <1>2, <1>3 DEF Passed

LEMMA OperandPlace ==
    ASSUME Code, NEW p \in DOMAIN opnd
    PROVE  /\ p \in Points /\ p = <<p[1], p[2]>> /\ p[1] \in Blocks /\ p[2] \in DOMAIN code[p[1]]
           /\ p[2] \in Nat \ {0} /\ Instr(p) = code[p[1]][p[2]] /\ Instr(p).op \in {"add", "store", "print"}
           /\ Instr(p).arg = Prev \/ (Instr(p).arg[1] = "const")
           /\ Instr(p).arg = Prev =>
                 /\ p[2] - 1 \in DOMAIN code[p[1]] /\ p[2] - 1 \in Nat \ {0}
                 /\ code[p[1]][p[2] - 1].op \in {"load", "add"}
<1>1. p \in Points /\ ~IsOp(p, "load")
  BY DEF Code
<1>2. p = <<p[1], p[2]>> /\ p[1] \in Blocks /\ p[2] \in DOMAIN code[p[1]]
  BY <1>1, PointIs
<1>3. Instr(p) = code[p[1]][p[2]]
  BY DEF Instr
<1>4. p[2] \in Nat \ {0} /\ Instr(p).op \in {"add", "store", "print"} /\ Instr(p).arg \in Operands
  BY <1>1, <1>2, <1>3, InstructionsOf DEF IsOp
<1>5. Instr(p).arg = Prev \/ (Instr(p).arg[1] = "const")
  BY <1>4 DEF Operands
<1>6. ASSUME Instr(p).arg = Prev
      PROVE  /\ p[2] - 1 \in DOMAIN code[p[1]] /\ p[2] - 1 \in Nat \ {0}
             /\ code[p[1]][p[2] - 1].op \in {"load", "add"}
  <2>1. p[2] > 1 /\ code[p[1]][p[2] - 1].op \in {"load", "add"} /\ code[p[1]] \in Seq(Instructions)
    BY <1>2, <1>3, <1>4, <1>6 DEF Code
  <2>2. DOMAIN code[p[1]] = 1 .. Len(code[p[1]]) /\ Len(code[p[1]]) \in Nat
    BY <2>1, LenProperties
  <2> QED  BY <1>2, <1>4, <2>1, <2>2
<1> QED  BY <1>1, <1>2, <1>3, <1>4, <1>5, <1>6

LEMMA OperandsAreRename ==
    ASSUME Code, Typed, Chain, Stacks, Content, PathFacts, TreeFacts, OperandsBefore, OperandsAre, Rename
    PROVE  OperandsAre'
<1>0. UNCHANGED <<succ, code, phis>>
  BY DEF Rename, PushPhis, RenameLoad, RenameStore, RenameOther, FillSuccPhis, Recurse, Leave, domVars,
         irVars
<1>1. ASSUME UNCHANGED opnd,
             \A b \in Blocks : \A k \in DOMAIN code[b] :
                (k \in Nat \ {0} /\ code[b][k].op = "load") => ((Passed(b, k))' <=> Passed(b, k))
      PROVE  OperandsAre'
  <2>1. ASSUME NEW p \in DOMAIN opnd, LoadBefore(p)
        PROVE  (Passed(p[1], p[2] - 1))' <=> Passed(p[1], p[2] - 1)
    <3>1. /\ p[1] \in Blocks /\ p[2] - 1 \in DOMAIN code[p[1]] /\ p[2] - 1 \in Nat \ {0}
          /\ code[p[1]][p[2] - 1].op = "load"
      BY <2>1, OperandPlace DEF LoadBefore
    <3> QED  BY <1>1, <3>1
  <2> QED  BY <1>0, <1>1, <2>1, OperandsAreKept
<1>2. CASE PushPhis
  <2>1. Moved([Top EXCEPT !.stage = "body", !.k = 1]) /\ UNCHANGED <<opnd, erased>>
        /\ frames # << >> /\ Top.stage = "enter"
    BY <1>2, PushPhisMoves DEF PushPhis, irVars, Active
  <2>2. Top.k = 0 /\ Top \in Activations
    BY <2>1, TopPlace DEF Progress
  <2>3. PICK f : f = [Top EXCEPT !.stage = "body", !.k = 1]
    OBVIOUS
  <2>4. f.k = 1
    BY <2>2, <2>3 DEF Activations
  <2>5. ASSUME NEW b \in Blocks, NEW k \in Nat \ {0} PROVE (Passed(b, k))' <=> Passed(b, k)
    <3>1. Moved(f) /\ f.k \in {Top.k, Top.k + 1} /\ UNCHANGED erased
      BY <2>1, <2>2, <2>3, <2>4
    <3>2. (Passed(b, k))' <=> Passed(b, k) \/ (b = Top.bb /\ k = Top.k /\ f.k = Top.k + 1)
      BY <3>1, PassedMove
    <3> QED  BY <2>2, <3>2
  <2> QED  BY <1>1, <2>1, <2>5
<1>3. ASSUME NEW op, op # "load", AtInstr(op), SetTop([Top EXCEPT !.k = @ + 1]),
             UNCHANGED <<domVars, code, phis, opnd, erased>>
      PROVE  OperandsAre'
  <2>1. /\ Moved([Top EXCEPT !.k = @ + 1]) /\ code[Top.bb][Top.k].op = op /\ Top \in Activations
    BY <1>3, InstrMoves, TopIs DEF Moved
  <2>2. PICK f : f = [Top EXCEPT !.k = @ + 1]
    OBVIOUS
  <2>3. f.k = Top.k + 1
    BY <2>1, <2>2 DEF Activations
  <2>4. ASSUME NEW b \in Blocks, NEW k \in Nat \ {0}, code[b][k].op = "load"
        PROVE  (Passed(b, k))' <=> Passed(b, k)
    <3>1. Moved(f) /\ f.k \in {Top.k, Top.k + 1} /\ UNCHANGED erased
      BY <1>3, <2>1, <2>2, <2>3
    <3>2. (Passed(b, k))' <=> Passed(b, k) \/ (b = Top.bb /\ k = Top.k /\ f.k = Top.k + 1)
      BY <3>1, PassedMove
    <3>3. ~(b = Top.bb /\ k = Top.k)
      BY <1>3, <2>1, <2>4
    <3> QED  BY <3>2, <3>3
  <2> QED  BY <1>1, <1>3, <2>4
<1>4. CASE RenameStore
  BY <1>3, <1>4 DEF RenameStore, irVars
<1>5. CASE RenameOther
  BY <1>3, <1>5 DEF RenameOther, irVars
<1>6. CASE FillSuccPhis
  <2>1. Moved([Top EXCEPT !.stage = "kids"]) /\ UNCHANGED <<opnd, erased>>
    BY <1>6, FillMoves DEF FillSuccPhis
  <2>2. Top \in Activations
    BY <2>1, TopIs DEF Moved
  <2>3. PICK f : f = [Top EXCEPT !.stage = "kids"]
    OBVIOUS
  <2>4. f.k = Top.k
    BY <2>2, <2>3 DEF Activations
  <2>5. Top.k \in Nat
    BY <2>2 DEF Activations
  <2>6. ASSUME NEW b \in Blocks, NEW k \in Nat \ {0} PROVE (Passed(b, k))' <=> Passed(b, k)
    <3>1. Moved(f) /\ f.k \in {Top.k, Top.k + 1} /\ UNCHANGED erased
      BY <2>1, <2>3, <2>4
    <3>2. (Passed(b, k))' <=> Passed(b, k) \/ (b = Top.bb /\ k = Top.k /\ f.k = Top.k + 1)
      BY <3>1, PassedMove
    <3>3. f.k # Top.k + 1
      BY <2>4, <2>5
    <3> QED  BY <3>2, <3>3
  <2> QED  BY <1>1, <2>1, <2>6
<1>7. CASE Recurse
  <2>1. UNCHANGED <<domVars, code, phis, opnd, erased>>
    BY <1>7 DEF Recurse, irVars
  <2>2. PICK c : Called(c)
    BY <1>7, RecurseIs
  <2>3. c \in Blocks
    BY <2>1, <2>2, ChainCall
  <2>4. ASSUME NEW b \in Blocks, NEW k \in Nat PROVE (Passed(b, k))' <=> Passed(b, k)
    BY <2>1, <2>2, <2>3, PassedCall
  <2> QED  BY <1>1, <2>1, <2>4
<1>8. CASE Leave
  <2>1. UNCHANGED opnd
    BY <1>8 DEF Leave
  <2>2. ASSUME NEW b \in Blocks, NEW k \in DOMAIN code[b] PROVE (Passed(b, k))' <=> Passed(b, k)
    BY <1>8, PassedReturn
  <2> QED  BY <1>1, <2>1, <2>2
<1>9. CASE RenameLoad
  <2>1. PICK v : Read(v)
    BY <1>9, ReadIs
  <2>2. /\ v \in Vars /\ v = code[Top.bb][Top.k].var
        /\ Top.k \in DOMAIN code[Top.bb] /\ code[Top.bb][Top.k].op = "load"
        /\ Top.bb \in Blocks /\ Top.bb \in D!Reachable /\ Top.k \in Nat
        /\ Moved([Top EXCEPT !.k = @ + 1]) /\ UNCHANGED erased /\ Top \in Activations
    BY <2>1, TopIs DEF Read, Moved
  <2>3. PICK old : old = Inst(Top.bb, Top.k)
    OBVIOUS
  <2>4. PICK x : /\ \A p \in DOMAIN opnd : opnd'[p] = IF opnd[p] = old THEN x ELSE opnd[p]
                 /\ DOMAIN opnd' = DOMAIN opnd
                 /\ \A w \in Vars : \A q \in DefPoints(w) :
                       (ValAt(w, q))' = IF ValAt(w, q) = old THEN x ELSE ValAt(w, q)
                 /\ \A q : Latest(v, TopAt, q) => x = (ValAt(v, q))'
    <3>1. CASE UNCHANGED <<opnd, phiArgs>> /\ \A q : ~Latest(v, TopAt, q)
      <4>1. \A w, q : (ValAt(w, q))' = ValAt(w, q)
        BY <3>1 DEF ValAt
      <4> QED  BY <3>1, <4>1
    <3>2. ASSUME NEW r, Latest(v, TopAt, r), ReplaceUses(Inst(Top.bb, Top.k), ValAt(v, r))
          PROVE  /\ \A p \in DOMAIN opnd : opnd'[p] = IF opnd[p] = old THEN ValAt(v, r) ELSE opnd[p]
                 /\ DOMAIN opnd' = DOMAIN opnd
                 /\ \A w \in Vars : \A q \in DefPoints(w) :
                       (ValAt(w, q))' = IF ValAt(w, q) = old THEN ValAt(v, r) ELSE ValAt(w, q)
                 /\ \A q : Latest(v, TopAt, q) => ValAt(v, r) = (ValAt(v, q))'
      <4>1. PICK y : y = ValAt(v, r)
        OBVIOUS
      <4>2. TopAt[1] = Top.bb /\ TopAt[2] = Top.k
        BY DEF TopAt
      <4>3. r \in DefPoints(v) /\ Before(r, TopAt)
        BY <3>2 DEF Latest
      <4>4. y \in Val
        BY <2>2, <4>1, <4>3, DefIs
      <4>5. y # old
        BY <2>2, <2>3, <4>1, <4>2, <4>3, NotYet
      <4>6. \A w \in Vars : \A q \in DefPoints(w) :
               (ValAt(w, q))' = IF ValAt(w, q) = old THEN y ELSE ValAt(w, q)
        BY <2>3, <3>2, <4>1, <4>4, ReadValues
      <4>7. \A q : Latest(v, TopAt, q) => q = r
        BY <2>2, <3>2, <4>2, LatestUnique
      <4>8. /\ \A p \in DOMAIN opnd : opnd'[p] = IF opnd[p] = old THEN y ELSE opnd[p]
            /\ DOMAIN opnd' = DOMAIN opnd
        BY <2>3, <3>2, <4>1, <4>4, ReplaceUsesIs
      <4>9. y = (ValAt(v, r))'
        BY <2>2, <4>1, <4>3, <4>5, <4>6
      <4> QED  BY <4>1, <4>6, <4>7, <4>8, <4>9
    <3> QED  BY <2>1, <3>1, <3>2 DEF Read
  <2>5. \A w, p, q : (Latest(w, p, q))' <=> Latest(w, p, q)
    BY <1>0, LatestKept
  <2>6. /\ D!Reachable' = D!Reachable
        /\ \A p : (Instr(p))' = Instr(p) /\ ((LoadBefore(p))' <=> LoadBefore(p))
    BY <1>0, PathsKept DEF Instr, LoadBefore
  <2>7. ASSUME NEW p \in DOMAIN opnd, p[1] \in D!Reachable PROVE OperandIs(p)'
    <3>1. PICK b, k : b = p[1] /\ k = p[2] - 1
      OBVIOUS
    <3>2. OperandIs(p)
      BY <2>7 DEF OperandsAre
    <3>3. /\ Instr(p).arg = Prev \/ Instr(p).arg[1] = "const"
          /\ Instr(p).arg = Prev => b \in Blocks /\ k \in Nat \ {0} /\ k \in DOMAIN code[b]
      BY <3>1, OperandPlace
    <3>4. opnd'[p] = IF opnd[p] = old THEN x ELSE opnd[p]
      BY <2>4
    <3>5. \A m \in Nat : (Passed(b, m))' <=> (Passed(b, m) \/ (b = Top.bb /\ m = Top.k))
      <4>1. PICK f : f = [Top EXCEPT !.k = @ + 1]
        OBVIOUS
      <4>2. f.k = Top.k + 1
        BY <2>2, <4>1 DEF Activations
      <4> QED  BY <2>2, <4>1, <4>2, PassedMove
    <3>6. old[1] = "inst" /\ \A c, m : Inst(c, m) = old <=> (c = Top.bb /\ m = Top.k)
      BY <2>3 DEF Inst
    <3>7. (Instr(p).arg # Prev => opnd[p] = Instr(p).arg)'
      BY <2>6, <3>2, <3>3, <3>4, <3>6 DEF OperandIs
    <3>8. ASSUME Instr(p).arg = Prev, ~(LoadBefore(p) /\ (Passed(b, k))') PROVE opnd'[p] = Inst(b, k)
      <4>1. ~(LoadBefore(p) /\ Passed(b, k)) /\ ~(LoadBefore(p) /\ b = Top.bb /\ k = Top.k)
        BY <3>3, <3>5, <3>8
      <4>2. opnd[p] = Inst(b, k)
        BY <3>1, <3>2, <3>8, <4>1 DEF OperandIs
      <4>3. ~(b = Top.bb /\ k = Top.k)
        <5>1. (b = Top.bb /\ k = Top.k) => LoadBefore(p)
          BY <2>2, <3>1, <3>8 DEF LoadBefore
        <5> QED  BY <4>1, <5>1
      <4> QED  BY <3>4, <3>6, <4>2, <4>3
    <3>9. ASSUME LoadBefore(p), (Passed(b, k))', NEW q, Latest(code[b][k].var, <<b, k>>, q)
          PROVE  opnd'[p] = (ValAt(code[b][k].var, q))'
      <4>1. PICK w : w = code[b][k].var
        OBVIOUS
      <4>2. /\ Instr(p).arg = Prev /\ code[b][k].op = "load" /\ b \in Blocks /\ k \in DOMAIN code[b]
            /\ k \in Nat
        BY <3>1, <3>3, <3>9 DEF LoadBefore
      <4>3. w \in Vars /\ q \in DefPoints(w) /\ Latest(w, <<b, k>>, q)
        BY <3>9, <4>1, <4>2, InstructionsOf DEF Latest
      <4>4. (ValAt(code[b][k].var, q))' = (ValAt(w, q))'
        BY <1>0, <4>1
      <4>5. CASE Passed(b, k)
        <5>1. opnd[p] = ValAt(w, q)
          BY <3>1, <3>2, <3>9, <4>1, <4>3, <4>5 DEF OperandIs
        <5> QED  BY <2>4, <3>4, <4>3, <4>4, <5>1
      <4>6. CASE ~Passed(b, k)
        <5>1. b = Top.bb /\ k = Top.k
          BY <3>5, <3>9, <4>2, <4>6
        <5>2. opnd[p] = Inst(b, k)
          BY <3>1, <3>2, <4>2, <4>6 DEF OperandIs
        <5>3. opnd'[p] = x
          BY <3>4, <3>6, <5>1, <5>2
        <5>4. w = v /\ Latest(v, TopAt, q)
          BY <2>2, <4>1, <4>3, <5>1 DEF TopAt
        <5> QED  BY <2>4, <4>4, <5>3, <5>4
      <4> QED  BY <4>5, <4>6
    <3>10. \A q : (Latest(code[b][k].var, <<b, k>>, q))' => Latest(code[b][k].var, <<b, k>>, q)
      <4>1. PICK w : w = code[b][k].var
        OBVIOUS
      <4>2. \A q : (Latest(w, <<b, k>>, q))' => Latest(w, <<b, k>>, q)
        BY <2>5
      <4>3. \A q : (Latest(code[b][k].var, <<b, k>>, q))' <=> (Latest(w, <<b, k>>, q))'
        BY <1>0, <4>1
      <4> QED  BY <4>1, <4>2, <4>3
    <3> QED  BY <2>6, <3>1, <3>7, <3>8, <3>9, <3>10 DEF OperandIs
  <2> QED  BY <2>4, <2>6, <2>7 DEF OperandsAre
<1> QED  BY <1>2, <1>4, <1>5, <1>6, <1>7, <1>8, <1>9 DEF Rename

-----------------------------------------------------------------------------
(* The execution.  Its steps leave the code as it is, so that the last     *)
(* definition before a point and its value are what they were.             *)
LEMMA EvalBind ==
    ASSUME NEW e, NEW b, NEW k, NEW n, NEW val
    PROVE  EvalIn(Bind(e, Inst(b, k), n), val) = IF val = Inst(b, k) THEN n ELSE EvalIn(e, val)
<1> DEFINE x == Inst(b, k)
<1>1. x[1] = "inst"
  BY DEF Inst
<1> HIDE DEF x
<1>2. /\ DOMAIN Bind(e, x, n) = DOMAIN e \cup {x}
      /\ \A y \in DOMAIN e \cup {x} : Bind(e, x, n)[y] = IF y = x THEN n ELSE e[y]
  BY DEF Bind
<1>3. CASE val[1] = "const"
  BY <1>1, <1>3 DEF EvalIn, x
<1>4. CASE val[1] # "const"
  BY <1>2, <1>4 DEF EvalIn, x
<1> QED  BY <1>3, <1>4

LEMMA LatestOn ==
    ASSUME Code, NEW v, NEW a, NEW k \in Nat, <<a, k>> \notin DefPoints(v),
           NEW q, Latest(v, <<a, k>>, q)
    PROVE  Latest(v, <<a, k + 1>>, q)
<1>1. ASSUME NEW r \in DefPoints(v) PROVE Before(r, <<a, k + 1>>) <=> Before(r, <<a, k>>)
  <2>1. r = <<r[1], r[2]>> /\ r[2] \in Int
    BY DefPointsIs
  <2>2. r[1] = a => r[2] # k
    BY <2>1
  <2>3. r[1] = a => (r[2] < k + 1 <=> r[2] < k)
    BY <2>1, <2>2
  <2> QED  BY <2>3 DEF Before
<1> QED  BY <1>1 DEF Latest

LEMMA LatestStored ==
    ASSUME Code, NEW v, NEW a \in Blocks, NEW k \in StoresTo(a, v)
    PROVE  Latest(v, <<a, k + 1>>, <<a, k>>)
<1>1. <<a, k>> \in DefPoints(v) /\ k \in Nat
  BY DefPointsIs, InstructionsOf DEF StoresTo
<1>2. k < k + 1
  BY <1>1
<1>3. Before(<<a, k>>, <<a, k + 1>>)
  BY <1>2 DEF Before
<1>4. ASSUME NEW r \in DefPoints(v), Before(r, <<a, k + 1>>) PROVE r = <<a, k>> \/ Before(r, <<a, k>>)
  <2>1. r = <<r[1], r[2]>> /\ r[2] \in Int
    BY DefPointsIs
  <2>2. r[2] < k + 1 => r[2] = k \/ r[2] < k
    BY <1>1, <2>1
  <2> QED  BY <1>4, <2>1, <2>2 DEF Before
<1> QED  BY <1>1, <1>3, <1>4 DEF Latest

(* An edge to a block without a phi of v: the last definition stays the    *)
(* last.  Otherwise the block were on the frontier of its block.           *)
LEMMA EdgeLatest ==
    ASSUME Code, Typed, PathFacts, FrontierFacts, Placed, NEW a \in D!Reachable, NEW b \in ToSet(succ[a]),
           NEW v \in Vars, NEW q, Latest(v, End(a), q), <<b, v>> \notin phis
    PROVE  D!StrictDom(q[1], b) /\ Latest(v, <<b, 1>>, q)
<1>1. /\ q \in DefPoints(v) /\ Before(q, End(a)) /\ End(a)[1] = a /\ End(a)[2] = Len(code[a]) + 1
      /\ \A r \in DefPoints(v) : Before(r, End(a)) => (r = q \/ Before(r, q))
  BY DEF Latest, End
<1>2. a \in Blocks /\ b \in D!Reachable /\ b \in Blocks /\ q[1] \in D!Reachable /\ q[1] \in DefIn(v)
  <2>1. a \in Blocks /\ b \in D!Reachable /\ b \in Blocks
    BY DEF PathFacts
  <2>2. PICK p : p = End(a)
    OBVIOUS
  <2>3. q[1] \in D!Reachable
    BY <1>1, <2>2, ReachedBefore
  <2>4. q[1] \in DefIn(v)
    BY <1>1, DefPointsIs
  <2> QED  BY <2>1, <2>3, <2>4
<1>3. D!Dom(q[1], a)
  BY <1>1 DEF Before, D!StrictDom, D!Dom
<1>4. D!StrictDom(q[1], b)
  <2> SUFFICES ASSUME ~D!StrictDom(q[1], b) PROVE FALSE
    OBVIOUS
  <2>1. b \in df[q[1]]
    BY <1>2, <1>3 DEF FrontierFacts
  <2>2. q[1] \in StoredIn(v) \cup PhiBlocks(v)
    BY <1>2 DEF DefIn, Placed
  <2>3. b \in PhiBlocks(v)
    BY <2>1, <2>2, PhiBlocksClosed
  <2> QED  BY <2>3 DEF Placed
<1>5. Before(q, <<b, 1>>)
  BY <1>4 DEF Before
<1>6. ASSUME NEW r \in DefPoints(v), Before(r, <<b, 1>>) PROVE r = q \/ Before(r, q)
  <2>1. r = <<r[1], r[2]>> /\ r[2] \in 0 .. Len(code[r[1]]) /\ Len(code[r[1]]) \in Nat
        /\ (r[2] = 0 => <<r[1], v>> \in phis)
    BY DefPointsIs
  <2>2. D!StrictDom(r[1], b)
    <3>1. CASE r[1] = b /\ r[2] < 1
      <4>1. r[2] = 0
        BY <2>1, <3>1
      <4> QED  BY <2>1, <3>1, <4>1
    <3> QED  BY <1>6, <3>1 DEF Before
  <2>3. D!Dom(r[1], a)
    BY <2>2 DEF PathFacts
  <2>4. r[1] = a => r[2] < Len(code[a]) + 1
    BY <2>1
  <2>5. Before(r, End(a))
    BY <1>1, <2>3, <2>4 DEF Before, D!StrictDom, D!Dom
  <2> QED  BY <1>1, <2>5
<1> QED  BY <1>1, <1>4, <1>5, <1>6 DEF Latest

(* ... and keeps its value, for no phi of the block is older.              *)
LEMMA EdgeValue ==
    ASSUME Code, Typed, PathFacts, OperandsBefore, NEW b \in D!Reachable, NEW a,
           NEW v \in Vars, NEW q \in DefPoints(v), D!StrictDom(q[1], b)
    PROVE  EvalIn(EnterEnv(b, a), ValAt(v, q)) = EvalIn(env, ValAt(v, q))
<1>1. PICK val : val = ValAt(v, q)
  OBVIOUS
<1>2. q = <<q[1], q[2]>> /\ q[2] \in Int /\ q[1] \in D!Reachable /\ q[1] # b /\ val \in Val
  BY <1>1, DefPointsIs, DefIs DEF PathFacts, D!StrictDom
<1>3. ~(val[1] = "phi" /\ val[2] = b)
  <2> SUFFICES ASSUME val[1] = "phi", val[2] = b PROVE FALSE
    OBVIOUS
  <2>1. CASE q[2] = 0
    BY <1>1, <1>2, <2>1 DEF ValAt, Phi
  <2>2. CASE q[2] # 0
    <3>1. q \in DOMAIN opnd /\ opnd[q] = val
      BY <1>1, <2>2, DefIs
    <3>2. Before(<<b, 0>>, q)
      BY <1>2, <3>1 DEF OperandsBefore, DefAt
    <3>3. Before(q, <<b, 0>>)
      BY DEF Before
    <3>4. <<b, 0>>[1] = b /\ <<b, 0>>[2] \in Int
      OBVIOUS
    <3> QED  BY <1>2, <3>2, <3>3, <3>4, BeforeAsymmetric
  <2> QED  BY <2>1, <2>2
<1>4. /\ val \in DOMAIN EnterEnv(b, a) <=> val \in DOMAIN env
      /\ val \in DOMAIN env => EnterEnv(b, a)[val] = env[val]
  BY <1>3 DEF EnterEnv, Phi
<1> QED  BY <1>1, <1>4 DEF EvalIn

(* An edge to a block with a phi of v: the phi reads what was last.        *)
LEMMA EdgePhi ==
    ASSUME Code, Typed, PathFacts, FilledPhis, PhiValues, D!Reachable \subseteq erased,
           NEW a \in D!Reachable, NEW b \in ToSet(succ[a]),
           NEW v \in Vars, NEW q, Latest(v, End(a), q), <<b, v>> \in phis
    PROVE  /\ Latest(v, <<b, 1>>, <<b, 0>>)
           /\ EvalIn(EnterEnv(b, a), ValAt(v, <<b, 0>>)) = EvalIn(env, ValAt(v, q))
<1>1. a \in Blocks /\ b \in Blocks /\ b \in D!Reachable
  BY DEF PathFacts
<1>2. Latest(v, <<b, 1>>, <<b, 0>>)
  <2>1. <<b, 0>> \in DefPoints(v) /\ Before(<<b, 0>>, <<b, 1>>)
    BY <1>1, DefPointsIs DEF Before
  <2>2. ASSUME NEW r \in DefPoints(v), Before(r, <<b, 1>>) PROVE r = <<b, 0>> \/ Before(r, <<b, 0>>)
    <3>1. r = <<r[1], r[2]>> /\ r[2] \in 0 .. Len(code[r[1]]) /\ Len(code[r[1]]) \in Nat
      BY DefPointsIs
    <3>2. r[2] < 1 => r[2] = 0
      BY <3>1
    <3> QED  BY <2>2, <3>1, <3>2 DEF Before
  <2> QED  BY <2>1, <2>2 DEF Latest
<1> DEFINE p == <<b, v>>
           mine == {i \in DOMAIN phiArgs[p] : phiArgs[p][i].bb = a}
           first == CHOOSE i \in mine : \A j \in mine : i <= j
<1>3. p[1] = b /\ p[2] = v /\ p \in phis
  OBVIOUS
<1>4. DOMAIN phiArgs[p] = 1 .. Len(phiArgs[p]) /\ Len(phiArgs[p]) \in Nat
  BY <1>3, LenProperties DEF Typed
<1>5. HasDef(a, v)
  <2>1. q[1] \in DefIn(v) /\ Before(q, End(a)) /\ End(a)[1] = a
    BY DefPointsIs DEF Latest, End
  <2> QED  BY <2>1 DEF HasDef, Before, D!StrictDom, D!Dom
<1>6. a \in Filled
  BY DEF Filled
<1>7. PICK i \in 1 .. Len(phiArgs[p]) : phiArgs[p][i].bb = a
  <2> HIDE DEF p
  <2>1. a \in {phiArgs[p][i].bb : i \in 1 .. Len(phiArgs[p])}
    BY <1>1, <1>3, <1>5, <1>6 DEF FilledPhis
  <2> QED  BY <2>1
<1>8. \A j \in mine : j = i
  BY <1>3, <1>4, <1>7 DEF FilledPhis
<1>9. i \in mine /\ i <= i
  BY <1>4, <1>7
<1>10. first = i
  <2> HIDE DEF mine
  <2> QED  BY <1>8, <1>9
<1>11. PhiValue(p, a) = EvalIn(env, phiArgs[p][first].val)
  BY <1>9 DEF PhiValue
<1>12. phiArgs[p][i].val = ValAt(v, q)
  <2> HIDE DEF p
  <2>1. Latest(p[2], End(phiArgs[p][i].bb), q)
    BY <1>3, <1>7
  <2>2. phiArgs[p][i].val = ValAt(p[2], q)
    BY <1>3, <1>7, <2>1 DEF PhiValues
  <2> QED  BY <1>3, <2>2
<1>13. PhiValue(p, a) = EvalIn(env, ValAt(v, q))
  <2> HIDE DEF p, first
  <2> QED  BY <1>10, <1>11, <1>12
<1>14. ValAt(v, <<b, 0>>) = Phi(b, v)
  BY DEF ValAt
<1>15. /\ Phi(b, v) \in DOMAIN EnterEnv(b, a)
       /\ EnterEnv(b, a)[Phi(b, v)] = PhiValue(p, a)
       /\ Phi(b, v)[1] # "const"
  BY DEF EnterEnv, Phi, PhisOf
<1>16. EvalIn(EnterEnv(b, a), Phi(b, v)) = PhiValue(p, a)
  <2> HIDE DEF p
  <2> QED  BY <1>15 DEF EvalIn
<1> QED  BY <1>2, <1>13, <1>14, <1>16

-----------------------------------------------------------------------------
(* The finished function, and what the two executions agree on.            *)
Promotion ==
    /\ Code /\ Typed /\ PathFacts /\ FrontierFacts /\ Placed /\ FilledPhis
    /\ D!Reachable \subseteq erased
    /\ OperandsBefore /\ OperandsAre /\ PhiValues

Agree ==
    /\ DOMAIN mem = Vars
    /\ at \in D!Reachable /\ ip \in 1 .. Len(code[at]) + 1
    /\ \A v \in Vars : mem[v] # Undef =>
          \E q : Latest(v, Here, q) /\ EvalIn(env, ValAt(v, q)) = mem[v]
    /\ (Here \in DOMAIN opnd /\ Instr(Here).arg = Prev /\ reg # Undef) => Promoted = reg

PrintsAgree ==
    \E S : seen \in Seq(S) /\ \A x \in S : x[1] # Undef => x[1] = x[2]

LEMMA AgreeIf ==
    ASSUME UNCHANGED <<succ, code, phis, opnd>>, DOMAIN mem' = Vars,
           NEW a \in D!Reachable, NEW k \in 1 .. Len(code[a]) + 1, at' = a, ip' = k,
           \A v \in Vars : mem'[v] # Undef =>
              \E q : Latest(v, <<a, k>>, q) /\ EvalIn(env', ValAt(v, q)) = mem'[v],
           (<<a, k>> \in DOMAIN opnd /\ Instr(<<a, k>>).arg = Prev /\ reg' # Undef) =>
              EvalIn(env', opnd[<<a, k>>]) = reg'
    PROVE  Agree'
<1>1. \A v, p, q : (Latest(v, p, q))' <=> Latest(v, p, q)
  BY LatestKept
<1>2. \A v, q : (ValAt(v, q))' = ValAt(v, q)
  BY DEF ValAt
<1>3. D!Reachable' = D!Reachable
  BY PathsKept
<1>4. PICK h : h = <<a, k>>
  OBVIOUS
<1>5. Here' = h
  BY <1>4 DEF Here
<1>6. ASSUME NEW v \in Vars, mem'[v] # Undef
      PROVE  \E q : (Latest(v, Here, q))' /\ (EvalIn(env, ValAt(v, q)))' = mem'[v]
  <2>1. PICK q : Latest(v, h, q) /\ EvalIn(env', ValAt(v, q)) = mem'[v]
    BY <1>4, <1>6
  <2>2. (Latest(v, h, q))'
    BY <1>1, <2>1
  <2>3. (Latest(v, Here, q))'
    BY <1>5, <2>2 DEF Latest
  <2>4. (EvalIn(env, ValAt(v, q)))' = EvalIn(env', ValAt(v, q))
    BY <1>2 DEF EvalIn
  <2> QED  BY <2>1, <2>3, <2>4
<1>7. ASSUME (Here \in DOMAIN opnd /\ Instr(Here).arg = Prev /\ reg # Undef)'
      PROVE  (Promoted = reg)'
  <2>1. h \in DOMAIN opnd /\ Instr(h).arg = Prev /\ reg' # Undef
    BY <1>5, <1>7 DEF Instr
  <2>2. EvalIn(env', opnd[h]) = reg'
    BY <1>4, <2>1
  <2>3. Promoted' = EvalIn(env', opnd[h])
    BY <1>5 DEF Promoted, EvalIn
  <2> QED  BY <2>2, <2>3
<1> QED  BY <1>3, <1>6, <1>7 DEF Agree

(* An operand of the original that is defined is the promoted one's.       *)
LEMMA OriginalIs ==
    ASSUME Promotion, Agree, Here \in DOMAIN opnd, Original # Undef
    PROVE  Promoted = Original
<1>1. PICK p : p = Here
  OBVIOUS
<1>2. p \in DOMAIN opnd /\ p[1] \in D!Reachable
  BY <1>1 DEF Agree, Here
<1>3. OperandIs(p)
  BY <1>2 DEF Promotion, OperandsAre
<1>4. CASE Instr(p).arg = Prev
  BY <1>1, <1>2, <1>4 DEF Agree, Original
<1>5. CASE Instr(p).arg # Prev
  <2>1. opnd[p] = Instr(p).arg /\ Instr(p).arg[1] = "const"
    BY <1>2, <1>3, <1>5, OperandPlace DEF OperandIs, Promotion
  <2> QED  BY <1>1, <1>5, <2>1 DEF Original, Promoted, EvalIn
<1> QED  BY <1>4, <1>5

LEMMA HereIs ==
    ASSUME Promotion, Agree, NEW op, Running(op)
    PROVE  /\ at \in Blocks /\ at \in D!Reachable /\ ip \in DOMAIN code[at] /\ ip \in Nat \ {0}
           /\ ip + 1 \in 1 .. Len(code[at]) + 1 /\ Here = <<at, ip>> /\ Here \in Points
           /\ Instr(Here) = code[at][ip] /\ code[at][ip].op = op
           /\ code[at][ip].var \in Vars \/ op \notin {"load", "store"}
           /\ op # "load" => Here \in DOMAIN opnd
<1>1. at \in Blocks /\ at \in D!Reachable /\ ip \in DOMAIN code[at] /\ Here = <<at, ip>>
      /\ Instr(Here) = code[at][ip] /\ code[at][ip].op = op
  BY DEF Running, Promotion, PathFacts, Agree, IsOp, Instr, Here
<1>2. DOMAIN code[at] = 1 .. Len(code[at]) /\ Len(code[at]) \in Nat
  BY <1>1, LenProperties DEF Promotion, Code
<1>3. code[at][ip].var \in Vars \/ op \notin {"load", "store"}
  BY <1>1, InstructionsOf DEF Promotion
<1>4. op # "load" => Here \in DOMAIN opnd
  BY <1>1, InstructionsOf DEF Promotion
<1>5. ip + 1 \in 1 .. Len(code[at]) + 1 /\ ip \in Nat \ {0}
  BY <1>1, <1>2
<1>6. Here \in Points
  BY <1>1 DEF Points
<1> QED  BY <1>1, <1>3, <1>4, <1>5, <1>6

(* An instruction that stores nothing leaves what the memory agrees with,  *)
(* whatever it computes.                                                   *)
LEMMA MemoryOn ==
    ASSUME Promotion, Agree, NEW op, Running(op), NEW n, NEW v \in Vars, mem[v] # Undef,
           ~(op = "store" /\ code[at][ip].var = v)
    PROVE  \E q : /\ Latest(v, <<at, ip>>, q) /\ Latest(v, <<at, ip + 1>>, q)
                  /\ EvalIn(env, ValAt(v, q)) = mem[v]
                  /\ EvalIn(Bind(env, Inst(at, ip), n), ValAt(v, q)) = mem[v]
<1>1. /\ at \in Blocks /\ at \in D!Reachable /\ ip \in Nat \ {0} /\ Here = <<at, ip>>
      /\ code[at][ip].op = op
  BY HereIs
<1>2. Code /\ Typed /\ PathFacts /\ OperandsBefore
  BY DEF Promotion
<1>3. PICK p : p = Here
  OBVIOUS
<1>4. PICK q : Latest(v, p, q) /\ EvalIn(env, ValAt(v, q)) = mem[v]
  BY <1>3 DEF Agree
<1>5. <<at, ip>> \notin DefPoints(v)
  <2> SUFFICES ASSUME <<at, ip>> \in DefPoints(v) PROVE FALSE
    OBVIOUS
  <2>1. ip \in StoresTo(at, v)
    BY <1>1, <1>2, DefPointsIs
  <2> QED  BY <1>1, <2>1 DEF StoresTo
<1>6. Latest(v, <<at, ip + 1>>, q)
  BY <1>1, <1>2, <1>3, <1>4, <1>5, LatestOn
<1>7. p[1] = at /\ p[2] = ip /\ q \in DefPoints(v) /\ Before(q, p) /\ ip \in Int
  BY <1>1, <1>3, <1>4 DEF Latest
<1>8. ValAt(v, q) # Inst(at, ip)
  BY <1>1, <1>2, <1>7, NotYet
<1> QED  BY <1>1, <1>3, <1>4, <1>6, <1>8, EvalBind

LEMMA ResultBefore ==
    ASSUME Code, NEW b, NEW k \in Nat, <<b, k + 1>> \in DOMAIN opnd, Instr(<<b, k + 1>>).arg = Prev
    PROVE  code[b][k].op \in {"load", "add"}
<1>1. PICK p : p = <<b, k + 1>>
  OBVIOUS
<1>2. p[1] = b /\ p[2] - 1 = k
  BY <1>1
<1>3. code[p[1]][p[2] - 1].op \in {"load", "add"}
  BY <1>1, OperandPlace
<1> QED  BY <1>2, <1>3

LEMMA AgreeLoad ==
    ASSUME Promotion, Agree, RunLoad
    PROVE  Agree'
<1>1. /\ Running("load") /\ reg' = mem[Instr(Here).var] /\ at' = at /\ ip' = ip + 1
      /\ env' = Bind(env, Inst(at, ip), IF at \in erased THEN Undef ELSE mem[Instr(Here).var])
      /\ UNCHANGED <<succ, code, phis, opnd, mem>>
  BY DEF RunLoad, RunOn, domVars, irVars
<1>2. /\ at \in Blocks /\ at \in D!Reachable /\ ip \in Nat \ {0} /\ Here = <<at, ip>>
      /\ ip + 1 \in 1 .. Len(code[at]) + 1
      /\ Instr(Here) = code[at][ip] /\ code[at][ip].op = "load" /\ code[at][ip].var \in Vars
  BY <1>1, HereIs
<1>3. DOMAIN mem' = Vars
  BY <1>1 DEF Agree
<1>4. PICK n, e : e = env' /\ e = Bind(env, Inst(at, ip), n)
  BY <1>1
<1>5. ASSUME NEW v \in Vars, mem'[v] # Undef
      PROVE  \E q : Latest(v, <<at, ip + 1>>, q) /\ EvalIn(env', ValAt(v, q)) = mem'[v]
  <2>1. mem[v] # Undef
    BY <1>1, <1>5
  <2>2. \E q : Latest(v, <<at, ip + 1>>, q) /\ EvalIn(e, ValAt(v, q)) = mem[v]
    BY <1>1, <1>4, <2>1, MemoryOn
  <2> QED  BY <1>1, <1>4, <2>2
<1>6. ASSUME <<at, ip + 1>> \in DOMAIN opnd, Instr(<<at, ip + 1>>).arg = Prev, reg' # Undef
      PROVE  EvalIn(env', opnd[<<at, ip + 1>>]) = reg'
  <2>1. PICK p, v : p = <<at, ip + 1>> /\ v = code[at][ip].var
    OBVIOUS
  <2>2. p[1] = at /\ p[2] - 1 = ip
    BY <1>2, <2>1
  <2>3. OperandIs(p)
    BY <1>2, <1>6, <2>1, <2>2 DEF Promotion, OperandsAre
  <2>4. LoadBefore(p) /\ Passed(p[1], p[2] - 1)
    BY <1>2, <1>6, <2>1, <2>2 DEF LoadBefore, Passed, Promotion
  <2>5. \A q : Latest(v, <<at, ip>>, q) => opnd[p] = ValAt(v, q)
    BY <2>1, <2>2, <2>3, <2>4 DEF OperandIs
  <2>6. mem[v] # Undef /\ reg' = mem[v] /\ v \in Vars
    BY <1>1, <1>2, <1>6, <2>1
  <2>7. \E q : Latest(v, <<at, ip>>, q) /\ EvalIn(e, ValAt(v, q)) = mem[v]
    BY <1>1, <1>4, <2>6, MemoryOn
  <2> QED  BY <1>4, <2>1, <2>5, <2>6, <2>7
<1> QED  BY <1>1, <1>2, <1>3, <1>5, <1>6, AgreeIf

LEMMA AgreeAdd ==
    ASSUME Promotion, Agree, RunAdd
    PROVE  Agree'
<1>1. /\ Running("add") /\ reg' = Plus1(Original) /\ at' = at /\ ip' = ip + 1
      /\ env' = Bind(env, Inst(at, ip), Plus1(Promoted))
      /\ UNCHANGED <<succ, code, phis, opnd, mem>>
  BY DEF RunAdd, RunOn, domVars, irVars
<1>2. /\ at \in Blocks /\ at \in D!Reachable /\ ip \in Nat \ {0} /\ Here = <<at, ip>>
      /\ ip + 1 \in 1 .. Len(code[at]) + 1 /\ Here \in DOMAIN opnd
      /\ Instr(Here) = code[at][ip] /\ code[at][ip].op = "add"
  BY <1>1, HereIs
<1>3. DOMAIN mem' = Vars
  BY <1>1 DEF Agree
<1>4. PICK n, e : e = env' /\ e = Bind(env, Inst(at, ip), n) /\ n = Plus1(Promoted)
  BY <1>1
<1>5. ASSUME NEW v \in Vars, mem'[v] # Undef
      PROVE  \E q : Latest(v, <<at, ip + 1>>, q) /\ EvalIn(env', ValAt(v, q)) = mem'[v]
  <2>1. mem[v] # Undef
    BY <1>1, <1>5
  <2>2. \E q : Latest(v, <<at, ip + 1>>, q) /\ EvalIn(e, ValAt(v, q)) = mem[v]
    BY <1>1, <1>4, <2>1, MemoryOn
  <2> QED  BY <1>1, <1>4, <2>2
<1>6. ASSUME <<at, ip + 1>> \in DOMAIN opnd, Instr(<<at, ip + 1>>).arg = Prev, reg' # Undef
      PROVE  EvalIn(env', opnd[<<at, ip + 1>>]) = reg'
  <2>1. PICK p : p = <<at, ip + 1>>
    OBVIOUS
  <2>2. p[1] = at /\ p[2] - 1 = ip
    BY <1>2, <2>1
  <2>3. OperandIs(p)
    BY <1>2, <1>6, <2>1, <2>2 DEF Promotion, OperandsAre
  <2>4. ~LoadBefore(p)
    BY <1>2, <2>2 DEF LoadBefore
  <2>5. opnd[p] = Inst(at, ip)
    BY <1>6, <2>1, <2>2, <2>3, <2>4 DEF OperandIs
  <2>6. Original # Undef
    BY <1>1, <1>6 DEF Plus1
  <2>7. reg' = n
    BY <1>1, <1>2, <1>4, <2>6, OriginalIs
  <2>8. EvalIn(e, Inst(at, ip)) = n
    BY <1>4, EvalBind
  <2> QED  BY <1>4, <2>1, <2>5, <2>7, <2>8
<1> QED  BY <1>1, <1>2, <1>3, <1>5, <1>6, AgreeIf

LEMMA AgreeStore ==
    ASSUME Promotion, Agree, RunStore
    PROVE  Agree'
<1>1. /\ Running("store") /\ at' = at /\ ip' = ip + 1 /\ UNCHANGED <<succ, code, phis, opnd, reg, env>>
      /\ mem' = [mem EXCEPT ![Instr(Here).var] = Original]
  BY DEF RunStore, RunOn, domVars, irVars
<1>2. /\ at \in Blocks /\ at \in D!Reachable /\ ip \in DOMAIN code[at] /\ ip \in Nat \ {0}
      /\ Here = <<at, ip>> /\ ip + 1 \in 1 .. Len(code[at]) + 1 /\ Here \in DOMAIN opnd
      /\ Instr(Here) = code[at][ip] /\ code[at][ip].op = "store" /\ code[at][ip].var \in Vars
  BY <1>1, HereIs
<1>3. PICK w : w = Instr(Here).var
  OBVIOUS
<1>4. /\ DOMAIN mem' = Vars /\ w \in Vars /\ w = code[at][ip].var
      /\ \A v \in Vars : mem'[v] = IF v = w THEN Original ELSE mem[v]
  BY <1>1, <1>2, <1>3 DEF Agree
<1>5. ASSUME NEW v \in Vars, mem'[v] # Undef
      PROVE  \E q : Latest(v, <<at, ip + 1>>, q) /\ EvalIn(env', ValAt(v, q)) = mem'[v]
  <2>1. CASE v = w
    <3>1. mem'[v] = Original /\ Original # Undef
      BY <1>4, <1>5, <2>1
    <3>2. Promoted = Original
      BY <1>2, <3>1, OriginalIs
    <3>3. ip \in StoresTo(at, v)
      BY <1>2, <1>4, <2>1 DEF StoresTo
    <3>4. Latest(v, <<at, ip + 1>>, <<at, ip>>)
      BY <1>2, <3>3, LatestStored DEF Promotion
    <3>5. ValAt(v, <<at, ip>>) = opnd[<<at, ip>>]
      BY <1>2 DEF ValAt
    <3>6. EvalIn(env, ValAt(v, <<at, ip>>)) = mem'[v]
      BY <1>2, <3>1, <3>2, <3>5 DEF Promoted
    <3> QED  BY <1>1, <3>4, <3>6
  <2>2. CASE v # w
    <3>1. mem'[v] = mem[v]
      BY <1>4, <2>2
    <3>2. mem[v] # Undef /\ code[at][ip].var # v
      BY <1>4, <1>5, <2>2, <3>1
    <3>3. \E q : Latest(v, <<at, ip + 1>>, q) /\ EvalIn(env, ValAt(v, q)) = mem[v]
      BY <1>1, <3>2, MemoryOn
    <3> QED  BY <1>1, <3>1, <3>3
  <2> QED  BY <2>1, <2>2
<1>6. ~(<<at, ip + 1>> \in DOMAIN opnd /\ Instr(<<at, ip + 1>>).arg = Prev)
  BY <1>2, ResultBefore DEF Promotion
<1> QED  BY <1>1, <1>2, <1>4, <1>5, <1>6, AgreeIf

LEMMA AgreePrint ==
    ASSUME Promotion, Agree, RunPrint
    PROVE  Agree'
<1>1. /\ Running("print") /\ at' = at /\ ip' = ip + 1
      /\ UNCHANGED <<succ, code, phis, opnd, mem, reg, env>>
  BY DEF RunPrint, RunOn, domVars, irVars
<1>2. /\ at \in Blocks /\ at \in D!Reachable /\ ip \in Nat \ {0}
      /\ ip + 1 \in 1 .. Len(code[at]) + 1 /\ code[at][ip].op = "print"
  BY <1>1, HereIs
<1>3. DOMAIN mem' = Vars
  BY <1>1 DEF Agree
<1>4. ASSUME NEW v \in Vars, mem'[v] # Undef
      PROVE  \E q : Latest(v, <<at, ip + 1>>, q) /\ EvalIn(env', ValAt(v, q)) = mem'[v]
  <2>1. mem[v] # Undef
    BY <1>1, <1>4
  <2>2. \E q : Latest(v, <<at, ip + 1>>, q) /\ EvalIn(env, ValAt(v, q)) = mem[v]
    BY <1>1, <2>1, MemoryOn
  <2> QED  BY <1>1, <2>2
<1>5. ~(<<at, ip + 1>> \in DOMAIN opnd /\ Instr(<<at, ip + 1>>).arg = Prev)
  BY <1>2, ResultBefore DEF Promotion
<1> QED  BY <1>1, <1>2, <1>3, <1>4, <1>5, AgreeIf

LEMMA AgreeBranch ==
    ASSUME Promotion, Agree, RunBranch
    PROVE  Agree'
<1>1. PICK b \in ToSet(succ[at]) : Enter(b, EnterEnv(b, at))
  BY DEF RunBranch
<1>2. /\ ip \notin DOMAIN code[at] /\ UNCHANGED <<succ, code, phis, opnd, mem>>
      /\ at' = b /\ ip' = 1 /\ reg' = Undef /\ env' = EnterEnv(b, at)
  BY <1>1 DEF RunBranch, Enter, domVars, irVars
<1>3. /\ at \in D!Reachable /\ at \in Blocks /\ b \in D!Reachable /\ b \in Blocks
  BY <1>1 DEF Promotion, PathFacts, Agree
<1>4. /\ DOMAIN code[at] = 1 .. Len(code[at]) /\ Len(code[at]) \in Nat /\ Len(code[b]) \in Nat
  BY <1>3, LenProperties DEF Promotion, Code
<1>5. ip = Len(code[at]) + 1 /\ 1 \in 1 .. Len(code[b]) + 1
  BY <1>2, <1>4 DEF Agree
<1>6. Here = End(at)
  BY <1>5 DEF Here, End
<1>7. PICK e : e = EnterEnv(b, at)
  OBVIOUS
<1>8. /\ Code /\ Typed /\ PathFacts /\ FrontierFacts /\ Placed /\ FilledPhis
      /\ D!Reachable \subseteq erased /\ OperandsBefore /\ PhiValues
  BY DEF Promotion
<1>9. ASSUME NEW v \in Vars, mem[v] # Undef
      PROVE  \E q : Latest(v, <<b, 1>>, q) /\ EvalIn(e, ValAt(v, q)) = mem[v]
  <2>1. PICK q : Latest(v, End(at), q) /\ EvalIn(env, ValAt(v, q)) = mem[v]
    BY <1>6, <1>9 DEF Agree
  <2>2. CASE <<b, v>> \in phis
    <3>1. /\ Latest(v, <<b, 1>>, <<b, 0>>)
          /\ EvalIn(EnterEnv(b, at), ValAt(v, <<b, 0>>)) = EvalIn(env, ValAt(v, q))
      BY <1>1, <1>3, <1>8, <2>1, <2>2, EdgePhi
    <3>2. EvalIn(e, ValAt(v, <<b, 0>>)) = mem[v]
      BY <1>7, <2>1, <3>1
    <3> QED  BY <3>1, <3>2
  <2>3. CASE <<b, v>> \notin phis
    <3>1. D!StrictDom(q[1], b) /\ Latest(v, <<b, 1>>, q) /\ q \in DefPoints(v)
      BY <1>1, <1>3, <1>8, <2>1, <2>3, EdgeLatest DEF Latest
    <3>2. EvalIn(e, ValAt(v, q)) = EvalIn(env, ValAt(v, q))
      BY <1>3, <1>7, <1>8, <3>1, EdgeValue
    <3> QED  BY <2>1, <3>1, <3>2
  <2> QED  BY <2>2, <2>3
<1>10. ASSUME NEW v \in Vars, mem'[v] # Undef
       PROVE  \E q : Latest(v, <<b, 1>>, q) /\ EvalIn(env', ValAt(v, q)) = mem'[v]
  <2>1. mem[v] # Undef
    BY <1>2, <1>10
  <2> QED  BY <1>2, <1>7, <1>9, <2>1
<1>11. DOMAIN mem' = Vars
  BY <1>2 DEF Agree
<1> QED  BY <1>2, <1>3, <1>5, <1>10, <1>11, AgreeIf

-----------------------------------------------------------------------------
(* The invariant of the values: what stacks, operands and phis hold, and,  *)
(* once the promoted function runs, what the two executions agree on.      *)
Values ==
    /\ OperandsBefore /\ OperandsAre /\ PhiValues
    /\ phase = "rename" => Content
    /\ phase \in {"run", "exit"} => Agree /\ PrintsAgree
    /\ phase \notin {"run", "exit"} => mem = [v \in Vars |-> Undef] /\ seen = << >>

LEMMA Finished ==
    ASSUME Renaming, Values, phase \in {"run", "exit"}
    PROVE  Promotion
<1>1. PathFacts /\ TreeFacts /\ FrontierFacts /\ Code /\ Typed /\ Placed /\ FilledPhis
  BY Analysed DEF Renaming
<1>2. D!Reachable \subseteq erased
  BY <1>1, AllRenamed
<1> QED  BY <1>1, <1>2 DEF Promotion, Values

LEMMA NonePassed ==
    ASSUME Depth = 0, erased = {}, NEW b, NEW k
    PROVE  ~Passed(b, k)
<1>1. 1 .. Depth = {}
  OBVIOUS
<1> QED  BY <1>1 DEF Passed

LEMMA ValuesInit ==
    ASSUME Init
    PROVE  Values
<1>1. Code /\ Typed
  BY TypedInit
<1>2. /\ phase = "dominators" /\ erased = {} /\ phis = {} /\ seen = << >>
      /\ mem = [v \in Vars |-> Undef] /\ frames = << >>
      /\ opnd = [p \in {q \in Points : ~IsOp(q, "load")} |->
                   IF Instr(p).arg = Prev THEN Inst(p[1], p[2] - 1) ELSE Instr(p).arg]
  BY DEF Init
<1>3. Depth = 0
  BY <1>2, EmptySeq DEF Depth
<1>4. ASSUME NEW p \in DOMAIN opnd PROVE OperandIs(p)
  <2>1. opnd[p] = IF Instr(p).arg = Prev THEN Inst(p[1], p[2] - 1) ELSE Instr(p).arg
    BY <1>2, <1>4
  <2>2. ~Passed(p[1], p[2] - 1)
    BY <1>2, <1>3, NonePassed
  <2> QED  BY <2>1, <2>2 DEF OperandIs
<1>5. ASSUME NEW p \in DOMAIN opnd, opnd[p][1] # "const" PROVE Before(DefAt(opnd[p]), p)
  <2>1. /\ p[2] \in Nat \ {0} /\ (Instr(p).arg = Prev \/ Instr(p).arg[1] = "const")
    BY <1>1, <1>5, OperandPlace
  <2>2. opnd[p] = Inst(p[1], p[2] - 1)
    BY <1>2, <1>5, <2>1
  <2>3. DefAt(opnd[p])[1] = p[1] /\ DefAt(opnd[p])[2] = p[2] - 1
    BY <2>2 DEF DefAt, Inst
  <2>4. p[2] - 1 < p[2]
    BY <2>1
  <2> QED  BY <2>3, <2>4 DEF Before
<1> QED  BY <1>2, <1>4, <1>5 DEF Values, OperandsAre, OperandsBefore, PhiValues

LEMMA BeforeKept ==
    ASSUME OperandsBefore, UNCHANGED <<succ, opnd>>
    PROVE  OperandsBefore'
BY PathsKept, OrderKept DEF OperandsBefore, DefAt

LEMMA ValuesAnalyse ==
    ASSUME Renaming, Values, Analyse
    PROVE  Values'
<1>1. /\ phase = "dominators" /\ D!Step
      /\ UNCHANGED <<code, opnd, erased, phis, phiArgs, phase, frames, mem, seen>>
  BY DEF Analyse, irVars, renameVars, runVars
<1>2. UNCHANGED succ
  BY <1>1 DEF D!Step, D!VisitSucc, D!VisitDone, D!StartIdom, D!IdomBlock, D!IdomSweepDone,
      D!FrontierBlock, D!CreateTree, D!graphVars
<1>3. OperandsBefore' /\ PhiValues'
  BY <1>1, <1>2, BeforeKept, PhiValuesKept DEF Values
<1>4. \A b, k : (Passed(b, k))' <=> Passed(b, k)
  BY <1>1 DEF Passed, Depth
<1>5. OperandsAre'
  BY <1>1, <1>2, <1>4, OperandsAreKept DEF Values
<1> QED  BY <1>1, <1>3, <1>5 DEF Values

LEMMA ValuesStart ==
    ASSUME Renaming, Values, GeneratePhi
    PROVE  Values'
<1>1. /\ phase = "dominators" /\ pc = "done" /\ phase' = "rename"
      /\ frames' = <<Frame(Entry)>> /\ phiArgs' = [p \in phis' |-> << >>]
      /\ UNCHANGED <<succ, code, opnd, erased, valStack, mem, seen>>
  BY DEF GeneratePhi, domVars, runVars
<1>2. Code /\ Typed /\ frames = << >> /\ erased = {} /\ Stacks
  BY <1>1 DEF Renaming
<1>3. OperandsBefore'
  BY <1>1, BeforeKept DEF Values
<1>4. PhiValues'
  <2>1. ASSUME NEW p \in phis' PROVE 1 .. Len(phiArgs'[p]) = {}
    <3>1. phiArgs'[p] = << >>
      BY <1>1, <2>1
    <3>2. Len(phiArgs'[p]) = 0
      BY <3>1, EmptySeq
    <3> QED  BY <3>2
  <2> QED  BY <2>1 DEF PhiValues
<1>5. Content'
  <2>1. ASSUME NEW v \in Vars PROVE Len(valStack'[v]) = 0
    <3>1. Len(valStack[v]) = 0
      BY <1>2, NoFrames, FS_EmptySet DEF Stacks, StackOf
    <3> QED  BY <1>1, <3>1
  <2>2. ASSUME NEW v \in Vars PROVE 1 .. Len(valStack'[v]) = {}
    <3>1. Len(valStack'[v]) = 0
      BY <2>1
    <3> QED  BY <3>1
  <2> QED  BY <2>2 DEF Content, Holds
<1>6. ASSUME NEW b, NEW k \in Nat PROVE ~Passed(b, k) /\ ~(Passed(b, k))'
  <2>1. Depth = 0
    BY <1>2, EmptySeq DEF Depth
  <2>2. ~Passed(b, k)
    BY <1>2, <2>1, NonePassed
  <2>3. Depth' = 1 /\ frames'[1].k = 0
    BY <1>1 DEF Depth, Frame
  <2>4. \A i \in 1 .. Depth' : i = 1
    BY <2>3
  <2>5. ~(k < 0)
    OBVIOUS
  <2> QED  BY <1>1, <1>2, <2>2, <2>3, <2>4, <2>5 DEF Passed
<1>7. OperandsAre'
  <2>1. D!Reachable' = D!Reachable
    BY <1>1, PathsKept
  <2>2. ASSUME NEW p \in DOMAIN opnd, p[1] \in D!Reachable PROVE OperandIs(p)'
    <3>1. OperandIs(p)
      BY <2>2 DEF Values, OperandsAre
    <3>2. LoadBefore(p) => p[2] - 1 \in Nat
      BY <1>2, <2>2, OperandPlace DEF LoadBefore
    <3>3. PICK b, k : b = p[1] /\ k = p[2] - 1
      OBVIOUS
    <3>4. LoadBefore(p) => ~Passed(b, k) /\ ~(Passed(b, k))'
      BY <1>6, <3>2, <3>3
    <3>5. (LoadBefore(p))' <=> LoadBefore(p)
      BY <1>1 DEF LoadBefore, Instr
    <3>6. (Instr(p))' = Instr(p) /\ opnd'[p] = opnd[p]
      BY <1>1 DEF Instr
    <3>7. LoadBefore(p) => ~Passed(p[1], p[2] - 1) /\ ~(Passed(p[1], p[2] - 1))'
      BY <3>3, <3>4
    <3> QED  BY <3>1, <3>5, <3>6, <3>7 DEF OperandIs
  <2> QED  BY <1>1, <2>1, <2>2 DEF OperandsAre
<1> QED  BY <1>1, <1>3, <1>4, <1>5, <1>7 DEF Values

LEMMA ValuesRename ==
    ASSUME Renaming, Values, Rename
    PROVE  Values'
<1>1. /\ phase = "rename" /\ phase' \in {"rename", "ub"} /\ UNCHANGED <<mem, seen>>
  BY DEF Rename, PushPhis, RenameLoad, RenameStore, RenameOther, FillSuccPhis, Recurse, Leave, AtInstr,
         Active, runVars
<1>2. /\ Code /\ Typed /\ Chain /\ Stacks /\ PathFacts /\ TreeFacts
      /\ Content /\ OperandsBefore /\ OperandsAre /\ PhiValues
  BY <1>1, Analysed DEF Renaming, Values
<1>3. OperandsBefore' /\ OperandsAre' /\ PhiValues' /\ Content'
  BY <1>2, BeforeRename, OperandsAreRename, PhiValuesRename, ContentRename
<1> QED  BY <1>1, <1>3 DEF Values

(* The execution changes nothing it runs.                                  *)
LEMMA ValuesKept ==
    ASSUME Values, UNCHANGED <<domVars, code, irVars, renameVars>>
    PROVE  OperandsBefore' /\ OperandsAre' /\ PhiValues' /\ (Content => Content')
<1>1. UNCHANGED <<succ, code, opnd, erased, phis, phiArgs, valStack, frames>>
  BY DEF domVars, irVars, renameVars
<1>2. \A b, k : (Passed(b, k))' <=> Passed(b, k)
  BY <1>1 DEF Passed, Depth
<1>3. OperandsBefore' /\ PhiValues' /\ OperandsAre'
  BY <1>1, <1>2, BeforeKept, PhiValuesKept, OperandsAreKept DEF Values
<1>4. ASSUME Content PROVE Content'
  <2> SUFFICES ASSUME NEW v \in Vars PROVE Holds(v)'
    BY DEF Content
  <2>1. (Under(Depth, v))' = Under(Depth, v)
    BY <1>1 DEF Under, Depth, PushedBy, PhisOf, StoresTo
  <2>2. \A q : (ValAt(v, q))' = ValAt(v, q)
    BY <1>1 DEF ValAt
  <2> QED  BY <1>1, <1>4, <2>1, <2>2, HoldsKept DEF Content
<1> QED  BY <1>3, <1>4

LEMMA ValuesStartRun ==
    ASSUME Renaming, Values, StartRun
    PROVE  Values'
<1>1. /\ phase = "rename" /\ phase' = "run" /\ at' = Entry /\ ip' = 1 /\ seen' = << >> /\ reg' = Undef
      /\ UNCHANGED <<succ, code, phis, opnd, mem>> /\ UNCHANGED <<domVars, code, irVars, renameVars>>
  BY DEF StartRun, Enter, domVars, irVars
<1>2. mem = [v \in Vars |-> Undef] /\ Code /\ PathFacts
  BY <1>1, Analysed DEF Renaming, Values
<1>3. Entry \in D!Reachable /\ Len(code[Entry]) \in Nat
  BY <1>2, LenProperties DEF PathFacts, Code
<1>4. 1 \in 1 .. Len(code[Entry]) + 1
  BY <1>3
<1>5. DOMAIN mem' = Vars /\ \A v \in Vars : mem'[v] = Undef
  BY <1>1, <1>2
<1>6. Agree'
  BY <1>1, <1>3, <1>4, <1>5, AgreeIf
<1>7. PrintsAgree'
  <2>1. seen' \in Seq({})
    BY <1>1, EmptySeq
  <2> QED  BY <2>1 DEF PrintsAgree
<1> QED  BY <1>1, <1>6, <1>7, ValuesKept DEF Values

LEMMA PrintsAgreeStep ==
    ASSUME Promotion, Agree, PrintsAgree, Run
    PROVE  PrintsAgree'
<1>1. CASE RunPrint
  <2>1. Running("print") /\ seen' = Append(seen, <<Original, Promoted>>)
    BY <1>1 DEF RunPrint
  <2>2. Here \in DOMAIN opnd
    BY <2>1, HereIs
  <2>3. PICK x : x = <<Original, Promoted>>
    OBVIOUS
  <2>4. x[1] # Undef => x[1] = x[2]
    BY <2>2, <2>3, OriginalIs
  <2>5. PICK S : seen \in Seq(S) /\ \A y \in S : y[1] # Undef => y[1] = y[2]
    BY DEF PrintsAgree
  <2>6. seen \in Seq(S \cup {x})
    BY <2>5, SeqMonotonic
  <2>7. seen' \in Seq(S \cup {x})
    BY <2>1, <2>3, <2>6, AppendProperties
  <2> QED  BY <2>4, <2>5, <2>7 DEF PrintsAgree
<1>2. CASE RunBranch
  <2>1. seen' = << >>
    BY <1>2 DEF RunBranch, Enter
  <2>2. seen' \in Seq({})
    BY <2>1, EmptySeq
  <2> QED  BY <2>2 DEF PrintsAgree
<1>3. CASE RunLoad \/ RunAdd \/ RunStore \/ RunExit
  <2>1. seen' = seen
    BY <1>3 DEF RunLoad, RunAdd, RunStore, RunExit, runVars
  <2> QED  BY <2>1 DEF PrintsAgree
<1> QED  BY <1>1, <1>2, <1>3 DEF Run

LEMMA AgreeKept ==
    ASSUME Agree, UNCHANGED <<succ, code, phis, opnd, runVars>>
    PROVE  Agree'
<1>1. /\ DOMAIN mem' = Vars /\ at \in D!Reachable /\ ip \in 1 .. Len(code[at]) + 1 /\ at' = at /\ ip' = ip
      /\ mem' = mem /\ reg' = reg /\ env' = env /\ Here = <<at, ip>>
  BY DEF Agree, runVars, Here
<1> QED  BY <1>1, AgreeIf DEF Agree, Promoted

LEMMA ValuesRun ==
    ASSUME Renaming, Values, Run
    PROVE  Values'
<1>1. /\ phase = "run" /\ phase' \in {"run", "exit"} /\ UNCHANGED <<domVars, code, irVars, renameVars>>
  BY DEF Run, RunLoad, RunAdd, RunStore, RunPrint, RunBranch, RunExit, Running, RunOn
<1>2. Promotion /\ Agree /\ PrintsAgree
  BY <1>1, Finished DEF Values
<1>3. Agree'
  <2>1. CASE RunExit
    BY <1>2, <2>1, AgreeKept DEF RunExit, domVars, irVars
  <2> QED  BY <1>2, <2>1, AgreeLoad, AgreeAdd, AgreeStore, AgreePrint, AgreeBranch DEF Run
<1>4. PrintsAgree'
  BY <1>2, PrintsAgreeStep
<1> QED  BY <1>1, <1>3, <1>4, ValuesKept DEF Values

LEMMA ValuesStutter ==
    ASSUME Values, UNCHANGED vars
    PROVE  Values'
<1>1. /\ UNCHANGED <<domVars, code, irVars, renameVars>> /\ UNCHANGED <<phase, mem, seen>>
      /\ UNCHANGED <<succ, code, phis, opnd, runVars>>
  BY DEF vars, domVars, irVars, runVars
<1>2. OperandsBefore' /\ OperandsAre' /\ PhiValues' /\ (Content => Content')
  BY <1>1, ValuesKept
<1>3. (Agree => Agree') /\ (PrintsAgree => PrintsAgree')
  BY <1>1, AgreeKept DEF PrintsAgree
<1> QED  BY <1>1, <1>2, <1>3 DEF Values

(* The inductive invariant of what is renamed: the m-th value on a stack   *)
(* is that of the m-th definition, an operand that replaced a load is the  *)
(* last definition's, and so is a phi's for each edge; hence the promoted  *)
(* function, when it runs, has in its values what the original has in its  *)
(* memory.                                                                 *)
THEOREM ValuesInvariant == Spec => []Values
<1>1. Init => Values
  BY ValuesInit
<1>2. Renaming /\ Values /\ [Next]_vars => Values'
  BY ValuesAnalyse, ValuesStart, ValuesRename, ValuesStartRun, ValuesRun, ValuesStutter
  DEF Next, Compile
<1> QED  BY <1>1, <1>2, RenamingInvariant, PTL DEF Spec

(* Promotion preserves the program: whatever function Mem2Reg is given,    *)
(* along every path the promoted one prints what the original prints,      *)
(* wherever that is defined.                                               *)
THEOREM OutputPreserved == Spec => []SameOutput
<1>1. Values => SameOutput
  <2>1. ASSUME PrintsAgree PROVE SameOutput
    <3>1. PICK S : seen \in Seq(S) /\ \A x \in S : x[1] # Undef => x[1] = x[2]
      BY <2>1 DEF PrintsAgree
    <3>2. \A i \in DOMAIN seen : seen[i] \in S
      BY <3>1, ElementOfSeq, LenProperties
    <3> QED  BY <3>1, <3>2 DEF SameOutput
  <2>2. ASSUME seen = << >> PROVE SameOutput
    BY <2>2, EmptySeq, LenProperties DEF SameOutput
  <2> QED  BY <2>1, <2>2 DEF Values
<1> QED  BY <1>1, ValuesInvariant, PTL

==============================================================================
