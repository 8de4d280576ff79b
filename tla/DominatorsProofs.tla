--------------------------- MODULE DominatorsProofs ---------------------------
(***************************************************************************)
(* The fixed point of create_idom is the immediate dominator relation, for *)
(* every function, and idoms only climb on the way there.                  *)
(***************************************************************************)
EXTENDS Dominators, SequenceTheorems, FiniteSetTheorems, WellFoundedInduction, TLAPS

LEMMA BlocksAreFinite == IsFiniteSet(Blocks)
<1> DEFINE n == Len(BlockList)
<1>1. n \in Nat /\ DOMAIN BlockList = 1 .. n /\ BlockList \in [1 .. n -> Blocks]
  BY BlockListAssumption, LenProperties
<1>2. Blocks = {BlockList[i] : i \in 1 .. n}
  BY <1>1 DEF Blocks, ToSet
<1> HIDE DEF n
<1>3. BlockList \in Surjection(1 .. n, Blocks)
  BY <1>1, <1>2 DEF Surjection
<1>4. IsFiniteSet(1 .. n)
  BY <1>1, FS_Interval
<1> QED  BY <1>3, <1>4, FS_Surjection

-----------------------------------------------------------------------------
(* Paths.                                                                  *)

IsGraph ==
    /\ succ \in [Blocks -> Seq(Blocks \ {Entry})]
    /\ \A b \in Blocks : Len(succ[b]) <= 2

Targets(b) == ToSet(succ[b])

LEMMA TargetsAreBlocks ==
    ASSUME IsGraph, NEW b \in Blocks
    PROVE  Targets(b) \subseteq Blocks \ {Entry}
<1>1. succ[b] \in Seq(Blocks \ {Entry})
  BY DEF IsGraph
<1>2. \A i \in DOMAIN succ[b] : succ[b][i] \in Blocks \ {Entry}
  BY <1>1, LenProperties, ElementOfSeq
<1> QED  BY <1>2 DEF Targets, ToSet

(* What is reached without cut is closed, and the least that is.           *)
LEMMA ReachClosed ==
    ASSUME IsGraph, NEW cut
    PROVE  /\ ReachAvoiding(cut) \subseteq Blocks /\ cut \notin ReachAvoiding(cut)
           /\ Entry # cut => Entry \in ReachAvoiding(cut)
           /\ \A b \in ReachAvoiding(cut) : Targets(b) \ {cut} \subseteq ReachAvoiding(cut)
<1> DEFINE R == ReachAvoiding(cut)
<1>1. R \subseteq Blocks
  BY DEF ReachAvoiding
<1>2. Entry # cut => Entry \in R
  BY EntryAssumption DEF ReachAvoiding, ClosedBut
<1>3. cut \notin R
  <2> DEFINE S == Blocks \ {cut}
  <2>1. ClosedBut(cut, S)
    BY EntryAssumption, TargetsAreBlocks DEF ClosedBut, Targets
  <2>2. S \in SUBSET Blocks /\ cut \notin S
    OBVIOUS
  <2> HIDE DEF S
  <2> QED  BY <2>1, <2>2 DEF ReachAvoiding
<1>4. ASSUME NEW b \in R, NEW c \in Targets(b), c # cut PROVE c \in R
  <2>1. c \in Blocks
    BY <1>1, <1>4, TargetsAreBlocks
  <2>2. ASSUME NEW S \in SUBSET Blocks, ClosedBut(cut, S) PROVE c \in S
    <3>1. b \in S
      BY <2>2 DEF ReachAvoiding
    <3> QED  BY <1>4, <2>2, <3>1 DEF ClosedBut, Targets
  <2> QED  BY <2>1, <2>2 DEF ReachAvoiding
<1> QED  BY <1>1, <1>2, <1>3, <1>4

LEMMA ReachLeast ==
    ASSUME NEW cut, NEW S \in SUBSET Blocks, ClosedBut(cut, S)
    PROVE  ReachAvoiding(cut) \subseteq S
  BY DEF ReachAvoiding

LEMMA AvoidingIsReaching ==
    ASSUME IsGraph, NEW cut
    PROVE  ReachAvoiding(cut) \subseteq Reachable
<1>1. ClosedBut(cut, Reachable)
  <2>1. Entry # Null /\ Entry \in Reachable
    BY EntryAssumption, NullAssumption, ReachClosed DEF Reachable
  <2>2. \A b \in Reachable : Targets(b) \ {Null} \subseteq Reachable /\ b \in Blocks
    BY ReachClosed DEF Reachable
  <2>3. \A b \in Blocks : Null \notin Targets(b)
    BY NullAssumption, TargetsAreBlocks
  <2> QED  BY <2>1, <2>2, <2>3 DEF ClosedBut, Targets
<1>2. Reachable \in SUBSET Blocks
  BY ReachClosed DEF Reachable
<1> QED  BY <1>1, <1>2, ReachLeast

LEMMA ReachableClosed ==
    ASSUME IsGraph
    PROVE  /\ Reachable \subseteq Blocks /\ Entry \in Reachable
           /\ \A b \in Reachable : Targets(b) \subseteq Reachable
<1>1. Reachable \subseteq Blocks /\ Entry \in Reachable
  BY EntryAssumption, NullAssumption, ReachClosed DEF Reachable
<1>2. \A b \in Reachable : Targets(b) \ {Null} \subseteq Reachable
  BY ReachClosed DEF Reachable
<1>3. \A b \in Blocks : Null \notin Targets(b)
  BY NullAssumption, TargetsAreBlocks
<1> QED  BY <1>1, <1>2, <1>3

-----------------------------------------------------------------------------
(* Dominance is an order, and a strict dominator of a block dominates      *)
(* every predecessor the entry reaches.                                    *)

LEMMA DomEntry ==
    ASSUME IsGraph, NEW d, Dom(d, Entry)
    PROVE  d = Entry
  BY ReachClosed DEF Dom

LEMMA DomTransitive ==
    ASSUME IsGraph, NEW a, NEW b, NEW c, Dom(a, b), Dom(b, c)
    PROVE  Dom(a, c)
<1>1. SUFFICES ASSUME a # c, c \in ReachAvoiding(a), a # b, b # c
               PROVE  FALSE
  BY DEF Dom
<1>2. b \notin ReachAvoiding(a) /\ c \notin ReachAvoiding(b)
  BY <1>1 DEF Dom
<1> DEFINE X == ReachAvoiding(a) \cap ReachAvoiding(b)
<1>3. ClosedBut(a, X)
  <2>1. Entry # a => Entry \in X
    BY <1>2, ReachClosed
  <2>2. \A x \in X : Targets(x) \ {a} \subseteq X
    BY <1>2, ReachClosed
  <2> QED  BY <2>1, <2>2 DEF ClosedBut, Targets
<1>4. X \in SUBSET Blocks
  BY ReachClosed
<1>5. c \in X
  BY <1>1, <1>3, <1>4, ReachLeast
<1> QED  BY <1>2, <1>5

LEMMA DomOfPreds ==
    ASSUME IsGraph, NEW d, NEW b, NEW p \in Reachable, b \in Targets(p), StrictDom(d, b)
    PROVE  Dom(d, p)
<1>1. b \notin ReachAvoiding(d) /\ b # d
  BY DEF StrictDom, Dom
<1>2. CASE p \in ReachAvoiding(d)
  BY <1>1, <1>2, ReachClosed
<1>3. CASE p \notin ReachAvoiding(d)
  BY <1>3 DEF Dom
<1> QED  BY <1>2, <1>3

LEMMA PredsAreSources ==
    ASSUME IsGraph, NEW b
    PROVE  /\ Preds(b) \subseteq Blocks
           /\ \A p \in Preds(b) : b \in Targets(p)
  BY DEF Preds, PredEdges, Targets, ToSet

-----------------------------------------------------------------------------
(* The numbers of the walk: every block but the entry has a predecessor    *)
(* that finishes after it.                                                 *)

Numbered ==
    /\ poId \in [Blocks -> Nat]
    /\ visited = Reachable
    /\ \A b, c \in visited : poId[b] = poId[c] => b = c
    /\ \A b \in visited : poId[b] <= poId[Entry]
    /\ \A b \in visited \ {Entry} :
          \E p \in visited : b \in Targets(p) /\ poId[p] > poId[b]

LEMMA Largest ==
    ASSUME IsGraph, Numbered, NEW S \in SUBSET visited, S # {}
    PROVE  \E m \in S : \A x \in S : poId[x] <= poId[m]
<1> DEFINE n == poId[Entry]
           T == {n - poId[x] : x \in S}
<1>1. /\ n \in Nat
      /\ \A x \in S : poId[x] \in Nat /\ n - poId[x] \in Nat
  BY EntryAssumption, ReachableClosed DEF Numbered
<1>2. \E t \in T : \A u \in T : ~(<<u, t>> \in OpToRel(<, Nat))
  <2>1. T \subseteq Nat /\ T # {}
    BY <1>1
  <2> HIDE DEF T
  <2> QED  BY <2>1, NatLessThanWellFounded, WFMin
<1>3. PICK t \in T : \A u \in T : ~(u < t)
  <2>1. T \subseteq Nat
    BY <1>1
  <2> HIDE DEF T
  <2> QED  BY <1>2, <2>1 DEF OpToRel
<1>4. PICK m \in S : t = n - poId[m]
  OBVIOUS
<1>5. ASSUME NEW x \in S PROVE poId[x] <= poId[m]
  <2>1. ~(n - poId[x] < n - poId[m])
    BY <1>3, <1>4
  <2> QED  BY <1>1, <2>1
<1> QED  BY <1>5

(* A strict dominator finishes after the block.                            *)
LEMMA DominatorsFinishLater ==
    ASSUME IsGraph, Numbered, NEW d, NEW b \in visited, StrictDom(d, b)
    PROVE  d \in visited /\ poId[d] > poId[b]
<1> DEFINE Bad == {x \in visited : StrictDom(d, x) /\ ~(d \in visited /\ poId[d] > poId[x])}
<1>1. SUFFICES ASSUME Bad # {} PROVE FALSE
  OBVIOUS
<1>2. PICK x \in Bad : \A y \in Bad : poId[y] <= poId[x]
  <2>1. Bad \in SUBSET visited
    OBVIOUS
  <2> HIDE DEF Bad
  <2> QED  BY <1>1, <2>1, Largest
<1>3. x \in visited /\ StrictDom(d, x) /\ ~(d \in visited /\ poId[d] > poId[x])
  OBVIOUS
<1>4. x # Entry
  BY <1>3, DomEntry DEF StrictDom
<1>5. PICK p \in visited : x \in Targets(p) /\ poId[p] > poId[x]
  BY <1>3, <1>4 DEF Numbered
<1>6. Dom(d, p)
  BY <1>3, <1>5, DomOfPreds DEF Numbered
<1>7. d # p
  BY <1>3, <1>5
<1>8. p \notin Bad
  <2>1. poId[x] \in Nat /\ poId[p] \in Nat
    BY <1>3, <1>5, ReachableClosed DEF Numbered
  <2> HIDE DEF Bad
  <2> QED  BY <1>2, <1>5, <2>1
<1>9. d \in visited /\ poId[d] > poId[p]
  BY <1>6, <1>7, <1>8 DEF StrictDom
<1>10. poId[x] \in Nat /\ poId[p] \in Nat /\ poId[d] \in Nat
  BY <1>3, <1>5, <1>9, ReachableClosed DEF Numbered
<1> QED  BY <1>3, <1>5, <1>9, <1>10

-----------------------------------------------------------------------------
(* The forest idom_ is while the iteration runs.                           *)

Climbing ==
    /\ idom \in [Blocks -> Blocks \cup {Null}]
    /\ idom[Entry] = Entry /\ Processed \subseteq visited
    /\ \A b \in Processed \ {Entry} : idom[b] \in Processed /\ poId[idom[b]] > poId[b]

(* The chain from a block up.                                              *)
UpClosed(S) == \A b \in S : idom[b] # Null => idom[b] \in S
Above(b) == {a \in Blocks : \A S \in SUBSET Blocks : b \in S /\ UpClosed(S) => a \in S}

LEMMA AboveBasics ==
    ASSUME idom \in [Blocks -> Blocks \cup {Null}], NEW b \in Blocks
    PROVE  /\ b \in Above(b) /\ Above(b) \subseteq Blocks /\ UpClosed(Above(b))
           /\ \A S \in SUBSET Blocks : b \in S /\ UpClosed(S) => Above(b) \subseteq S
<1>1. UpClosed(Above(b))
  <2>1. SUFFICES ASSUME NEW a \in Above(b), idom[a] # Null PROVE idom[a] \in Above(b)
    BY DEF UpClosed
  <2>2. idom[a] \in Blocks
    BY <2>1 DEF Above
  <2>3. ASSUME NEW S \in SUBSET Blocks, b \in S, UpClosed(S) PROVE idom[a] \in S
    <3>1. a \in S
      BY <2>3 DEF Above
    <3> QED  BY <2>1, <2>3, <3>1 DEF UpClosed
  <2> QED  BY <2>2, <2>3 DEF Above
<1> QED  BY <1>1 DEF Above

LEMMA AboveTransitive ==
    ASSUME idom \in [Blocks -> Blocks \cup {Null}], NEW b \in Blocks, NEW a \in Above(b)
    PROVE  Above(a) \subseteq Above(b)
  BY AboveBasics

LEMMA AboveStep ==
    ASSUME idom \in [Blocks -> Blocks \cup {Null}], NEW b \in Processed
    PROVE  Above(b) = {b} \cup Above(idom[b])
<1>1. b \in Blocks /\ idom[b] \in Blocks
  BY DEF Processed
<1> DEFINE S == {b} \cup Above(idom[b])
<1>2. S \in SUBSET Blocks /\ b \in S /\ UpClosed(S)
  BY <1>1, AboveBasics DEF UpClosed
<1>3. Above(b) \subseteq S
  <2> HIDE DEF S
  <2> QED  BY <1>1, <1>2, AboveBasics
<1>4. idom[b] \in Above(b)
  BY <1>1, AboveBasics DEF UpClosed, Processed
<1>5. S \subseteq Above(b)
  BY <1>1, <1>4, AboveBasics, AboveTransitive
<1> QED  BY <1>3, <1>5

LEMMA AboveNumbers ==
    ASSUME IsGraph, Numbered, Climbing, NEW b \in Processed, NEW a \in Above(b)
    PROVE  a \in Processed /\ (a = b \/ poId[a] > poId[b])
<1> DEFINE S == {x \in Processed : x = b \/ poId[x] > poId[b]}
<1>1. S \in SUBSET Blocks /\ b \in S /\ b \in Blocks
  BY DEF Processed
<1>2. ASSUME NEW x \in S, idom[x] # Null PROVE idom[x] \in S
  <2>1. CASE x = Entry
    BY <2>1 DEF Climbing
  <2>2. CASE x # Entry
    <3>1. idom[x] \in Processed /\ poId[idom[x]] > poId[x]
      BY <2>2 DEF Climbing
    <3>2. poId[x] \in Nat /\ poId[b] \in Nat /\ poId[idom[x]] \in Nat
      BY <3>1 DEF Processed, Numbered
    <3> QED  BY <3>1, <3>2
  <2> QED  BY <2>1, <2>2
<1>3. UpClosed(S)
  BY <1>2 DEF UpClosed
<1> HIDE DEF S
<1>4. Above(b) \subseteq S
  BY <1>1, <1>3, AboveBasics DEF Climbing
<1> QED  BY <1>4 DEF S

(* The number of the block where two chains meet is the smallest of those  *)
(* on both: intersect is a well-defined function, and that is its value.   *)
Lowest(S) == CHOOSE z \in S : \A w \in S : poId[z] <= poId[w]

Meets(meet) ==
    meet = [f \in Processed \X Processed |->
              IF f[1] = f[2] THEN f[1]
              ELSE IF poId[f[1]] < poId[f[2]] THEN meet[<<idom[f[1]], f[2]>>]
              ELSE meet[<<f[1], idom[f[2]]>>]]

LEMMA MeetDefined == \A b1, b2 : Intersect(b1, b2) = (CHOOSE meet : Meets(meet))[<<b1, b2>>]
  BY DEF Intersect, Meets

LEMMA MeetExists ==
    ASSUME IsGraph, Numbered, Climbing
    PROVE  \E meet : Meets(meet)
<1> DEFINE common(f) == Above(f[1]) \cap Above(f[2])
           F == [f \in Processed \X Processed |-> Lowest(common(f))]
<1>1. ASSUME NEW f \in Processed \X Processed, f[1] = f[2] PROVE F[f] = f[1]
  <2>1. f[1] \in Processed /\ f[1] \in visited /\ f[1] \in Blocks /\ poId[f[1]] \in Nat
    BY DEF Processed, Climbing, Numbered
  <2>2. common(f) = Above(f[1]) /\ f[1] \in Above(f[1])
    BY <1>1, <2>1, AboveBasics DEF Climbing
  <2>3. \A w \in Above(f[1]) : w \in Processed /\ (w = f[1] \/ poId[w] > poId[f[1]])
    BY <2>1, AboveNumbers
  <2>4. \A w \in Above(f[1]) : poId[w] \in Nat
    BY <2>3 DEF Processed, Numbered
  <2>5. \A z \in Above(f[1]) : (\A w \in Above(f[1]) : poId[z] <= poId[w]) => z = f[1]
    BY <2>1, <2>2, <2>3, <2>4
  <2>6. \A w \in Above(f[1]) : poId[f[1]] <= poId[w]
    BY <2>1, <2>3, <2>4
  <2>7. Lowest(Above(f[1])) = f[1]
    BY <2>2, <2>5, <2>6 DEF Lowest
  <2> QED  BY <2>2, <2>7
<1>2. ASSUME NEW x \in Processed, NEW y \in Processed, poId[x] < poId[y]
      PROVE  /\ idom[x] \in Processed
             /\ Above(x) \cap Above(y) = Above(idom[x]) \cap Above(y)
  <2>1. x \in visited /\ y \in visited /\ poId[x] \in Nat /\ poId[y] \in Nat
    BY DEF Processed, Climbing, Numbered
  <2>2. x # Entry
    BY <1>2, <2>1, EntryAssumption DEF Numbered
  <2>3. Above(x) = {x} \cup Above(idom[x])
    BY AboveStep DEF Climbing
  <2>4. x \notin Above(y)
    BY <1>2, <2>1, AboveNumbers
  <2> QED  BY <2>2, <2>3, <2>4 DEF Climbing
<1>3. ASSUME NEW f \in Processed \X Processed, f[1] # f[2], poId[f[1]] < poId[f[2]]
      PROVE  F[f] = F[<<idom[f[1]], f[2]>>]
  <2>1. f[1] \in Processed /\ f[2] \in Processed
    OBVIOUS
  <2>2. common(f) = common(<<idom[f[1]], f[2]>>) /\ <<idom[f[1]], f[2]>> \in Processed \X Processed
    BY <1>2, <1>3, <2>1
  <2> QED  BY <2>2
<1>4. ASSUME NEW f \in Processed \X Processed, f[1] # f[2], ~(poId[f[1]] < poId[f[2]])
      PROVE  F[f] = F[<<f[1], idom[f[2]]>>]
  <2>1. f[1] \in Processed /\ f[2] \in Processed
    OBVIOUS
  <2>2. poId[f[2]] < poId[f[1]]
    <3>1. f[1] \in visited /\ f[2] \in visited /\ poId[f[1]] \in Nat /\ poId[f[2]] \in Nat
      BY <2>1 DEF Processed, Climbing, Numbered
    <3>2. poId[f[1]] # poId[f[2]]
      BY <1>4, <3>1 DEF Numbered
    <3> QED  BY <1>4, <3>1, <3>2
  <2>3. /\ idom[f[2]] \in Processed
        /\ Above(f[2]) \cap Above(f[1]) = Above(idom[f[2]]) \cap Above(f[1])
    BY <1>2, <2>1, <2>2
  <2>4. common(f) = common(<<f[1], idom[f[2]]>>) /\ <<f[1], idom[f[2]]>> \in Processed \X Processed
    BY <2>1, <2>3
  <2> QED  BY <2>4
<1> HIDE DEF F
<1>5. \A f \in Processed \X Processed :
          F[f] = IF f[1] = f[2] THEN f[1]
                 ELSE IF poId[f[1]] < poId[f[2]] THEN F[<<idom[f[1]], f[2]>>]
                 ELSE F[<<f[1], idom[f[2]]>>]
  BY <1>1, <1>3, <1>4
<1>6. F = [f \in Processed \X Processed |-> F[f]]
  BY DEF F
<1>7. Meets(F)
  BY <1>5, <1>6 DEF Meets
<1> QED  BY <1>7

(* What is said of one block is kept by the step up: every strict          *)
(* dominator of a block dominates its idom_.                               *)
Sound == \A b \in Processed \ {Entry} : \A d : StrictDom(d, b) => Dom(d, idom[b])

LEMMA IntersectCorrect ==
    ASSUME IsGraph, Numbered, Climbing, Sound, NEW x \in Processed, NEW y \in Processed
    PROVE  /\ Intersect(x, y) \in Above(x) \cap Above(y)
           /\ \A d : Dom(d, x) /\ Dom(d, y) => Dom(d, Intersect(x, y))
           /\ Above(x) \cap Above(y) \subseteq Above(Intersect(x, y))
<1> DEFINE meet == CHOOSE m : Meets(m)
           Good(f) == /\ meet[f] \in Above(f[1]) \cap Above(f[2])
                      /\ \A d : Dom(d, f[1]) /\ Dom(d, f[2]) => Dom(d, meet[f])
                      /\ Above(f[1]) \cap Above(f[2]) \subseteq Above(meet[f])
           Pairs == Processed \X Processed
           n == poId[Entry]
           Size(f) == (n - poId[f[1]]) + (n - poId[f[2]])
           T == {Size(f) : f \in {g \in Pairs : ~Good(g)}}
<1>1. Meets(meet)
  BY MeetExists
<1> HIDE DEF meet
<1>2. \A b \in Processed : b \in visited /\ b \in Blocks /\ poId[b] \in Nat /\ n - poId[b] \in Nat
  <2>1. \A b \in Processed : b \in visited /\ b \in Blocks
    BY DEF Processed, Climbing
  <2>2. \A b \in Blocks : poId[b] \in Nat
    BY DEF Numbered
  <2> QED  BY <2>1, <2>2, EntryAssumption DEF Numbered
<1>3. SUFFICES ASSUME T # {} PROVE FALSE
  <2>1. T = {} => Good(<<x, y>>)
    OBVIOUS
  <2>2. meet[<<x, y>>] = Intersect(x, y)
    BY MeetDefined DEF meet
  <2> HIDE DEF T
  <2> QED  BY <2>1, <2>2
<1>4. T \subseteq Nat
  BY <1>2
<1>5. PICK t \in T : \A u \in T : ~(u < t)
  <2> HIDE DEF T
  <2>1. \E t \in T : \A u \in T : ~(<<u, t>> \in OpToRel(<, Nat))
    BY <1>3, <1>4, NatLessThanWellFounded, WFMin
  <2> QED  BY <1>4, <2>1 DEF OpToRel
<1>6. PICK f \in Pairs : ~Good(f) /\ Size(f) = t
  OBVIOUS
<1>7. ASSUME NEW g \in Pairs, Size(g) < Size(f) PROVE Good(g)
  <2>1. ~Good(g) => Size(g) \in T
    OBVIOUS
  <2> HIDE DEF Good, Size, T, Pairs
  <2> QED  BY <1>5, <1>6, <1>7, <2>1
<1>8. meet[f] = IF f[1] = f[2] THEN f[1]
                ELSE IF poId[f[1]] < poId[f[2]] THEN meet[<<idom[f[1]], f[2]>>]
                ELSE meet[<<f[1], idom[f[2]]>>]
  BY <1>1 DEF Meets
<1>9. f[1] \in Processed /\ f[2] \in Processed
  OBVIOUS
(* One finger climbs: it is not a dominator of the other.                  *)
<1>10. ASSUME NEW a \in Processed, NEW b \in Processed, poId[a] < poId[b]
       PROVE  /\ idom[a] \in Processed /\ n - poId[idom[a]] < n - poId[a]
              /\ Above(idom[a]) \subseteq Above(a)
              /\ \A d : Dom(d, a) /\ Dom(d, b) => Dom(d, idom[a])
              /\ Above(a) \cap Above(b) \subseteq Above(idom[a])
  <2>1. a # Entry
    BY <1>2, <1>10, EntryAssumption DEF Numbered
  <2>2. idom[a] \in Processed /\ poId[idom[a]] > poId[a]
    BY <2>1 DEF Climbing
  <2>3. Above(idom[a]) \subseteq Above(a)
    BY AboveStep DEF Climbing
  <2>4. ASSUME NEW d, Dom(d, a), Dom(d, b) PROVE Dom(d, idom[a])
    <3>1. d # a
      <4>1. a # b
        BY <1>2, <1>10
      <4>2. d = a => poId[a] > poId[b]
        BY <1>2, <2>4, <4>1, DominatorsFinishLater DEF StrictDom
      <4> QED  BY <1>2, <1>10, <4>2
    <3> QED  BY <2>1, <2>4, <3>1 DEF Sound, StrictDom
  <2>5. n \in Nat /\ poId[a] \in Nat /\ poId[idom[a]] \in Nat
    BY <1>2, <2>2, EntryAssumption DEF Numbered
  <2>6. n - poId[idom[a]] < n - poId[a]
    <3> HIDE DEF n
    <3> QED  BY <2>2, <2>5
  <2>7. Above(a) \cap Above(b) \subseteq Above(idom[a])
    <3>1. a \notin Above(b)
      BY <1>2, <1>10, AboveNumbers
    <3> QED  BY <3>1, AboveStep DEF Climbing
  <2> QED  BY <2>2, <2>3, <2>4, <2>6, <2>7
<1> HIDE DEF n
<1>11. CASE f[1] = f[2]
  <2>1. meet[f] = f[1] /\ f[1] \in Above(f[1])
    BY <1>2, <1>8, <1>9, <1>11, AboveBasics DEF Climbing
  <2> QED  BY <1>6, <1>11, <2>1
<1>12. CASE f[1] # f[2] /\ poId[f[1]] < poId[f[2]]
  <2> DEFINE g == <<idom[f[1]], f[2]>>
  <2>1. /\ idom[f[1]] \in Processed /\ n - poId[idom[f[1]]] < n - poId[f[1]]
        /\ Above(idom[f[1]]) \subseteq Above(f[1])
        /\ \A d : Dom(d, f[1]) /\ Dom(d, f[2]) => Dom(d, idom[f[1]])
        /\ Above(f[1]) \cap Above(f[2]) \subseteq Above(idom[f[1]])
    BY <1>9, <1>10, <1>12
  <2>2. g \in Pairs /\ g[1] = idom[f[1]] /\ g[2] = f[2] /\ meet[f] = meet[g]
    BY <1>8, <1>9, <1>12, <2>1
  <2>3. Size(g) < Size(f)
    <3>1. n - poId[idom[f[1]]] \in Nat /\ n - poId[f[1]] \in Nat /\ n - poId[f[2]] \in Nat
      BY <1>2, <1>9, <2>1
    <3> QED  BY <2>1, <2>2, <3>1
  <2>4. Good(g)
    <3> HIDE DEF g, Size, Pairs, Good
    <3> QED  BY <1>7, <2>2, <2>3
  <2> QED  BY <1>6, <2>1, <2>2, <2>4
<1>13. CASE f[1] # f[2] /\ ~(poId[f[1]] < poId[f[2]])
  <2> DEFINE g == <<f[1], idom[f[2]]>>
  <2>0. poId[f[2]] < poId[f[1]]
    <3>1. poId[f[1]] # poId[f[2]]
      BY <1>2, <1>9, <1>13 DEF Numbered
    <3> QED  BY <1>2, <1>9, <1>13, <3>1
  <2>1. /\ idom[f[2]] \in Processed /\ n - poId[idom[f[2]]] < n - poId[f[2]]
        /\ Above(idom[f[2]]) \subseteq Above(f[2])
        /\ \A d : Dom(d, f[2]) /\ Dom(d, f[1]) => Dom(d, idom[f[2]])
        /\ Above(f[2]) \cap Above(f[1]) \subseteq Above(idom[f[2]])
    BY <1>9, <1>10, <2>0
  <2>2. g \in Pairs /\ g[1] = f[1] /\ g[2] = idom[f[2]] /\ meet[f] = meet[g]
    BY <1>8, <1>9, <1>13, <2>1
  <2>3. Size(g) < Size(f)
    <3>1. n - poId[idom[f[2]]] \in Nat /\ n - poId[f[1]] \in Nat /\ n - poId[f[2]] \in Nat
      BY <1>2, <1>9, <2>1
    <3> QED  BY <2>1, <2>2, <3>1
  <2>4. Good(g)
    <3> HIDE DEF g, Size, Pairs, Good
    <3> QED  BY <1>7, <2>2, <2>3
  <2> QED  BY <1>6, <2>1, <2>2, <2>4
<1> QED  BY <1>11, <1>12, <1>13

(* The loop over the predecessors: its values, and what holds of them.     *)
Loop(pres, new) ==
    new = [k \in DOMAIN pres |-> IF k = 1 THEN pres[1] ELSE Intersect(pres[k], new[k - 1])]

LEMMA LoopDefined ==
    ASSUME NEW pres, pres # << >>
    PROVE  NewIdom(pres) = (CHOOSE new : Loop(pres, new))[Len(pres)]
  BY DEF NewIdom, Loop

(* Induction on the naturals below a bound.                                *)
LEMMA LeastOf ==
    ASSUME NEW S \in SUBSET Nat, S # {}
    PROVE  \E m \in S : \A k \in S : m <= k
<1>1. PICK m \in S : \A k \in S : ~(<<k, m>> \in OpToRel(<, Nat))
  BY NatLessThanWellFounded, WFMin
<1>2. \A k \in S : ~(k < m)
  BY <1>1 DEF OpToRel
<1> QED  BY <1>2

LEMMA LoopExists ==
    ASSUME NEW n \in Nat, NEW pres, DOMAIN pres = 1 .. n
    PROVE  \E new : Loop(pres, new)
<1> DEFINE value(f, k) == IF k = 1 THEN pres[1] ELSE Intersect(pres[k], f[k - 1])
           Runs(f, m) == f = [k \in 1 .. m |-> value(f, k)]
           Bad == {m \in 0 .. n : ~\E f : Runs(f, m)}
<1>1. CASE Bad = {}
  <2>1. n \in 0 .. n
    OBVIOUS
  <2>2. PICK f : Runs(f, n)
    BY <1>1, <2>1
  <2>3. Loop(pres, f)
    BY <2>2 DEF Loop
  <2> QED  BY <2>3
<1>2. CASE Bad # {}
  <2>1. PICK m \in Bad : \A k \in Bad : m <= k
    <3>1. Bad \in SUBSET Nat
      OBVIOUS
    <3> HIDE DEF Bad
    <3> QED  BY <1>2, <3>1, LeastOf
  <2>2. m # 0
    <3>1. Runs([k \in 1 .. 0 |-> 0], 0)
      OBVIOUS
    <3> HIDE DEF Runs
    <3> QED  BY <3>1
  <2>3. m - 1 \in 0 .. n /\ m \in 1 .. n /\ m - 1 \notin Bad
    <3>1. m \in 0 .. n
      OBVIOUS
    <3> HIDE DEF Bad
    <3> QED  BY <2>1, <2>2, <3>1
  <2>4. PICK f : Runs(f, m - 1)
    BY <2>3
  <2> DEFINE g == [k \in 1 .. m |-> IF k = m THEN value(f, m) ELSE f[k]]
  <2>5. ASSUME NEW k \in 1 .. m PROVE g[k] = value(g, k)
    <3>1. CASE k = 1
      <4>1. m = 1 => g[k] = pres[1]
        BY <3>1
      <4>2. m # 1 => g[k] = f[1] /\ 1 \in 1 .. m - 1
        BY <2>3, <3>1
      <4>3. m # 1 => f[1] = pres[1]
        BY <2>4, <4>2
      <4> QED  BY <3>1, <4>1, <4>2, <4>3
    <3>2. CASE k # 1 /\ k # m
      <4>1. k \in 1 .. m - 1 /\ k - 1 \in 1 .. m /\ k - 1 # m
        BY <2>3, <3>2
      <4>2. f[k] = value(f, k) /\ g[k] = f[k] /\ g[k - 1] = f[k - 1]
        BY <2>4, <3>2, <4>1
      <4> QED  BY <3>2, <4>2
    <3>3. CASE k # 1 /\ k = m
      <4>1. k - 1 \in 1 .. m /\ k - 1 # m
        BY <2>3, <3>3
      <4> QED  BY <3>3, <4>1
    <3> QED  BY <3>1, <3>2, <3>3
  <2>6. g = [k \in 1 .. m |-> g[k]]
    OBVIOUS
  <2> HIDE DEF g
  <2>7. Runs(g, m)
    BY <2>5, <2>6
  <2> QED  BY <2>7
<1> QED  BY <1>1, <1>2

LEMMA NewIdomCorrect ==
    ASSUME IsGraph, Numbered, Climbing, Sound,
           NEW P \in SUBSET Processed, IsFiniteSet(P), P # {}, NEW pres \in SetToSeqs(P)
    PROVE  /\ NewIdom(pres) \in Processed
           /\ \A p \in P : NewIdom(pres) \in Above(p)
           /\ \A d : (\A p \in P : Dom(d, p)) => Dom(d, NewIdom(pres))
           /\ \A a : (\A p \in P : a \in Above(p)) => a \in Above(NewIdom(pres))
<1> DEFINE n == Cardinality(P)
           new == CHOOSE f : Loop(pres, f)
           Good(k) == /\ new[k] \in Processed
                      /\ \A i \in 1 .. k : new[k] \in Above(pres[i])
                      /\ \A d : (\A p \in P : Dom(d, p)) => Dom(d, new[k])
                      /\ \A a : (\A p \in P : a \in Above(p)) => a \in Above(new[k])
           Bad == {k \in 1 .. n : ~Good(k)}
<1>1. n \in Nat /\ n # 0
  BY FS_CardinalityType, FS_EmptySet
<1>2. /\ pres \in [1 .. n -> P]
      /\ \A i, j \in 1 .. n : i # j => pres[i] # pres[j]
  BY DEF SetToSeqs
<1>3. \A p \in P : \E i \in 1 .. n : pres[i] = p
  <2>1. pres \in Injection(1 .. n, P)
    BY <1>2 DEF Injection, IsInjective
  <2>2. Cardinality(1 .. n) = n
    BY <1>1, FS_Interval
  <2>3. pres \in Surjection(1 .. n, P)
    BY <2>1, <2>2, FS_Injection
  <2> QED  BY <2>3 DEF Surjection
<1> HIDE DEF n
<1>4. DOMAIN pres = 1 .. n /\ Len(pres) = n /\ pres # << >>
  <2>1. DOMAIN pres = 1 .. n /\ 1 \in 1 .. n
    BY <1>1, <1>2
  <2>2. pres \in Seq(P)
    BY <1>1, <1>2, SeqDef
  <2>3. Len(pres) = n
    BY <1>1, <2>1, <2>2, LenProperties
  <2>4. pres # << >>
    BY <1>1, <2>2, <2>3, EmptySeq
  <2> QED  BY <2>1, <2>3, <2>4
<1>5. NewIdom(pres) = new[n]
  BY <1>4, LoopDefined
<1>6. Loop(pres, new)
  BY <1>1, <1>4, LoopExists
<1> HIDE DEF new
<1>7. \A k \in 1 .. n : new[k] = IF k = 1 THEN pres[1] ELSE Intersect(pres[k], new[k - 1])
  BY <1>4, <1>6 DEF Loop
<1>8. \A b \in Processed : b \in Blocks /\ b \in Above(b)
  BY AboveBasics DEF Processed, Climbing
<1>9. CASE Bad = {}
  <2>1. Good(n)
    BY <1>1, <1>9
  <2> QED  BY <1>3, <1>5, <2>1
<1>10. CASE Bad # {}
  <2>1. PICK k \in Bad : \A j \in Bad : k <= j
    <3>1. Bad \in SUBSET Nat
      OBVIOUS
    <3> HIDE DEF Bad
    <3> QED  BY <1>10, <3>1, LeastOf
  <2>2. k \in 1 .. n /\ ~Good(k)
    OBVIOUS
  <2>3. CASE k = 1
    <3>1. new[1] = pres[1] /\ pres[1] \in P
      BY <1>2, <1>7, <2>2, <2>3
    <3>2. new[1] \in Processed /\ new[1] \in Above(pres[1])
      BY <1>8, <3>1
    <3>3. \A i \in 1 .. 1 : i = 1
      OBVIOUS
    <3> QED  BY <2>2, <2>3, <3>1, <3>2, <3>3
  <2>4. CASE k # 1
    <3>1. k - 1 \in 1 .. n /\ k - 1 < k
      BY <1>1, <2>2, <2>4
    <3>2. Good(k - 1)
      <4>1. k - 1 \notin Bad
        <5> HIDE DEF Bad
        <5> QED  BY <2>1, <2>2, <3>1
      <4> QED  BY <3>1, <4>1
    <3> DEFINE z == Intersect(pres[k], new[k - 1])
    <3>3. new[k] = z /\ pres[k] \in P /\ pres[k] \in Processed
      BY <1>2, <1>7, <2>2, <2>4
    <3>4. /\ z \in Above(pres[k]) \cap Above(new[k - 1])
          /\ \A d : Dom(d, pres[k]) /\ Dom(d, new[k - 1]) => Dom(d, z)
          /\ Above(pres[k]) \cap Above(new[k - 1]) \subseteq Above(z)
      BY <3>2, <3>3, IntersectCorrect
    <3>5. z \in Processed
      BY <3>3, <3>4, AboveNumbers
    <3>6. ASSUME NEW i \in 1 .. k PROVE z \in Above(pres[i])
      <4>1. CASE i = k
        BY <3>4, <4>1
      <4>2. CASE i # k
        <5>1. i \in 1 .. k - 1 /\ i \in 1 .. n
          BY <1>1, <2>2, <4>2
        <5>2. new[k - 1] \in Above(pres[i]) /\ pres[i] \in Blocks
          BY <1>2, <1>8, <3>2, <5>1
        <5>3. Above(new[k - 1]) \subseteq Above(pres[i])
          BY <5>2, AboveTransitive DEF Climbing
        <5> QED  BY <3>4, <5>3
      <4> QED  BY <4>1, <4>2
    <3>7. \A d : (\A p \in P : Dom(d, p)) => Dom(d, z)
      BY <3>2, <3>3, <3>4
    <3>8. \A a : (\A p \in P : a \in Above(p)) => a \in Above(z)
      BY <3>2, <3>3, <3>4
    <3> HIDE DEF z
    <3> QED  BY <2>2, <3>3, <3>5, <3>6, <3>7, <3>8
  <2> QED  BY <2>3, <2>4
<1> QED  BY <1>9, <1>10

(* The sources of an edge, once the walk has seen everything.              *)
LEMMA SourcesArePreds ==
    ASSUME IsGraph, NEW b \in Blocks, NEW c \in Targets(b)
    PROVE  b \in Preds(c)
<1>1. PICK i \in DOMAIN succ[b] : succ[b][i] = c
  BY DEF Targets, ToSet
<1>2. i \in {1, 2}
  <2>1. succ[b] \in Seq(Blocks \ {Entry}) /\ Len(succ[b]) <= 2
    BY DEF IsGraph
  <2>2. DOMAIN succ[b] = 1 .. Len(succ[b]) /\ Len(succ[b]) \in Nat
    BY <2>1, LenProperties
  <2> QED  BY <1>1, <2>1, <2>2
<1> DEFINE e == <<b, i>>
<1>3. e \in Blocks \X {1, 2} /\ e[1] = b /\ e[2] = i
  BY <1>2
<1>4. e \in PredEdges(c)
  <2> HIDE DEF e
  <2> QED  BY <1>1, <1>3 DEF PredEdges
<1> QED  BY <1>3, <1>4 DEF Preds

-----------------------------------------------------------------------------
(* The fixed point.                                                        *)

Settled(b) == \A p \in Preds(b) \cap Processed : idom[b] \in Above(p)

Fixed ==
    /\ Processed = visited
    /\ \A b \in visited \ {Entry} : Settled(b)

LEMMA AboveEntry ==
    ASSUME Climbing
    PROVE  Above(Entry) = {Entry}
<1>1. {Entry} \in SUBSET Blocks /\ UpClosed({Entry})
  BY EntryAssumption DEF UpClosed, Climbing
<1> QED  BY <1>1, EntryAssumption, AboveBasics DEF Climbing

LEMMA AboveIsDominating ==
    ASSUME IsGraph, Numbered, Climbing, Sound, Fixed, NEW b \in visited, NEW a
    PROVE  a \in Above(b) <=> Dom(a, b)
<1>1. visited \subseteq Blocks /\ Entry \in visited /\ b \in Blocks
  BY ReachableClosed DEF Numbered
<1>2. ASSUME a \in Above(b) PROVE Dom(a, b)
  <2> DEFINE S == {x \in visited : a \notin Above(x)}
  <2>1. Entry # a => Entry \in S
    BY <1>1, AboveEntry
  <2>2. ASSUME NEW x \in S, NEW y \in Targets(x), y # a PROVE y \in S
    <3>1. /\ x \in visited /\ x \in Blocks /\ a \notin Above(x)
          /\ y \in visited /\ y \in Blocks \ {Entry}
      BY <1>1, ReachableClosed, TargetsAreBlocks DEF Numbered
    <3>2. x \in Preds(y) \cap Processed
      BY <3>1, SourcesArePreds DEF Fixed
    <3>3. idom[y] \in Above(x)
      BY <3>1, <3>2 DEF Fixed, Settled
    <3>4. Above(idom[y]) \subseteq Above(x)
      BY <3>1, <3>3, AboveTransitive DEF Climbing
    <3>5. Above(y) = {y} \cup Above(idom[y])
      BY <3>1, AboveStep DEF Fixed, Climbing
    <3> QED  BY <2>2, <3>1, <3>4, <3>5
  <2>3. ClosedBut(a, S) /\ S \in SUBSET Blocks
    BY <1>1, <2>1, <2>2 DEF ClosedBut, Targets
  <2>4. b \notin S
    BY <1>2
  <2> HIDE DEF S
  <2> QED  BY <2>3, <2>4, ReachLeast DEF Dom
<1>3. ASSUME Dom(a, b) PROVE a \in Above(b)
  <2> DEFINE S == {x \in Above(b) : Dom(a, x)}
  <2>1. S \in SUBSET visited /\ b \in S
    BY <1>1, <1>3, AboveBasics, AboveNumbers DEF Fixed, Climbing
  <2>2. PICK m \in S : \A x \in S : poId[x] <= poId[m]
    <3> HIDE DEF S
    <3> QED  BY <2>1, Largest
  <2>3. m = a
    <3>1. SUFFICES ASSUME m # a PROVE FALSE
      OBVIOUS
    <3>2. m \in visited /\ m \in Above(b) /\ StrictDom(a, m) /\ m # Entry
      BY <2>1, <3>1, DomEntry DEF StrictDom
    <3>3. idom[m] \in Processed /\ poId[idom[m]] > poId[m] /\ Dom(a, idom[m])
      BY <3>2 DEF Fixed, Climbing, Sound
    <3>4. idom[m] \in Above(b)
      <4>1. UpClosed(Above(b)) /\ idom[m] # Null
        BY <1>1, <3>3, NullAssumption, AboveBasics DEF Climbing, Processed
      <4> QED  BY <3>2, <4>1 DEF UpClosed
    <3>5. poId[idom[m]] <= poId[m]
      BY <2>2, <3>3, <3>4
    <3>6. poId[m] \in Nat /\ poId[idom[m]] \in Nat
      BY <1>1, <3>2, <3>3 DEF Numbered, Fixed
    <3> QED  BY <3>3, <3>5, <3>6
  <2> QED  BY <2>3
<1> QED  BY <1>2, <1>3

LEMMA FixedIsCorrect ==
    ASSUME IsGraph, Numbered, Climbing, Sound, Fixed, NEW b \in Blocks
    PROVE  IF b = Entry THEN idom[b] = Entry
           ELSE IF b \notin Reachable THEN idom[b] = Null
           ELSE /\ idom[b] \in Blocks
                /\ StrictDom(idom[b], b)
                /\ \A d \in Reachable : StrictDom(d, b) => Dom(d, idom[b])
<1>1. CASE b = Entry
  BY <1>1 DEF Climbing
<1>2. CASE b # Entry /\ b \notin Reachable
  BY <1>2 DEF Fixed, Numbered, Processed
<1>3. CASE b # Entry /\ b \in Reachable
  <2>1. b \in visited /\ b \in Processed
    BY <1>3 DEF Numbered, Fixed
  <2>2. idom[b] \in Processed /\ poId[idom[b]] > poId[b]
    BY <1>3, <2>1 DEF Climbing
  <2>3. idom[b] \in Blocks /\ idom[b] # b
    <3>1. poId[b] \in Nat
      BY DEF Numbered
    <3> QED  BY <2>2, <3>1 DEF Processed
  <2>4. idom[b] \in Above(b)
    BY <2>1, <2>3, AboveBasics DEF Climbing, UpClosed, Processed
  <2>5. Dom(idom[b], b)
    BY <2>1, <2>4, AboveIsDominating
  <2>6. \A d \in Reachable : StrictDom(d, b) => Dom(d, idom[b])
    BY <1>3, <2>1 DEF Sound
  <2> QED  BY <1>3, <2>3, <2>5, <2>6 DEF StrictDom
<1> QED  BY <1>1, <1>2, <1>3

-----------------------------------------------------------------------------
(* The walk: the stack is a path from the entry, and a block that has been *)
(* left has a predecessor on the stack or one that was left after it.      *)

Frames == [bb : Blocks, next : Nat \ {0}]
Active == {stack[i].bb : i \in 1 .. Len(stack)}
Left == {rpo[i] : i \in 1 .. Len(rpo)}

Walk ==
    /\ stack \in Seq(Frames) /\ rpo \in Seq(Blocks) /\ poId \in [Blocks -> Nat]
    /\ visited = Active \cup Left /\ Active \cap Left = {} /\ visited \subseteq Reachable
    /\ \A i, j \in 1 .. Len(stack) : stack[i].bb = stack[j].bb => i = j
    /\ Len(stack) > 0 => stack[1].bb = Entry
    /\ Len(stack) = 0 => Len(rpo) > 0 /\ rpo[Len(rpo)] = Entry
    /\ \A i \in 2 .. Len(stack) : stack[i].bb \in Targets(stack[i - 1].bb)
    /\ \A i \in 1 .. Len(stack) : \A j \in DOMAIN succ[stack[i].bb] :
          j < stack[i].next => succ[stack[i].bb][j] \in visited
    /\ \A i \in 1 .. Len(rpo) : poId[rpo[i]] = i - 1
    /\ \A b \in Left : Targets(b) \subseteq visited
    /\ \A b \in Left \ {Entry} :
          \E p \in visited : b \in Targets(p) /\ (p \in Active \/ poId[p] > poId[b])

LEMMA WalkInit ==
    ASSUME IsGraph, stack = <<[bb |-> Entry, next |-> 1]>>, visited = {Entry}, rpo = << >>,
           poId = [b \in Blocks |-> 0]
    PROVE  Walk
<1>1. /\ stack \in Seq(Frames) /\ Len(stack) = 1 /\ stack[1] = [bb |-> Entry, next |-> 1]
      /\ Len(rpo) = 0 /\ rpo \in Seq(Blocks) /\ Entry \in Blocks
  <2>1. [bb |-> Entry, next |-> 1] \in Frames
    BY EntryAssumption DEF Frames
  <2> QED  BY <2>1, EntryAssumption
<1>2. 1 .. Len(stack) = {1} /\ 1 .. Len(rpo) = {} /\ 2 .. Len(stack) = {}
  BY <1>1
<1>3. Active = {Entry} /\ Left = {}
  BY <1>1, <1>2 DEF Active, Left
<1>4. \A j \in DOMAIN succ[Entry] : ~(j < 1)
  <2>1. DOMAIN succ[Entry] = 1 .. Len(succ[Entry]) /\ Len(succ[Entry]) \in Nat
    BY EntryAssumption, LenProperties DEF IsGraph
  <2> QED  BY <2>1
<1>5. \A i \in 1 .. Len(stack) : \A j \in DOMAIN succ[stack[i].bb] : ~(j < stack[i].next)
  BY <1>1, <1>2, <1>4
<1>6. visited \subseteq Reachable
  BY ReachableClosed
<1>7. /\ stack \in Seq(Frames) /\ rpo \in Seq(Blocks) /\ poId \in [Blocks -> Nat]
      /\ visited = Active \cup Left /\ Active \cap Left = {}
  BY <1>1, <1>3
<1>8. /\ \A i, j \in 1 .. Len(stack) : stack[i].bb = stack[j].bb => i = j
      /\ Len(stack) > 0 => stack[1].bb = Entry
      /\ Len(stack) # 0
      /\ \A i \in 2 .. Len(stack) : stack[i].bb \in Targets(stack[i - 1].bb)
      /\ \A i \in 1 .. Len(rpo) : poId[rpo[i]] = i - 1
  BY <1>1, <1>2
<1> QED  BY <1>3, <1>5, <1>6, <1>7, <1>8 DEF Walk

LEMMA WalkVisit ==
    ASSUME IsGraph, Walk, VisitSucc
    PROVE  Walk'
<1> DEFINE n == Len(stack)
           top == Last(stack)
           s == succ[top.bb][top.next]
           rest == [stack EXCEPT ![n].next = @ + 1]
<1>1. n \in Nat \ {0} /\ stack \in Seq(Frames)
  BY EmptySeq DEF VisitSucc, Walk
<1>2. top = stack[n] /\ top \in Frames /\ n \in 1 .. n
  BY <1>1, ElementOfSeq DEF Last
<1>3. s \in Targets(top.bb) /\ top.bb \in Blocks /\ s \in Blocks /\ top.next \in DOMAIN succ[top.bb]
  <2>1. top.bb \in Blocks
    BY <1>2 DEF Frames
  <2>2. s \in Targets(top.bb) /\ top.next \in DOMAIN succ[top.bb]
    BY DEF VisitSucc, Targets, ToSet
  <2> QED  BY <2>1, <2>2, TargetsAreBlocks
<1>4. /\ rest \in Seq(Frames) /\ Len(rest) = n
      /\ \A i \in 1 .. n : /\ rest[i].bb = stack[i].bb
                          /\ rest[i].next = IF i = n THEN stack[i].next + 1 ELSE stack[i].next
  <2> DEFINE t == [stack[n] EXCEPT !.next = @ + 1]
  <2>1. t \in Frames /\ t.bb = stack[n].bb /\ t.next = stack[n].next + 1
    BY <1>2 DEF Frames
  <2>2. rest = [stack EXCEPT ![n] = t]
    OBVIOUS
  <2> HIDE DEF t, rest
  <2>3. /\ rest \in Seq(Frames) /\ Len(rest) = n
        /\ \A i \in 1 .. n : rest[i] = IF i = n THEN t ELSE stack[i]
    BY <1>1, <1>2, <2>1, <2>2, ExceptSeq
  <2> QED  BY <2>1, <2>3
<1>5. top.bb \in Active /\ top.bb \in visited
  BY <1>2 DEF Walk, Active
<1>6. /\ succ' = succ /\ rpo' = rpo /\ poId' = poId
      /\ IF s \in visited THEN stack' = rest /\ visited' = visited
         ELSE stack' = Append(rest, [bb |-> s, next |-> 1]) /\ visited' = visited \cup {s}
  BY DEF VisitSucc
<1>7. Left' = Left /\ Reachable' = Reachable /\ \A b : Targets(b)' = Targets(b)
  BY <1>6 DEF Left, Reachable, ReachAvoiding, ClosedBut, Targets
<1>8. \A i \in 1 .. n : \A j \in DOMAIN succ[stack[i].bb] :
          j < rest[i].next => j < stack[i].next \/ (i = n /\ j = top.next)
  <2>1. SUFFICES ASSUME NEW i \in 1 .. n, NEW j \in DOMAIN succ[stack[i].bb], j < rest[i].next
                 PROVE  j < stack[i].next \/ (i = n /\ j = top.next)
    OBVIOUS
  <2>2. stack[i] \in Frames
    BY <1>1, ElementOfSeq
  <2>3. succ[stack[i].bb] \in Seq(Blocks \ {Entry})
    BY <2>2 DEF IsGraph, Frames
  <2>4. j \in Nat /\ stack[i].next \in Nat
    BY <2>2, <2>3, LenProperties DEF Frames
  <2> HIDE DEF rest
  <2> QED  BY <1>2, <1>4, <2>1, <2>4
<1> HIDE DEF rest
<1>9. CASE s \in visited
  <2>1. stack' = rest /\ visited' = visited
    BY <1>6, <1>9
  <2>2. Active' = Active
    BY <1>4, <2>1 DEF Active
  <2>3. \A i \in 1 .. Len(stack)' : \A j \in DOMAIN succ'[stack'[i].bb] :
            j < stack'[i].next => succ'[stack'[i].bb][j] \in visited'
    BY <1>2, <1>4, <1>6, <1>8, <1>9, <2>1 DEF Walk
  <2>4. /\ \A i, j \in 1 .. n : rest[i].bb = rest[j].bb => i = j
        /\ rest[1].bb = Entry
        /\ \A i \in 2 .. n : rest[i].bb \in Targets(rest[i - 1].bb)
    <3>1. 1 \in 1 .. n /\ \A i \in 2 .. n : i \in 1 .. n /\ i - 1 \in 1 .. n
      BY <1>1
    <3>2. /\ \A i, j \in 1 .. n : stack[i].bb = stack[j].bb => i = j
          /\ stack[1].bb = Entry
          /\ \A i \in 2 .. n : stack[i].bb \in Targets(stack[i - 1].bb)
      BY <1>1 DEF Walk
    <3>3. /\ \A i, j \in 1 .. n : rest[i].bb = rest[j].bb => i = j
          /\ rest[1].bb = Entry
      BY <1>4, <3>1, <3>2
    <3>4. ASSUME NEW i \in 2 .. n PROVE rest[i].bb \in Targets(rest[i - 1].bb)
      <4>1. rest[i].bb = stack[i].bb /\ rest[i - 1].bb = stack[i - 1].bb
        BY <1>4, <3>1
      <4> QED  BY <3>2, <4>1
    <3> QED  BY <3>3, <3>4
  <2> QED  BY <1>1, <1>4, <1>6, <1>7, <2>1, <2>2, <2>3, <2>4 DEF Walk
<1>10. CASE s \notin visited
  <2> DEFINE new == [bb |-> s, next |-> 1]
  <2>1. stack' = Append(rest, new) /\ visited' = visited \cup {s}
    BY <1>6, <1>10
  <2>2. new \in Frames /\ new.bb = s /\ new.next = 1
    BY <1>3 DEF Frames
  <2> HIDE DEF new
  <2>3. /\ stack' \in Seq(Frames) /\ Len(stack') = n + 1 /\ stack'[n + 1] = new
        /\ \A i \in 1 .. n : stack'[i] = rest[i]
    BY <1>4, <2>1, <2>2, AppendProperties
  <2>4. \A i \in 1 .. n + 1 : i \in 1 .. n \/ i = n + 1
    BY <1>1
  <2>5. 1 .. n \subseteq 1 .. n + 1 /\ n + 1 \in 1 .. n + 1
    BY <1>1
  <2>6. Active' = Active \cup {s}
    BY <1>4, <2>2, <2>3, <2>4, <2>5 DEF Active
  <2>7. s \notin Active /\ s \notin Left /\ s \in Reachable
    <3>1. s \notin Active /\ s \notin Left
      BY <1>10 DEF Walk
    <3>2. top.bb \in Reachable
      BY <1>5 DEF Walk
    <3> QED  BY <1>3, <3>1, <3>2, ReachableClosed
  <2>8. ASSUME NEW i \in 1 .. n + 1, NEW j \in DOMAIN succ[stack'[i].bb], j < stack'[i].next
        PROVE  succ[stack'[i].bb][j] \in visited'
    <3>1. CASE i = n + 1
      <4>1. succ[s] \in Seq(Blocks \ {Entry})
        BY <1>3 DEF IsGraph
      <4>2. j \in 1 .. Len(succ[s]) /\ Len(succ[s]) \in Nat /\ j < 1
        BY <2>2, <2>3, <2>8, <3>1, <4>1, LenProperties
      <4> QED  BY <4>2
    <3>2. CASE i \in 1 .. n
      <4>1. stack'[i].bb = stack[i].bb /\ stack'[i].next = rest[i].next
        BY <1>4, <2>3, <3>2
      <4>2. j < stack[i].next \/ (i = n /\ j = top.next)
        BY <1>8, <2>8, <3>2, <4>1
      <4>3. CASE j < stack[i].next
        BY <2>1, <2>8, <3>2, <4>1, <4>3 DEF Walk
      <4>4. CASE i = n /\ j = top.next
        BY <1>2, <2>1, <4>1, <4>4
      <4> QED  BY <4>2, <4>3, <4>4
    <3> QED  BY <2>4, <3>1, <3>2
  <2>9. \A i, j \in 1 .. n + 1 : stack'[i].bb = stack'[j].bb => i = j
    <3>1. \A i \in 1 .. n : stack'[i].bb = stack[i].bb /\ stack[i].bb \in Active
      BY <1>4, <2>3 DEF Active
    <3>2. \A i, j \in 1 .. n : stack[i].bb = stack[j].bb => i = j
      BY DEF Walk
    <3> QED  BY <2>2, <2>3, <2>4, <2>7, <3>1, <3>2
  <2>10. stack'[1].bb = Entry
    BY <1>1, <1>4, <2>3 DEF Walk
  <2>11. \A i \in 2 .. n + 1 : stack'[i].bb \in Targets(stack'[i - 1].bb)
    <3>1. SUFFICES ASSUME NEW i \in 2 .. n + 1
                   PROVE  stack'[i].bb \in Targets(stack'[i - 1].bb)
      OBVIOUS
    <3>2. CASE i = n + 1
      <4>1. i - 1 = n /\ n \in 1 .. n
        BY <1>1, <3>2
      <4>2. stack'[i - 1].bb = top.bb
        BY <1>2, <1>4, <2>3, <4>1
      <4> QED  BY <1>3, <2>2, <2>3, <3>2, <4>2
    <3>3. CASE i # n + 1
      <4>1. i \in 2 .. n /\ i \in 1 .. n /\ i - 1 \in 1 .. n
        BY <1>1, <3>3
      <4>2. stack[i].bb \in Targets(stack[i - 1].bb)
        BY <4>1 DEF Walk
      <4>3. stack'[i].bb = stack[i].bb /\ stack'[i - 1].bb = stack[i - 1].bb
        BY <1>4, <2>3, <4>1
      <4> QED  BY <4>2, <4>3
    <3> QED  BY <3>2, <3>3
  <2>12. \A b \in Left : Targets(b) \subseteq visited'
    BY <2>1 DEF Walk
  <2>13. \A b \in Left \ {Entry} :
            \E p \in visited' : b \in Targets(p) /\ (p \in Active' \/ poId[p] > poId[b])
    BY <2>1, <2>6 DEF Walk
  <2>14. /\ visited' = Active' \cup Left /\ Active' \cap Left = {} /\ visited' \subseteq Reachable
    BY <2>1, <2>6, <2>7 DEF Walk
  <2>15. /\ rpo' \in Seq(Blocks) /\ poId' \in [Blocks -> Nat]
         /\ \A i \in 1 .. Len(rpo)' : poId'[rpo'[i]] = i - 1
    BY <1>6 DEF Walk
  <2>16. Len(stack)' = n + 1 /\ n + 1 # 0
    BY <1>1, <2>3
  <2>17. \A b : Targets(b)' = Targets(b)
    BY <1>7
  <2> QED  BY <1>6, <1>7, <2>3, <2>8, <2>9, <2>10, <2>11, <2>12, <2>13, <2>14, <2>15, <2>16 DEF Walk
<1> QED  BY <1>9, <1>10

LEMMA WalkDone ==
    ASSUME IsGraph, Walk, VisitDone
    PROVE  Walk'
<1> DEFINE n == Len(stack)
           m == Len(rpo)
           top == Last(stack)
           b0 == top.bb
<1>1. n \in Nat \ {0} /\ stack \in Seq(Frames) /\ m \in Nat /\ rpo \in Seq(Blocks)
  BY EmptySeq DEF VisitDone, Walk
<1>2. top = stack[n] /\ top \in Frames /\ n \in 1 .. n /\ b0 \in Blocks /\ b0 \in Active
  <2>1. top = stack[n] /\ top \in Frames /\ n \in 1 .. n
    BY <1>1, ElementOfSeq DEF Last
  <2> QED  BY <2>1 DEF Frames, Active
<1>3. /\ succ' = succ /\ visited' = visited /\ rpo' = Append(rpo, b0)
      /\ stack' = Front(stack) /\ poId' = [poId EXCEPT ![b0] = m]
      /\ top.next \notin DOMAIN succ[b0]
  BY DEF VisitDone
<1>4. /\ stack' \in Seq(Frames) /\ Len(stack') = n - 1
      /\ \A i \in 1 .. n - 1 : stack'[i] = stack[i] /\ i \in 1 .. n
  <2>1. 1 \in 1 .. n + 1 /\ n - 1 \in 1 - 1 .. n
    BY <1>1
  <2>2. \A i \in 1 .. n - 1 : i \in 1 .. (n - 1) - 1 + 1 /\ 1 + i - 1 = i /\ i \in 1 .. n
    BY <1>1
  <2>3. \A i \in 1 .. n - 1 : stack[i] \in Frames
    BY <1>1, <2>2, ElementOfSeq
  <2>4. IF 1 <= n - 1 THEN (n - 1) - 1 + 1 = n - 1 ELSE n - 1 = 0
    <3> HIDE DEF n
    <3> QED  BY <1>1
  <2>5. n - 1 \in Int
    BY <1>1
  <2> QED  BY <1>3, <2>2, <2>3, <2>4, <2>5, SubSeqProperties DEF Front
<1>5. /\ rpo' \in Seq(Blocks) /\ Len(rpo') = m + 1 /\ rpo'[m + 1] = b0
      /\ \A i \in 1 .. m : rpo'[i] = rpo[i]
  BY <1>1, <1>2, <1>3, AppendProperties
<1>6. Reachable' = Reachable /\ \A b : Targets(b)' = Targets(b)
  BY <1>3 DEF Reachable, ReachAvoiding, ClosedBut, Targets
<1> HIDE DEF top
<1>7. Active' = Active \ {b0}
  <2>1. \A i, j \in 1 .. n : stack[i].bb = stack[j].bb => i = j
    BY DEF Walk
  <2>2. \A i \in 1 .. n : i \in 1 .. n - 1 \/ i = n
    BY <1>1
  <2>3. Active' = {stack[i].bb : i \in 1 .. n - 1}
    BY <1>4 DEF Active
  <2>4. n \notin 1 .. n - 1
    BY <1>1
  <2> QED  BY <1>2, <1>4, <2>1, <2>2, <2>3, <2>4 DEF Active
<1>8. Left' = Left \cup {b0}
  <2>1. \A i \in 1 .. m + 1 : i \in 1 .. m \/ i = m + 1
    BY <1>1
  <2>2. 1 .. m \subseteq 1 .. m + 1 /\ m + 1 \in 1 .. m + 1
    BY <1>1
  <2> QED  BY <1>5, <2>1, <2>2 DEF Left
<1>9. b0 \notin Left /\ b0 \in visited
  BY <1>2 DEF Walk
<1>10. /\ poId' \in [Blocks -> Nat] /\ poId'[b0] = m
       /\ \A b \in Left : b \in Blocks /\ poId'[b] = poId[b] /\ poId[b] < m
  <2>1. \A b \in Left : b \in Blocks /\ poId[b] < m
    <3>1. \A i \in 1 .. m : rpo[i] \in Blocks /\ poId[rpo[i]] = i - 1 /\ i - 1 < m
      BY <1>1, ElementOfSeq DEF Walk
    <3> QED  BY <3>1 DEF Left
  <2>2. poId \in [Blocks -> Nat]
    BY DEF Walk
  <2> HIDE DEF m
  <2> QED  BY <1>1, <1>2, <1>3, <1>9, <2>1, <2>2
<1>11. \A i \in 1 .. m + 1 : poId'[rpo'[i]] = i - 1
  <2>1. SUFFICES ASSUME NEW i \in 1 .. m + 1 PROVE poId'[rpo'[i]] = i - 1
    OBVIOUS
  <2>2. CASE i = m + 1
    BY <1>1, <1>5, <1>10, <2>2
  <2>3. CASE i # m + 1
    <3>1. i \in 1 .. m
      BY <1>1, <2>3
    <3>2. rpo[i] \in Left /\ poId[rpo[i]] = i - 1 /\ rpo'[i] = rpo[i]
      BY <1>5, <3>1 DEF Left, Walk
    <3> QED  BY <1>10, <3>2
  <2> QED  BY <2>2, <2>3
<1>12. Targets(b0) \subseteq visited
  <2>1. succ[b0] \in Seq(Blocks \ {Entry}) /\ top.next \in Nat \ {0}
    BY <1>2 DEF IsGraph, Frames
  <2>2. DOMAIN succ[b0] = 1 .. Len(succ[b0]) /\ Len(succ[b0]) \in Nat
    BY <2>1, LenProperties
  <2>3. \A j \in DOMAIN succ[b0] : j < top.next
    BY <1>3, <2>1, <2>2
  <2>4. \A j \in DOMAIN succ[b0] : succ[b0][j] \in visited
    BY <1>2, <2>3 DEF Walk
  <2> QED  BY <2>4 DEF Targets, ToSet
<1>13. \A b \in Left' : Targets(b) \subseteq visited
  BY <1>8, <1>12 DEF Walk
<1>14. ASSUME NEW b \in Left' \ {Entry}
       PROVE  \E p \in visited : b \in Targets(p) /\ (p \in Active' \/ poId'[p] > poId'[b])
  <2>1. CASE b = b0
    <3>1. n # 1
      BY <1>2, <1>14, <2>1 DEF Walk
    <3>2. n \in 2 .. n /\ n - 1 \in 1 .. n /\ n - 1 # n
      <4> HIDE DEF n
      <4> QED  BY <1>1, <3>1
    <3>3. b0 \in Targets(stack[n - 1].bb) /\ stack[n - 1].bb \in Active /\ stack[n - 1].bb # b0
      BY <1>2, <3>2 DEF Walk, Active
    <3>4. stack[n - 1].bb \in visited
      BY <3>3 DEF Walk
    <3> QED  BY <1>7, <2>1, <3>3, <3>4
  <2>2. CASE b # b0
    <3>1. b \in Left \ {Entry}
      BY <1>8, <1>14, <2>2
    <3>2. PICK p \in visited : b \in Targets(p) /\ (p \in Active \/ poId[p] > poId[b])
      BY <3>1 DEF Walk
    <3>3. CASE p = b0
      BY <1>10, <3>1, <3>2, <3>3
    <3>4. CASE p # b0 /\ p \in Active
      BY <1>7, <3>2, <3>4
    <3>5. CASE p # b0 /\ p \notin Active
      <4>1. p \in Left
        BY <3>5 DEF Walk
      <4> QED  BY <1>10, <3>1, <3>2, <3>5, <4>1
    <3> QED  BY <3>3, <3>4, <3>5
  <2> QED  BY <2>1, <2>2
<1>15. /\ \A i, j \in 1 .. n - 1 : stack'[i].bb = stack'[j].bb => i = j
       /\ n - 1 > 0 => stack'[1].bb = Entry
  <2>1. n - 1 > 0 => 1 \in 1 .. n - 1
    BY <1>1
  <2> QED  BY <1>1, <1>4, <2>1 DEF Walk
<1>16. n - 1 = 0 => m + 1 > 0 /\ rpo'[m + 1] = Entry
  <2>1. (n - 1 = 0 => n = 1) /\ m + 1 > 0
    <3> HIDE DEF n, m
    <3> QED  BY <1>1
  <2>2. n = 1 => b0 = Entry
    BY <1>1, <1>2 DEF Walk
  <2> HIDE DEF n, m
  <2> QED  BY <1>5, <2>1, <2>2
<1>17. ASSUME NEW i \in 2 .. n - 1 PROVE stack'[i].bb \in Targets(stack'[i - 1].bb)
  <2>1. i \in 1 .. n - 1 /\ i - 1 \in 1 .. n - 1 /\ i \in 2 .. n
    BY <1>1
  <2>2. stack[i].bb \in Targets(stack[i - 1].bb)
    BY <2>1 DEF Walk
  <2>3. stack'[i] = stack[i] /\ stack'[i - 1] = stack[i - 1]
    BY <1>4, <2>1
  <2> QED  BY <2>2, <2>3
<1>18. \A i \in 1 .. n - 1 : \A j \in DOMAIN succ[stack'[i].bb] :
          j < stack'[i].next => succ[stack'[i].bb][j] \in visited
  BY <1>4 DEF Walk
<1>19. visited = Active' \cup Left' /\ Active' \cap Left' = {} /\ visited \subseteq Reachable
  BY <1>7, <1>8, <1>9 DEF Walk
<1> HIDE DEF b0, n, m
<1> QED
  BY <1>3, <1>4, <1>5, <1>6, <1>10, <1>11, <1>13, <1>14, <1>15, <1>16, <1>17, <1>18, <1>19 DEF Walk

-----------------------------------------------------------------------------
(* The iteration: reverse post-order, what the sweep has left, and, as     *)
(* long as the sweep has changed nothing, what it has found settled.       *)

Listed ==
    /\ rpo \in Seq(Blocks) /\ visited = Left
    /\ \A i \in 1 .. Len(rpo) : poId[rpo[i]] = Len(rpo) - i

Passed == Len(rpo) - Len(todo)

Iteration ==
    /\ changed \in BOOLEAN
    /\ todo \in Seq(Blocks) /\ Passed \in Nat
    /\ \A i \in 1 .. Len(todo) : todo[i] = rpo[Passed + i]
    /\ \A i \in 1 .. Passed : rpo[i] \in Processed
    /\ ~changed => \A i \in 1 .. Passed : rpo[i] # Entry => Settled(rpo[i])

LEMMA WalkIsOver ==
    ASSUME IsGraph, Walk, StartIdom
    PROVE  (Numbered /\ Climbing /\ Sound /\ Listed /\ Iteration)'
<1> DEFINE m == Len(rpo)
<1>1. /\ rpo \in Seq(Blocks) /\ m \in Nat /\ Len(stack) = 0 /\ Active = {}
  <2>1. 1 .. Len(stack) = {}
    BY DEF StartIdom
  <2> QED  BY <2>1 DEF StartIdom, Walk, Active
<1>2. /\ succ' = succ /\ visited' = visited /\ poId' = poId /\ rpo' = Reverse(rpo)
      /\ todo' = rpo' /\ idom' = [b \in Blocks |-> IF b = Entry THEN Entry ELSE Null]
      /\ changed' = FALSE
  BY DEF StartIdom
<1>3. Reachable' = Reachable /\ \A b : Targets(b)' = Targets(b)
  BY <1>2 DEF Reachable, ReachAvoiding, ClosedBut, Targets
<1>4. visited = Left /\ m > 0 /\ rpo[m] = Entry
  BY <1>1 DEF Walk
<1>5. \A i \in 1 .. m : rpo[i] \in Blocks /\ poId[rpo[i]] = i - 1
  BY <1>1, ElementOfSeq DEF Walk
<1>6. rpo' \in Seq(Blocks) /\ Len(rpo') = m /\ \A i \in 1 .. m : rpo'[i] = rpo[m - i + 1]
  <2>1. \A i \in 1 .. m : m - i + 1 \in 1 .. m
    <3> HIDE DEF m
    <3> QED  BY <1>1
  <2>2. rpo' = [i \in 1 .. m |-> rpo[(m - i) + 1]]
    BY <1>2 DEF Reverse
  <2> HIDE DEF m
  <2>3. rpo' \in [1 .. m -> Blocks]
    BY <1>5, <2>1, <2>2
  <2>4. rpo' \in Seq(Blocks)
    BY <1>1, <2>3, SeqDef
  <2>5. Len(rpo') = m
    BY <1>1, <2>3, <2>4, LenProperties
  <2> QED  BY <2>2, <2>4, <2>5
<1>7. \A i \in 1 .. m : m - i + 1 \in 1 .. m /\ m - (m - i + 1) + 1 = i /\ (m - i + 1) - 1 = m - i
  <2> HIDE DEF m
  <2> QED  BY <1>1
<1>8. Listed'
  <2>1. Left' = Left
    <3>1. Left' = {rpo'[i] : i \in 1 .. m}
      BY <1>6 DEF Left
    <3>2. \A i \in 1 .. m : \E j \in 1 .. m : rpo'[j] = rpo[i]
      BY <1>6, <1>7
    <3>3. \A i \in 1 .. m : \E j \in 1 .. m : rpo[j] = rpo'[i]
      BY <1>6, <1>7
    <3>4. Left = {rpo[i] : i \in 1 .. m}
      BY DEF Left
    <3> HIDE DEF m
    <3>5. Left' \subseteq Left /\ Left \subseteq Left'
      BY <3>1, <3>2, <3>3, <3>4
    <3> QED  BY <3>5
  <2>2. \A i \in 1 .. m : poId[rpo'[i]] = m - i
    BY <1>5, <1>6, <1>7
  <2> HIDE DEF m
  <2> QED  BY <1>2, <1>4, <1>6, <2>1, <2>2 DEF Listed
<1>9. visited = Reachable
  <2>1. ClosedBut(Null, visited)
    <3>1. Entry \in visited
      <4>1. m \in 1 .. m
        <5> HIDE DEF m
        <5> QED  BY <1>1, <1>4
      <4> QED  BY <1>4, <4>1 DEF Left
    <3>2. \A b \in visited : Targets(b) \subseteq visited
      BY <1>4 DEF Walk
    <3> QED  BY <3>1, <3>2 DEF ClosedBut, Targets
  <2>2. visited \in SUBSET Blocks /\ visited \subseteq Reachable
    BY ReachableClosed DEF Walk
  <2> QED  BY <2>1, <2>2, ReachLeast DEF Reachable
<1>10. Numbered'
  <2>1. /\ poId \in [Blocks -> Nat]
        /\ \A b \in visited \ {Entry} : \E p \in visited : b \in Targets(p) /\ poId[p] > poId[b]
    BY <1>1, <1>4 DEF Walk
  <2>2. ASSUME NEW b \in visited, NEW c \in visited, poId[b] = poId[c] PROVE b = c
    <3>1. PICK i \in 1 .. m, j \in 1 .. m : b = rpo[i] /\ c = rpo[j]
      BY <1>4 DEF Left
    <3>2. i - 1 = j - 1
      BY <1>5, <2>2, <3>1
    <3>3. i = j
      BY <3>2
    <3> QED  BY <3>1, <3>3
  <2>3. \A b \in visited : poId[b] <= poId[Entry]
    <3>1. poId[Entry] = m - 1
      <4>1. m \in 1 .. m
        <5> HIDE DEF m
        <5> QED  BY <1>1, <1>4
      <4> QED  BY <1>4, <1>5, <4>1
    <3>2. \A i \in 1 .. m : i - 1 <= m - 1
      <4> HIDE DEF m
      <4> QED  BY <1>1
    <3> QED  BY <1>4, <1>5, <3>1, <3>2 DEF Left
  <2> QED  BY <1>2, <1>3, <1>9, <2>1, <2>2, <2>3 DEF Numbered
<1>11. Processed' = {Entry}
  BY <1>2, EntryAssumption, NullAssumption DEF Processed
<1>12. Climbing'
  BY <1>2, <1>9, <1>11, EntryAssumption, ReachableClosed DEF Climbing
<1>13. Sound'
  BY <1>11 DEF Sound
<1>14. Iteration'
  <2>1. Passed' = 0
    BY <1>1, <1>2, <1>6 DEF Passed
  <2>2. 1 .. 0 = {} /\ \A i \in 1 .. m : 0 + i = i
    OBVIOUS
  <2> HIDE DEF m
  <2> QED  BY <1>2, <1>6, <2>1, <2>2 DEF Iteration
<1> QED  BY <1>8, <1>10, <1>12, <1>13, <1>14

(* The sweep reaches a block after one of its predecessors.                *)
LEMMA HasProcessedPred ==
    ASSUME IsGraph, Numbered, Listed, Iteration, todo # << >>, Head(todo) # Entry
    PROVE  /\ Head(todo) \in visited /\ Head(todo) = rpo[Passed + 1]
           /\ \E p \in Preds(Head(todo)) \cap Processed : poId[p] > poId[Head(todo)]
<1> DEFINE bb == Head(todo)
           k == Passed
           m == Len(rpo)
<1>1. /\ Len(todo) \in Nat \ {0} /\ bb = todo[1] /\ m \in Nat /\ k \in Nat /\ m - Len(todo) = k
  BY EmptySeq DEF Iteration, Listed, Passed
<1>2. k + 1 \in 1 .. m /\ 1 \in 1 .. Len(todo)
  <2>1. \A l \in Nat \ {0} : m - l = k => k + 1 \in 1 .. m /\ 1 \in 1 .. l
    <3> HIDE DEF m, k
    <3> QED  BY <1>1
  <2> HIDE DEF m, k
  <2> QED  BY <1>1, <2>1
<1>3. bb = rpo[k + 1] /\ bb \in visited
  BY <1>1, <1>2 DEF Iteration, Listed, Left
<1>4. PICK p \in visited : bb \in Targets(p) /\ poId[p] > poId[bb]
  BY <1>3 DEF Numbered
<1>5. PICK i \in 1 .. m : p = rpo[i]
  BY DEF Listed, Left
<1>6. poId[p] = m - i /\ poId[bb] = m - (k + 1)
  BY <1>2, <1>3, <1>5 DEF Listed
<1>7. i \in 1 .. k
  <2> HIDE DEF m, k, bb
  <2> QED  BY <1>1, <1>2, <1>4, <1>6
<1>8. p \in Processed
  BY <1>5, <1>7 DEF Iteration
<1>9. p \in Preds(bb)
  BY <1>4, <1>8, SourcesArePreds DEF Processed
<1> QED  BY <1>3, <1>4, <1>8, <1>9

(* What a turn of the sweep files block bb under: the lowest block above   *)
(* all its predecessors, which has a larger number.                        *)
Turns(bb, z) ==
    LET P == Preds(bb) \cap Processed IN
    /\ bb \in visited \ {Entry} /\ z \in Processed /\ poId[z] > poId[bb]
    /\ \A p \in P : z \in Above(p)
    /\ \A d : (\A p \in P : Dom(d, p)) => Dom(d, z)
    /\ \A a : (\A p \in P : a \in Above(p)) => a \in Above(z)
    /\ idom' = [idom EXCEPT ![bb] = z]
    /\ changed' = (changed \/ idom'[bb] # idom[bb])

LEMMA BlockTurns ==
    ASSUME IsGraph, Numbered, Climbing, Sound, Listed, Iteration, IdomBlock, Head(todo) # Entry
    PROVE  \E z : Turns(Head(todo), z)
<1> DEFINE bb == Head(todo)
           P == Preds(bb) \cap Processed
<1>1. PICK pres \in SetToSeqs(P) :
          /\ idom' = [idom EXCEPT ![bb] = NewIdom(pres)]
          /\ changed' = (changed \/ idom'[bb] # idom[bb])
  BY DEF IdomBlock
<1> DEFINE z == NewIdom(pres)
<1>2. bb \in visited /\ \E q \in P : poId[q] > poId[bb]
  BY HasProcessedPred DEF IdomBlock
<1>3. PICK q \in P : poId[q] > poId[bb]
  BY <1>2
<1>4. P \in SUBSET Processed /\ IsFiniteSet(P) /\ P # {}
  <2>1. IsFiniteSet(Blocks)
    BY BlocksAreFinite
  <2>2. P \in SUBSET Blocks
    BY DEF Processed
  <2> QED  BY <1>3, <2>1, <2>2, FS_Subset
<1>5. /\ z \in Processed /\ \A p \in P : z \in Above(p)
      /\ \A d : (\A p \in P : Dom(d, p)) => Dom(d, z)
      /\ \A a : (\A p \in P : a \in Above(p)) => a \in Above(z)
  BY <1>1, <1>4, NewIdomCorrect
<1>6. poId[z] > poId[bb]
  <2>1. z = q \/ poId[z] > poId[q]
    BY <1>3, <1>5, AboveNumbers
  <2>2. z \in Blocks /\ q \in Blocks /\ bb \in Blocks
    BY <1>2, <1>3, <1>5, ReachableClosed DEF Processed, Numbered
  <2>3. poId[z] \in Nat /\ poId[q] \in Nat /\ poId[bb] \in Nat
    BY <2>2 DEF Numbered
  <2> QED  BY <1>3, <2>1, <2>2, <2>3
<1> HIDE DEF z
<1>7. idom' = [idom EXCEPT ![bb] = z]
  BY <1>1 DEF z
<1> QED  BY <1>1, <1>2, <1>5, <1>6, <1>7 DEF Turns

LEMMA IdomBlockStep ==
    ASSUME IsGraph, Numbered, Climbing, Sound, Listed, Iteration, IdomBlock
    PROVE  (Numbered /\ Climbing /\ Sound /\ Listed /\ Iteration)'
<1> DEFINE bb == Head(todo)
           m == Len(rpo)
<1>1. /\ todo # << >> /\ todo' = Tail(todo)
      /\ succ' = succ /\ visited' = visited /\ rpo' = rpo /\ poId' = poId
  BY DEF IdomBlock, graphVars
<1>2. /\ IsGraph' /\ Reachable' = Reachable
      /\ \A b : Targets(b)' = Targets(b) /\ Preds(b)' = Preds(b)
      /\ \A d, b : Dom(d, b)' <=> Dom(d, b)
      /\ \A d, b : StrictDom(d, b)' <=> StrictDom(d, b)
  BY <1>1 DEF IsGraph, Reachable, ReachAvoiding, ClosedBut, Targets, Preds, PredEdges, Dom,
              StrictDom
<1>3. Numbered' /\ Listed'
  BY <1>1, <1>2 DEF Numbered, Listed, Left
<1>4. /\ todo' \in Seq(Blocks) /\ Passed' = Passed + 1 /\ bb = rpo[Passed + 1] /\ bb \in visited
      /\ \A i \in 1 .. Len(todo') : todo'[i] = rpo[Passed' + i]
  <2>1. /\ todo \in Seq(Blocks) /\ Len(todo) \in Nat \ {0} /\ bb = todo[1]
        /\ todo' \in Seq(Blocks) /\ Len(todo') = Len(todo) - 1
        /\ \A i \in 1 .. Len(todo') : todo'[i] = todo[i + 1]
    BY <1>1, EmptySeq, HeadTailProperties DEF Iteration
  <2>2. m \in Nat /\ Passed \in Nat /\ Passed = m - Len(todo)
    BY DEF Listed, Iteration, Passed
  <2>3. Passed' = m - Len(todo')
    BY <1>1 DEF Passed
  <2>4. \A l \in Nat \ {0} :
           /\ m - (l - 1) = (m - l) + 1 /\ 1 \in 1 .. l
           /\ (m - l \in Nat => (m - l) + 1 \in 1 .. m)
           /\ \A i \in 1 .. l - 1 :
                 /\ i + 1 \in 1 .. l
                 /\ (m - l) + (i + 1) = (m - (l - 1)) + i
    <3> HIDE DEF m
    <3> QED  BY <2>2
  <2>5. Passed' = Passed + 1 /\ Passed + 1 \in 1 .. m
    <3> HIDE DEF m
    <3> QED  BY <2>1, <2>2, <2>3, <2>4
  <2>6. bb = rpo[Passed + 1]
    BY <2>1, <2>4 DEF Iteration
  <2>7. bb \in visited
    BY <2>5, <2>6 DEF Listed, Left
  <2>8. ASSUME NEW i \in 1 .. Len(todo') PROVE todo'[i] = rpo[Passed' + i]
    <3>1. i + 1 \in 1 .. Len(todo) /\ Passed + (i + 1) = Passed' + i
      <4> HIDE DEF m
      <4> QED  BY <2>1, <2>2, <2>3, <2>4
    <3>2. todo[i + 1] = rpo[Passed + (i + 1)]
      BY <3>1 DEF Iteration
    <3> QED  BY <2>1, <3>1, <3>2
  <2> QED  BY <2>1, <2>5, <2>6, <2>7, <2>8
<1>5. Passed \in Nat /\ \A i \in 1 .. Passed + 1 : i \in 1 .. Passed \/ i = Passed + 1
  BY DEF Iteration
<1>6. CASE bb = Entry
  <2>1. idom' = idom /\ changed' = changed
    BY <1>6 DEF IdomBlock, idomVars
  <2>2. Processed' = Processed /\ \A b : Above(b)' = Above(b)
    BY <2>1 DEF Processed, Above, UpClosed
  <2>3. Entry \in Processed
    BY EntryAssumption, NullAssumption DEF Climbing, Processed
  <2>4. Climbing' /\ Sound'
    BY <1>1, <1>2, <2>1, <2>2 DEF Climbing, Sound
  <2>6. changed' \in BOOLEAN /\ Passed' \in Nat
    BY <1>4, <1>5, <2>1 DEF Iteration
  <2>7. \A i \in 1 .. Passed' : rpo[i] \in Processed'
    BY <1>4, <1>5, <1>6, <2>2, <2>3 DEF Iteration
  <2>8. ASSUME ~changed', NEW i \in 1 .. Passed', rpo[i] # Entry PROVE Settled(rpo[i])'
    <3>1. Settled(rpo[i])
      BY <1>4, <1>5, <1>6, <2>1, <2>8 DEF Iteration
    <3> QED  BY <1>1, <1>2, <2>1, <2>2, <3>1 DEF Settled
  <2> QED  BY <1>1, <1>3, <1>4, <2>4, <2>6, <2>7, <2>8 DEF Iteration
<1>7. CASE bb # Entry
  <2> DEFINE P == Preds(bb) \cap Processed
  <2>1. PICK z : Turns(bb, z)
    BY <1>7, BlockTurns
  <2>2. changed' = (changed \/ idom'[bb] # idom[bb])
    BY <2>1 DEF Turns
  <2>4. /\ z \in Processed /\ \A p \in P : z \in Above(p)
        /\ \A d : (\A p \in P : Dom(d, p)) => Dom(d, z)
    BY <2>1 DEF Turns
  <2>5. poId[z] > poId[bb] /\ z \in Blocks /\ bb \in Blocks
    BY <1>4, <2>1, ReachableClosed DEF Turns, Processed, Numbered
  <2>6. ASSUME NEW d, StrictDom(d, bb) PROVE Dom(d, z)
    <3>1. ASSUME NEW p \in P PROVE Dom(d, p)
      <4>1. p \in Reachable /\ bb \in Targets(p)
        BY PredsAreSources DEF Climbing, Numbered
      <4> QED  BY <2>6, <4>1, DomOfPreds
    <3> QED  BY <2>4, <3>1
  <2> HIDE DEF P
  <2>7. /\ idom' \in [Blocks -> Blocks \cup {Null}]
        /\ idom'[bb] = z /\ \A b \in Blocks \ {bb} : idom'[b] = idom[b]
    BY <2>1, <2>5 DEF Climbing, Turns
  <2>8. Processed' = Processed \cup {bb}
    BY <2>5, <2>7, NullAssumption DEF Processed
  <2>9. Climbing'
    <3>1. idom'[Entry] = Entry
      BY <1>7, <2>7, EntryAssumption DEF Climbing
    <3>2. Processed' \subseteq visited
      BY <1>4, <2>8 DEF Climbing
    <3>3. ASSUME NEW b \in Processed' \ {Entry}
          PROVE  idom'[b] \in Processed' /\ poId[idom'[b]] > poId[b]
      <4>1. CASE b = bb
        BY <2>4, <2>5, <2>7, <2>8, <4>1
      <4>2. CASE b # bb
        BY <2>7, <2>8, <3>3, <4>2 DEF Climbing, Processed
      <4> QED  BY <4>1, <4>2
    <3> QED  BY <1>1, <2>7, <3>1, <3>2, <3>3 DEF Climbing
  <2>10. Sound'
    <3>1. SUFFICES ASSUME NEW b \in Processed' \ {Entry}, NEW d, StrictDom(d, b)
                   PROVE  Dom(d, idom'[b])
      BY <1>2 DEF Sound
    <3>2. CASE b = bb
      BY <2>6, <2>7, <3>1, <3>2
    <3>3. CASE b # bb
      BY <2>7, <2>8, <3>1, <3>3 DEF Sound, Processed
    <3> QED  BY <3>2, <3>3
  <2>11. \A i \in 1 .. Passed' : rpo[i] \in Processed'
    BY <1>4, <1>5, <2>8 DEF Iteration
  <2>12. ASSUME ~changed', NEW i \in 1 .. Passed', rpo[i] # Entry PROVE Settled(rpo[i])'
    <3>1. ~changed /\ idom'[bb] = idom[bb]
      BY <2>2, <2>12 DEF Iteration
    <3>2. idom' = idom
      BY <2>7, <3>1 DEF Climbing
    <3>3. Processed' = Processed /\ \A b : Above(b)' = Above(b)
      BY <3>2 DEF Processed, Above, UpClosed
    <3>4. Settled(rpo[i])
      <4>1. CASE i \in 1 .. Passed
        BY <2>12, <3>1, <4>1 DEF Iteration
      <4>2. CASE i = Passed + 1
        BY <1>4, <2>4, <2>7, <3>1, <4>2 DEF Settled, P
      <4> QED  BY <1>4, <1>5, <4>1, <4>2
    <3> QED  BY <1>1, <1>2, <3>2, <3>3, <3>4 DEF Settled
  <2>13. changed' \in BOOLEAN /\ Passed' \in Nat
    BY <1>4, <1>5, <2>2 DEF Iteration
  <2> QED  BY <1>1, <1>3, <1>4, <2>9, <2>10, <2>11, <2>12, <2>13 DEF Iteration
<1> QED  BY <1>6, <1>7

LEMMA SweepStep ==
    ASSUME IsGraph, Numbered, Climbing, Sound, Listed, Iteration, IdomSweepDone
    PROVE  /\ (Numbered /\ Climbing /\ Sound /\ Listed)'
           /\ pc' = "idom" => Iteration'
           /\ pc' # "idom" => Fixed'
<1>1. /\ todo = << >> /\ changed' = FALSE /\ idom' = idom
      /\ succ' = succ /\ visited' = visited /\ rpo' = rpo /\ poId' = poId
  BY DEF IdomSweepDone, graphVars
<1>2. /\ Processed' = Processed /\ Reachable' = Reachable
      /\ \A b : /\ Above(b)' = Above(b) /\ Targets(b)' = Targets(b)
                /\ Settled(b)' <=> Settled(b)
      /\ \A d, b : Dom(d, b)' <=> Dom(d, b)
      /\ \A d, b : StrictDom(d, b)' <=> StrictDom(d, b)
  BY <1>1 DEF Reachable, ReachAvoiding, ClosedBut, Targets, Preds, PredEdges, Dom,
              StrictDom, Processed, Above, UpClosed, Settled
<1>3. (Numbered /\ Climbing /\ Sound /\ Listed)'
  BY <1>1, <1>2 DEF Numbered, Climbing, Sound, Listed, Left
<1>4. ASSUME pc' = "idom" PROVE Iteration'
  <2>1. todo' = rpo
    BY <1>4 DEF IdomSweepDone
  <2>2. Passed' = 0 /\ rpo \in Seq(Blocks) /\ Len(rpo) \in Nat
    BY <1>1, <2>1 DEF Passed, Listed
  <2>3. 1 .. 0 = {} /\ \A i \in 1 .. Len(rpo) : 0 + i = i
    OBVIOUS
  <2> QED  BY <1>1, <2>1, <2>2, <2>3 DEF Iteration
<1>5. ASSUME pc' # "idom" PROVE Fixed'
  <2>1. ~changed
    BY <1>5 DEF IdomSweepDone, Iteration
  <2>2. Passed = Len(rpo)
    BY <1>1 DEF Passed, Listed
  <2>3. Processed = visited
    BY <2>2 DEF Iteration, Listed, Left, Climbing
  <2>4. \A b \in visited \ {Entry} : Settled(b)
    BY <2>1, <2>2 DEF Iteration, Listed, Left
  <2> QED  BY <1>1, <1>2, <2>3, <2>4 DEF Fixed
<1> QED  BY <1>3, <1>4, <1>5

-----------------------------------------------------------------------------
(* The runners of create_dominance_frontier: a well-defined function, and  *)
(* its value for the predecessors of a block.                              *)

Climbs(bb, climb) ==
    climb = [r \in Blocks \cup {Null} |->
               IF r = idom[bb] THEN {}
               ELSE IF r = Null THEN {Null}
               ELSE {r} \cup climb[idom[r]]]

LEMMA RunnersDefined == \A bb, p : Runners(bb, p) = (CHOOSE climb : Climbs(bb, climb))[p]
  BY DEF Runners, Climbs

Below(r, t) == {y \in Above(r) : y # t /\ t \in Above(y)}

LEMMA BelowStep ==
    ASSUME IsGraph, Numbered, Climbing, NEW r \in Processed, NEW t \in Above(r), r # t
    PROVE  /\ r # Entry /\ idom[r] \in Processed /\ t \in Above(idom[r])
           /\ Below(r, t) = {r} \cup Below(idom[r], t)
<1>1. Above(r) = {r} \cup Above(idom[r])
  BY AboveStep DEF Climbing
<1>2. r # Entry
  BY AboveEntry
<1> QED  BY <1>1, <1>2 DEF Climbing, Below

LEMMA BelowSelf ==
    ASSUME IsGraph, Numbered, Climbing, NEW t \in Processed
    PROVE  Below(t, t) = {}
<1>1. SUFFICES ASSUME NEW y \in Above(t), y # t, t \in Above(y) PROVE FALSE
  BY DEF Below
<1>2. y \in Processed /\ poId[y] > poId[t]
  BY <1>1, AboveNumbers
<1>3. poId[t] > poId[y]
  BY <1>1, <1>2, AboveNumbers
<1>4. poId[t] \in Nat /\ poId[y] \in Nat
  BY <1>2 DEF Processed, Numbered
<1> QED  BY <1>2, <1>3, <1>4

LEMMA ClimbsExists ==
    ASSUME IsGraph, Numbered, Climbing, NEW bb
    PROVE  \E climb : Climbs(bb, climb)
<1> DEFINE t == idom[bb]
           value(r) == IF r = t THEN {}
                       ELSE IF r = Null THEN {Null}
                       ELSE IF idom[r] = Null THEN {r} \cup (IF t = Null THEN {} ELSE {Null})
                       ELSE IF t \in Above(r) THEN Below(r, t)
                       ELSE Above(r)
           F == [r \in Blocks \cup {Null} |-> value(r)]
<1> HIDE DEF t
<1>1. ASSUME NEW r \in Blocks, r # t, idom[r] = Null PROVE F[r] = {r} \cup F[idom[r]]
  <2>1. r # Null
    BY NullAssumption
  <2> QED  BY <1>1, <2>1
<1>2. ASSUME NEW r \in Processed, r # t PROVE F[r] = {r} \cup F[idom[r]]
  <2>1. r \in Blocks /\ r # Null /\ idom[r] # Null /\ idom[r] \in Blocks /\ idom[idom[r]] # Null
    <3>1. r \in Blocks /\ r # Null /\ idom[r] # Null
      BY NullAssumption DEF Processed
    <3>2. idom[r] \in Processed
      BY DEF Climbing
    <3> QED  BY <3>1, <3>2 DEF Processed
  <2>2. Above(r) = {r} \cup Above(idom[r]) /\ idom[r] \in Above(idom[r])
    BY <2>1, AboveStep, AboveBasics DEF Climbing
  <2>3. CASE t \in Above(r)
    <3>1. F[r] = Below(r, t)
      BY <1>2, <2>1, <2>3
    <3>2. idom[r] \in Processed /\ t \in Above(idom[r]) /\ Below(r, t) = {r} \cup Below(idom[r], t)
      BY <1>2, <2>3, BelowStep
    <3>3. F[idom[r]] = Below(idom[r], t)
      <4>1. CASE idom[r] = t
        <5>1. F[idom[r]] = {}
          BY <2>1, <4>1
        <5>2. Below(t, t) = {}
          BY <3>2, <4>1, BelowSelf
        <5> QED  BY <4>1, <5>1, <5>2
      <4>2. CASE idom[r] # t
        BY <2>1, <3>2, <4>2
      <4> QED  BY <4>1, <4>2
    <3> QED  BY <3>1, <3>2, <3>3
  <2>4. CASE t \notin Above(r)
    <3>1. F[r] = Above(r)
      BY <1>2, <2>1, <2>4
    <3>2. F[idom[r]] = Above(idom[r])
      BY <2>1, <2>2, <2>4
    <3> QED  BY <2>2, <3>1, <3>2
  <2> QED  BY <2>3, <2>4
<1>3. F = [r \in Blocks \cup {Null} |-> F[r]] /\ \A r \in Blocks \cup {Null} : r = t => F[r] = {}
  OBVIOUS
<1>4. t # Null => F[Null] = {Null}
  OBVIOUS
<1> HIDE DEF F
<1>5. \A r \in Blocks \cup {Null} :
          F[r] = IF r = t THEN {} ELSE IF r = Null THEN {Null} ELSE {r} \cup F[idom[r]]
  BY <1>1, <1>2, <1>3, <1>4 DEF Processed
<1>6. Climbs(bb, F)
  BY <1>3, <1>5 DEF Climbs, t
<1> QED  BY <1>6

LEMMA RunnersBelow ==
    ASSUME IsGraph, Numbered, Climbing, NEW bb, NEW p \in Processed, idom[bb] \in Above(p)
    PROVE  Runners(bb, p) = Below(p, idom[bb])
<1> DEFINE t == idom[bb]
           f == CHOOSE climb : Climbs(bb, climb)
           Bad == {r \in Processed : t \in Above(r) /\ f[r] # Below(r, t)}
<1>1. Climbs(bb, f) /\ Runners(bb, p) = f[p]
  BY ClimbsExists, RunnersDefined
<1> HIDE DEF f
<1>2. SUFFICES ASSUME Bad # {} PROVE FALSE
  BY <1>1
<1>3. PICK r \in Bad : \A q \in Bad : poId[q] <= poId[r]
  <2>1. Bad \in SUBSET visited
    BY DEF Climbing
  <2> HIDE DEF Bad
  <2> QED  BY <1>2, <2>1, Largest
<1>4. /\ r \in Processed /\ r \in Blocks /\ t \in Above(r) /\ f[r] # Below(r, t) /\ r # Null
  BY NullAssumption DEF Processed
<1>5. f[r] = IF r = t THEN {} ELSE {r} \cup f[idom[r]]
  BY <1>1, <1>4 DEF Climbs
<1>6. r # t
  BY <1>4, <1>5, BelowSelf
<1>7. /\ r # Entry /\ idom[r] \in Processed /\ t \in Above(idom[r])
      /\ Below(r, t) = {r} \cup Below(idom[r], t)
  BY <1>4, <1>6, BelowStep
<1>8. idom[r] \in Bad
  BY <1>4, <1>5, <1>6, <1>7
<1>9. poId[idom[r]] <= poId[r]
  <2> HIDE DEF Bad
  <2> QED  BY <1>3, <1>8
<1>10. poId[idom[r]] > poId[r] /\ poId[r] \in Nat /\ poId[idom[r]] \in Nat
  BY <1>4, <1>7 DEF Climbing, Numbered, Processed
<1> QED  BY <1>9, <1>10

LEMMA RunnersLost ==
    ASSUME IsGraph, Numbered, Climbing, NEW bb, NEW p \in Blocks \ Processed, idom[bb] # p
    PROVE  Runners(bb, p) = {p} \cup (IF idom[bb] = Null THEN {} ELSE {Null})
<1> DEFINE f == CHOOSE climb : Climbs(bb, climb)
<1>1. Climbs(bb, f) /\ Runners(bb, p) = f[p]
  BY ClimbsExists, RunnersDefined
<1> HIDE DEF f
<1>2. p # Null /\ idom[p] = Null
  BY NullAssumption DEF Processed
<1>3. f[Null] = IF Null = idom[bb] THEN {} ELSE {Null}
  BY <1>1 DEF Climbs
<1>4. f[p] = {p} \cup f[Null]
  BY <1>1, <1>2 DEF Climbs
<1> QED  BY <1>1, <1>3, <1>4

LEMMA AboveTotal ==
    ASSUME IsGraph, Numbered, Climbing, NEW p \in Processed, NEW a \in Above(p), NEW b \in Above(p)
    PROVE  a \in Above(b) \/ b \in Above(a)
<1> DEFINE S == {x \in Above(p) : a \in Above(x) \/ x \in Above(a)}
<1>1. p \in Blocks /\ a \in Blocks /\ Above(p) \subseteq Blocks /\ p \in Above(p)
  BY AboveBasics DEF Processed, Climbing
<1>2. UpClosed(Above(p)) /\ UpClosed(Above(a))
  BY <1>1, AboveBasics DEF Climbing
<1>3. ASSUME NEW x \in S, idom[x] # Null PROVE idom[x] \in S
  <2>1. x \in Processed /\ idom[x] \in Above(p)
    BY <1>1, <1>2, <1>3 DEF UpClosed, Processed
  <2>2. CASE x \in Above(a)
    BY <1>2, <1>3, <2>1, <2>2 DEF UpClosed
  <2>3. CASE x \notin Above(a)
    <3>1. a # x
      BY <1>1, <2>3, AboveBasics DEF Climbing
    <3>2. Above(x) = {x} \cup Above(idom[x])
      BY <2>1, AboveStep DEF Climbing
    <3> QED  BY <2>1, <2>3, <3>1, <3>2
  <2> QED  BY <2>2, <2>3
<1>4. S \in SUBSET Blocks /\ p \in S /\ UpClosed(S)
  BY <1>1, <1>3 DEF UpClosed
<1> HIDE DEF S
<1>5. Above(p) \subseteq S
  BY <1>1, <1>4, AboveBasics DEF Climbing
<1> QED  BY <1>5 DEF S

LEMMA RunnersOfLive ==
    ASSUME IsGraph, Numbered, Climbing, Sound, Fixed, NEW bb \in visited \ {Entry},
           NEW p \in Preds(bb) \cap visited, NEW y
    PROVE  y \in Runners(bb, p) <=> (Dom(y, p) /\ ~StrictDom(y, bb))
<1> DEFINE t == idom[bb]
<1>1. /\ visited \subseteq Blocks /\ p \in Processed /\ bb \in Processed
      /\ t \in Processed /\ t \in visited /\ t \in Above(p) /\ poId[t] > poId[bb]
  BY ReachableClosed DEF Numbered, Fixed, Settled, Climbing
<1>2. Runners(bb, p) = Below(p, t)
  BY <1>1, RunnersBelow
<1>3. StrictDom(t, bb)
  BY <1>1, FixedIsCorrect DEF Numbered
<1>4. ASSUME y \in Below(p, t) PROVE Dom(y, p) /\ ~StrictDom(y, bb)
  <2>1. y \in Above(p) /\ y # t /\ t \in Above(y)
    BY <1>4 DEF Below
  <2>2. Dom(y, p) /\ y \in Processed
    BY <1>1, <2>1, AboveIsDominating, AboveNumbers
  <2>3. ASSUME StrictDom(y, bb) PROVE FALSE
    <3>1. Dom(y, t)
      BY <1>1, <2>3 DEF Sound
    <3>2. y \in Above(t)
      BY <1>1, <3>1, AboveIsDominating
    <3> QED  BY <1>1, <2>1, <3>2, BelowSelf DEF Below
  <2> QED  BY <2>2, <2>3
<1>5. ASSUME Dom(y, p), ~StrictDom(y, bb) PROVE y \in Below(p, t)
  <2>1. y \in Above(p) /\ y # t
    BY <1>1, <1>3, <1>5, AboveIsDominating
  <2>2. t \in Above(y) \/ y \in Above(t)
    BY <1>1, <2>1, AboveTotal
  <2>3. ASSUME y \in Above(t) PROVE FALSE
    <3>1. Dom(y, t) /\ Dom(t, bb)
      BY <1>1, <1>3, <2>3, AboveIsDominating DEF StrictDom
    <3>2. Dom(y, bb)
      BY <3>1, DomTransitive
    <3>3. y = bb
      BY <1>5, <3>2 DEF StrictDom
    <3>4. poId[bb] > poId[t]
      BY <1>1, <2>1, <2>3, <3>3, AboveNumbers
    <3>5. poId[bb] \in Nat /\ poId[t] \in Nat
      BY <1>1 DEF Numbered
    <3> QED  BY <1>1, <3>4, <3>5
  <2> QED  BY <2>1, <2>2, <2>3 DEF Below
<1> QED  BY <1>2, <1>4, <1>5

(* What a block receives in its turn.                                      *)
Joins(y) == Cardinality(PredEdges(y)) >= 2
FrontierOf(y) == IF Joins(y) THEN UNION {Runners(y, p) : p \in Preds(y)} ELSE {}

LEMMA EntryHasNoPreds ==
    ASSUME IsGraph
    PROVE  Preds(Entry) = {}
  BY PredsAreSources, TargetsAreBlocks

LEMMA FrontierLost ==
    ASSUME IsGraph, Numbered, Climbing, Sound, Fixed, NEW y \in Blocks
    PROVE  /\ FrontierOf(y) \subseteq Blocks \cup {Null}
           /\ Null \in FrontierOf(y) <=> (y \in visited /\ Joins(y) /\ ~(Preds(y) \subseteq visited))
<1>1. visited \subseteq Blocks /\ Preds(y) \subseteq Blocks
  BY ReachableClosed, PredsAreSources DEF Numbered
<1>2. CASE y \in visited
  <2>1. ASSUME NEW p \in Preds(y)
        PROVE  /\ y # Entry
               /\ Null \in Runners(y, p) <=> p \notin visited
               /\ Runners(y, p) \subseteq Blocks \cup {Null}
    <3>1. y # Entry
      BY <2>1, EntryHasNoPreds
    <3>2. idom[y] \in Processed
      BY <1>2, <3>1 DEF Fixed, Climbing
    <3>3. CASE p \in visited
      <4>1. p \in Processed /\ idom[y] \in Above(p)
        BY <1>2, <3>1, <3>3 DEF Fixed, Settled
      <4>2. Runners(y, p) = Below(p, idom[y])
        BY <4>1, RunnersBelow
      <4>3. Runners(y, p) \subseteq Blocks
        BY <1>1, <4>2, AboveBasics DEF Below, Climbing
      <4> QED  BY <3>1, <3>3, <4>3, NullAssumption
    <3>4. CASE p \notin visited
      <4>1. p \in Blocks \ Processed /\ idom[y] # p
        <5>1. p \in Blocks /\ p \notin Processed
          BY <1>1, <2>1, <3>4 DEF Fixed
        <5> QED  BY <3>2, <5>1
      <4>3. idom[y] # Null
        BY <3>2, NullAssumption DEF Processed
      <4>2. Runners(y, p) = {p} \cup {Null}
        BY <4>1, <4>3, RunnersLost
      <4> QED  BY <3>1, <3>4, <4>1, <4>2, <4>3
    <3> QED  BY <3>3, <3>4
  <2> QED  BY <1>2, <2>1 DEF FrontierOf
<1>3. CASE y \notin visited
  <2>1. ASSUME NEW p \in Preds(y) PROVE Runners(y, p) = {p}
    <3>1. p \notin visited
      BY <1>3, PredsAreSources, ReachableClosed DEF Numbered
    <3>2. idom[y] = Null
      BY <1>3 DEF Fixed, Processed
    <3>3. p \in Blocks \ Processed /\ idom[y] # p
      BY <1>1, <3>1, <3>2, NullAssumption DEF Fixed
    <3> QED  BY <3>2, <3>3, RunnersLost
  <2> QED  BY <1>1, <1>3, <2>1, NullAssumption DEF FrontierOf
<1> QED  BY <1>2, <1>3

(* A block with one incoming edge is dominated by its source.              *)
LEMMA OnePred ==
    ASSUME IsGraph, Numbered, NEW y \in visited \ {Entry}, NEW p \in Preds(y), ~Joins(y)
    PROVE  StrictDom(p, y)
<1>1. Preds(y) = {p}
  <2>1. IsFiniteSet(Blocks \X {1, 2})
    <3>1. IsFiniteSet({1, 2})
      <4>1. IsFiniteSet({1}) /\ {1, 2} = {1} \cup {2}
        BY FS_Singleton
      <4> QED  BY <4>1, FS_AddElement
    <3> QED  BY <3>1, BlocksAreFinite, FS_Product
  <2>2. PredEdges(y) \in SUBSET (Blocks \X {1, 2})
    BY DEF PredEdges
  <2>3. IsFiniteSet(PredEdges(y)) /\ Cardinality(PredEdges(y)) \in Nat
    BY <2>1, <2>2, FS_Subset, FS_CardinalityType
  <2>4. PICK e \in PredEdges(y) : p = e[1]
    BY DEF Preds
  <2>5. Cardinality(PredEdges(y)) = 1
    <3>1. Cardinality(PredEdges(y)) # 0
      BY <2>3, <2>4, FS_EmptySet
    <3> QED  BY <2>3, <3>1 DEF Joins
  <2>6. PredEdges(y) = {e}
    BY <2>3, <2>4, <2>5, FS_Singleton
  <2> QED  BY <2>4, <2>6 DEF Preds
<1>2. PICK q \in visited : y \in Targets(q) /\ poId[q] > poId[y]
  BY DEF Numbered
<1>3. q = p /\ p # y
  <2>1. visited \subseteq Blocks
    BY ReachableClosed DEF Numbered
  <2>2. q \in Preds(y)
    BY <1>2, <2>1, SourcesArePreds
  <2>3. poId[y] \in Nat
    BY <2>1 DEF Numbered
  <2> QED  BY <1>1, <1>2, <2>2, <2>3
<1> DEFINE S == Blocks \ {y, p}
<1>4. ClosedBut(p, S)
  <2>1. \A x \in S : y \notin Targets(x)
    BY <1>1, SourcesArePreds
  <2> QED  BY <2>1, EntryAssumption, TargetsAreBlocks DEF ClosedBut, Targets
<1>5. S \in SUBSET Blocks /\ y \notin S
  OBVIOUS
<1> HIDE DEF S
<1>6. y \notin ReachAvoiding(p)
  BY <1>4, <1>5, ReachLeast
<1> QED  BY <1>3, <1>6 DEF StrictDom, Dom

(* The frontiers in the end.                                               *)
LEMMA FrontierMembers ==
    ASSUME IsGraph, Numbered, Climbing, Sound, Fixed,
           NEW b \in Reachable, NEW y \in Reachable, Null \notin FrontierOf(y)
    PROVE  b \in FrontierOf(y) <=>
              (~StrictDom(b, y) /\ \E p \in Preds(y) \cap Reachable : Dom(b, p))
<1>1. visited = Reachable /\ visited \subseteq Blocks /\ y \in visited
  BY ReachableClosed DEF Numbered
<1>2. \A p \in Preds(y) : y # Entry
  BY EntryHasNoPreds
<1>3. ASSUME b \in FrontierOf(y)
      PROVE  ~StrictDom(b, y) /\ \E p \in Preds(y) \cap Reachable : Dom(b, p)
  <2>1. PICK p \in Preds(y) : Joins(y) /\ b \in Runners(y, p)
    BY <1>3 DEF FrontierOf
  <2>2. p \in visited
    BY <1>1, <2>1, FrontierLost
  <2>3. Dom(b, p) /\ ~StrictDom(b, y)
    BY <1>1, <1>2, <2>1, <2>2, RunnersOfLive
  <2> QED  BY <1>1, <2>2, <2>3
<1>4. ASSUME ~StrictDom(b, y), NEW p \in Preds(y) \cap Reachable, Dom(b, p)
      PROVE  b \in FrontierOf(y)
  <2>1. b \in Runners(y, p)
    BY <1>1, <1>2, <1>4, RunnersOfLive
  <2>2. Joins(y)
    <3>1. SUFFICES ASSUME ~Joins(y) PROVE FALSE
      OBVIOUS
    <3>2. StrictDom(p, y)
      BY <1>1, <1>2, <3>1, OnePred
    <3>3. Dom(b, y)
      BY <1>4, <3>2, DomTransitive DEF StrictDom
    <3>4. b = y /\ StrictDom(y, p)
      BY <1>4, <3>2, <3>3 DEF StrictDom
    <3>5. poId[y] > poId[p] /\ poId[p] > poId[y]
      BY <1>1, <3>2, <3>4, DominatorsFinishLater
    <3>6. poId[y] \in Nat /\ poId[p] \in Nat
      BY <1>1 DEF Numbered
    <3> QED  BY <3>5, <3>6
  <2> QED  BY <2>1, <2>2 DEF FrontierOf
<1> QED  BY <1>3, <1>4

-----------------------------------------------------------------------------
(* The pass over the blocks.                                               *)

Scanned == {BlockList[i] : i \in 1 .. Len(BlockList) - Len(todo)}

Scan ==
    /\ todo \in Seq(Blocks) /\ Len(BlockList) - Len(todo) \in Nat
    /\ \A i \in 1 .. Len(todo) : todo[i] = BlockList[(Len(BlockList) - Len(todo)) + i]
    /\ df \in [Blocks \cup {Null} -> SUBSET Blocks]
    /\ \A r \in Blocks : df[r] = {y \in Scanned : r \in FrontierOf(y)}
    /\ pc # "throw" => \A y \in Scanned : Null \notin FrontierOf(y)
    /\ pc = "throw" => \E y \in Scanned : Null \in FrontierOf(y)

LEMMA ScanInit ==
    ASSUME todo' = BlockList, df' = [b \in Blocks \cup {Null} |-> {}], pc' # "throw"
    PROVE  Scan'
<1> DEFINE n == Len(BlockList)
<1>1. n \in Nat /\ BlockList \in Seq(Blocks)
  BY BlockListAssumption, LenProperties
<1>2. n - n = 0 /\ 1 .. 0 = {} /\ \A i \in 1 .. n : 0 + i = i
  <2> HIDE DEF n
  <2> QED  BY <1>1
<1>3. Scanned' = {}
  BY <1>2 DEF Scanned
<1> HIDE DEF n
<1> QED  BY <1>1, <1>2, <1>3 DEF Scan, n

LEMMA ScanStep ==
    ASSUME IsGraph, Numbered, Climbing, Sound, Fixed, Scan, FrontierBlock
    PROVE  Scan'
<1> DEFINE n == Len(BlockList)
           k == n - Len(todo)
           bb == Head(todo)
<1>1. /\ todo # << >> /\ todo' = Tail(todo) /\ pc = "frontier"
      /\ df' = [r \in DOMAIN df |-> IF r \in FrontierOf(bb) THEN df[r] \cup {bb} ELSE df[r]]
      /\ pc' = IF Null \in FrontierOf(bb) THEN "throw" ELSE pc
      /\ succ' = succ /\ idom' = idom
  BY DEF FrontierBlock, FrontierOf, Joins, idomVars
<1>2. \A y : FrontierOf(y)' = FrontierOf(y)
  BY <1>1 DEF FrontierOf, Joins, PredEdges, Preds, Runners
<1>3. /\ n \in Nat /\ k \in Nat /\ todo \in Seq(Blocks) /\ Len(todo) \in Nat \ {0}
      /\ bb = todo[1] /\ bb \in Blocks
      /\ todo' \in Seq(Blocks) /\ Len(todo') = Len(todo) - 1
      /\ \A i \in 1 .. Len(todo') : todo'[i] = todo[i + 1]
  BY <1>1, BlockListAssumption, LenProperties, EmptySeq, HeadTailProperties DEF Scan
<1>4. \A l \in Nat \ {0} :
         /\ n - (l - 1) = (n - l) + 1 /\ 1 \in 1 .. l
         /\ (n - l \in Nat => (n - l) + 1 \in Nat)
         /\ \A i \in 1 .. l - 1 :
               /\ i + 1 \in 1 .. l
               /\ (n - l) + (i + 1) = (n - (l - 1)) + i
  <2> HIDE DEF n
  <2> QED  BY <1>3
<1>5. n - Len(todo') = k + 1 /\ k + 1 \in Nat
  <2> HIDE DEF n
  <2> QED  BY <1>3, <1>4
<1>6. bb = BlockList[k + 1]
  BY <1>3, <1>4 DEF Scan
<1>7. ASSUME NEW i \in 1 .. Len(todo') PROVE todo'[i] = BlockList[(n - Len(todo')) + i]
  <2>1. i + 1 \in 1 .. Len(todo) /\ (n - Len(todo)) + (i + 1) = (n - Len(todo')) + i
    <3> HIDE DEF n
    <3> QED  BY <1>3, <1>4
  <2>2. todo[i + 1] = BlockList[(n - Len(todo)) + (i + 1)]
    BY <2>1 DEF Scan
  <2> QED  BY <1>3, <2>1, <2>2
<1>8. Scanned' = Scanned \cup {bb}
  <2>1. Scanned' = {BlockList[i] : i \in 1 .. k + 1} /\ Scanned = {BlockList[i] : i \in 1 .. k}
    BY <1>5 DEF Scanned
  <2> HIDE DEF k, bb
  <2>2. \A i \in 1 .. k + 1 : i \in 1 .. k \/ i = k + 1
    BY <1>3
  <2>3. 1 .. k \subseteq 1 .. k + 1 /\ k + 1 \in 1 .. k + 1
    BY <1>3
  <2> QED  BY <1>6, <2>1, <2>2, <2>3
<1> HIDE DEF n, k, bb
<1>9. DOMAIN df = Blocks \cup {Null} /\ \A r \in Blocks \cup {Null} : df[r] \in SUBSET Blocks
  BY DEF Scan
<1>10. df' \in [Blocks \cup {Null} -> SUBSET Blocks]
  BY <1>1, <1>3, <1>9
<1>11. ASSUME NEW r \in Blocks PROVE df'[r] = {y \in Scanned' : r \in FrontierOf(y)}
  <2>1. df[r] = {y \in Scanned : r \in FrontierOf(y)}
    BY DEF Scan
  <2>2. df'[r] = IF r \in FrontierOf(bb) THEN df[r] \cup {bb} ELSE df[r]
    BY <1>1, <1>9
  <2> QED  BY <1>8, <2>1, <2>2
<1>12. /\ pc' # "throw" => \A y \in Scanned' : Null \notin FrontierOf(y)
       /\ pc' = "throw" => \E y \in Scanned' : Null \in FrontierOf(y)
  BY <1>1, <1>8 DEF Scan
<1>13. todo' \in Seq(Blocks) /\ n - Len(todo') \in Nat
  BY <1>3, <1>5
<1> QED  BY <1>2, <1>7, <1>10, <1>11, <1>12, <1>13 DEF Scan, n

LEMMA ScanOver ==
    ASSUME Scan, todo = << >>
    PROVE  Scanned = Blocks
<1>1. BlockList \in Seq(Blocks) /\ Len(BlockList) - Len(todo) = Len(BlockList)
  BY BlockListAssumption, LenProperties
<1>2. DOMAIN BlockList = 1 .. Len(BlockList)
  BY <1>1, LenProperties
<1> QED  BY <1>1, <1>2 DEF Scanned, Blocks, ToSet

-----------------------------------------------------------------------------
(* The analysis of a function, phase by phase.                             *)

Phases == {"visit", "idom", "frontier", "done", "throw"}

DomInv ==
    /\ succ \in Graphs /\ pc \in Phases
    /\ pc = "visit" => Walk
    /\ pc # "visit" => Numbered /\ Climbing /\ Sound /\ Listed
    /\ pc = "idom" => Iteration
    /\ pc \in {"frontier", "done", "throw"} => Fixed /\ Scan
    /\ pc \in {"visit", "idom"} => df = [b \in Blocks \cup {Null} |-> {}]
    /\ pc = "done" => todo = << >>
    /\ pc = "done" => \A d \in Blocks \cup {Null} : tree[d] = {b \in Blocks : idom[b] = d /\ d # b}
    /\ DOMAIN tree = Blocks \cup {Null}

LEMMA GraphsAreGraphs ==
    ASSUME succ \in Graphs
    PROVE  IsGraph
  BY GraphsAssumption DEF IsGraph

LEMMA DomInvInit ==
    ASSUME Init
    PROVE  DomInv
<1>1. /\ pc = "visit" /\ succ \in Graphs /\ InitFor(succ)
  BY DEF Init, InitFor
<1>2. Walk
  BY <1>1, WalkInit, GraphsAreGraphs DEF InitFor
<1> QED  BY <1>1, <1>2 DEF DomInv, InitFor, Phases

(* What the walk's state leaves in place.                                  *)
LEMMA WalkKept ==
    ASSUME UNCHANGED <<succ, stack, visited, rpo, poId>>, Walk
    PROVE  Walk'
<1>1. Reachable' = Reachable /\ \A b : Targets(b)' = Targets(b)
  BY DEF Reachable, ReachAvoiding, ClosedBut, Targets
<1>2. Active' = Active /\ Left' = Left
  BY DEF Active, Left
<1> QED  BY <1>1, <1>2 DEF Walk

LEMMA NumbersKept ==
    ASSUME UNCHANGED <<succ, visited, rpo, poId, idom>>
    PROVE  /\ (Numbered /\ Climbing /\ Sound /\ Listed)
                 => (Numbered /\ Climbing /\ Sound /\ Listed)'
           /\ Fixed => Fixed'
<1>1. /\ \A c : ReachAvoiding(c)' = ReachAvoiding(c)
      /\ \A b : Targets(b)' = Targets(b)
  BY DEF ReachAvoiding, ClosedBut, Targets
<1>2. Reachable' = Reachable /\ Processed' = Processed /\ Left' = Left
  BY <1>1 DEF Reachable, Processed, Left
<1>3. \A d, b : StrictDom(d, b)' = StrictDom(d, b) /\ Dom(d, b)' = Dom(d, b)
  BY <1>1 DEF StrictDom, Dom
<1>4. \A b : Above(b)' = Above(b) /\ Preds(b)' = Preds(b)
  BY DEF Above, UpClosed, Preds, PredEdges
<1>5. \A b : Settled(b)' = Settled(b)
  BY <1>2, <1>4 DEF Settled
<1>6. Numbered => Numbered'
  BY <1>1, <1>2 DEF Numbered
<1>7. Climbing => Climbing'
  BY <1>2 DEF Climbing
<1>8. Sound => Sound'
  BY <1>2, <1>3 DEF Sound
<1>9. Listed => Listed'
  BY <1>2 DEF Listed
<1>10. Fixed => Fixed'
  BY <1>2, <1>5 DEF Fixed
<1> QED  BY <1>6, <1>7, <1>8, <1>9, <1>10

LEMMA ScanKept ==
    ASSUME UNCHANGED <<succ, idom, todo, df>>, Scan, pc # "throw", pc' # "throw"
    PROVE  Scan'
<1>1. \A y : FrontierOf(y)' = FrontierOf(y)
  BY DEF FrontierOf, Joins, PredEdges, Preds, Runners
<1>2. Scanned' = Scanned
  BY DEF Scanned
<1> QED  BY <1>1, <1>2 DEF Scan

LEMMA ScannedAreBlocks ==
    ASSUME Scan
    PROVE  Scanned \subseteq Blocks
<1>1. BlockList \in Seq(Blocks)
  BY BlockListAssumption
<1>2. Len(BlockList) \in Nat /\ DOMAIN BlockList = 1 .. Len(BlockList)
  BY <1>1, LenProperties
<1>3. Len(BlockList) - Len(todo) <= Len(BlockList) /\ Len(BlockList) - Len(todo) \in Nat
  <2>1. Len(todo) \in Nat
    BY LenProperties DEF Scan
  <2> QED  BY <1>2, <2>1 DEF Scan
<1>4. \A i \in 1 .. (Len(BlockList) - Len(todo)) : i \in 1 .. Len(BlockList)
  BY <1>2, <1>3
<1> QED  BY <1>1, <1>2, <1>4, ElementOfSeq DEF Scanned

LEMMA DomInvStep ==
    ASSUME DomInv, [Next]_vars
    PROVE  DomInv'
<1>1. IsGraph
  BY GraphsAreGraphs DEF DomInv
<1>2. CASE VisitSucc
  <2>1. Walk'
    BY <1>1, <1>2, WalkVisit DEF DomInv, VisitSucc
  <2> QED  BY <1>2, <2>1 DEF DomInv, VisitSucc, resultVars
<1>3. CASE VisitDone
  <2>1. Walk'
    BY <1>1, <1>3, WalkDone DEF DomInv, VisitDone
  <2> QED  BY <1>3, <2>1 DEF DomInv, VisitDone, resultVars
<1>4. CASE StartIdom
  <2>1. (Numbered /\ Climbing /\ Sound /\ Listed /\ Iteration)'
    BY <1>1, <1>4, WalkIsOver DEF DomInv, StartIdom
  <2> QED  BY <1>4, <2>1 DEF DomInv, StartIdom, resultVars, Phases
<1>5. CASE IdomBlock
  <2>1. (Numbered /\ Climbing /\ Sound /\ Listed /\ Iteration)'
    BY <1>1, <1>5, IdomBlockStep DEF DomInv, IdomBlock
  <2>2. UNCHANGED <<succ, pc, df, tree>> /\ pc = "idom"
    BY <1>5 DEF IdomBlock, resultVars
  <2> QED  BY <2>1, <2>2 DEF DomInv
<1>6. CASE IdomSweepDone
  <2>1. /\ (Numbered /\ Climbing /\ Sound /\ Listed)'
        /\ pc' = "idom" => Iteration'
        /\ pc' # "idom" => Fixed'
    BY <1>1, <1>6, SweepStep DEF DomInv, IdomSweepDone
  <2>2. /\ UNCHANGED <<succ, df, tree>> /\ pc = "idom"
        /\ pc' = "idom" \/ (pc' = "frontier" /\ todo' = BlockList)
    BY <1>6 DEF IdomSweepDone, resultVars
  <2>3. df' = [b \in Blocks \cup {Null} |-> {}]
    BY <2>2 DEF DomInv
  <2>4. pc' = "frontier" => Scan'
    BY <2>2, <2>3, ScanInit
  <2> QED  BY <2>1, <2>2, <2>3, <2>4 DEF DomInv, Phases
<1>7. CASE FrontierBlock
  <2>1. Scan'
    BY <1>1, <1>7, ScanStep DEF DomInv, FrontierBlock
  <2>2. /\ UNCHANGED <<succ, visited, rpo, poId, idom, tree>> /\ pc = "frontier"
        /\ pc' \in {"frontier", "throw"}
    BY <1>7 DEF FrontierBlock, graphVars, idomVars
  <2>3. (Numbered /\ Climbing /\ Sound /\ Listed)' /\ Fixed'
    BY <2>2, NumbersKept DEF DomInv
  <2> QED  BY <2>1, <2>2, <2>3 DEF DomInv, Phases
<1>8. CASE CreateTree
  <2>1. /\ UNCHANGED <<succ, visited, rpo, poId, idom, todo, df>> /\ pc = "frontier"
        /\ pc' = "done" /\ todo = << >>
        /\ tree' = [d \in DOMAIN tree |-> {b \in Blocks : idom[b] = d /\ d # b}]
    BY <1>8 DEF CreateTree, graphVars, idomVars
  <2>2. (Numbered /\ Climbing /\ Sound /\ Listed)' /\ Fixed'
    BY <2>1, NumbersKept DEF DomInv
  <2>3. Scan'
    BY <2>1, ScanKept DEF DomInv
  <2> QED  BY <2>1, <2>2, <2>3 DEF DomInv, Phases
<1>9. CASE UNCHANGED vars
  <2>1. UNCHANGED <<succ, pc, stack, visited, rpo, poId, idom, changed, todo, df, tree>>
    BY <1>9 DEF vars
  <2>2. pc = "visit" => Walk'
    BY <2>1, WalkKept DEF DomInv
  <2>3. /\ pc # "visit" => (Numbered /\ Climbing /\ Sound /\ Listed)'
        /\ pc \in {"frontier", "done", "throw"} => Fixed'
    BY <2>1, NumbersKept DEF DomInv
  <2>4. pc = "idom" => Iteration'
    BY <2>1 DEF DomInv, Iteration, Passed, Processed, Settled, Preds, PredEdges, Above, UpClosed
  <2>5. pc \in {"frontier", "done", "throw"} => Scan'
    <3>1. \A y : FrontierOf(y)' = FrontierOf(y)
      BY <2>1 DEF FrontierOf, Joins, PredEdges, Preds, Runners
    <3> QED  BY <2>1, <3>1 DEF DomInv, Scan, Scanned
  <2> QED  BY <2>1, <2>2, <2>3, <2>4, <2>5 DEF DomInv
<1> QED  BY <1>2, <1>3, <1>4, <1>5, <1>6, <1>7, <1>8, <1>9 DEF Next, Step, Finished

(* Every phase keeps what the next one relies on: the walk numbers what    *)
(* the entry reaches, the iteration only ever files a block under one that *)
(* all its strict dominators dominate, and ends when no predecessor        *)
(* objects; the pass over the blocks has collected the frontiers of those  *)
(* it has passed.                                                          *)
THEOREM DominatorsInvariant == Spec => []DomInv
<1>1. Init => DomInv
  BY DomInvInit
<1>2. DomInv /\ [Next]_vars => DomInv'
  BY DomInvStep
<1> QED  BY <1>1, <1>2, PTL DEF Spec

(* create_idom ends with the immediate dominator of every block the entry  *)
(* reaches, whatever the function's graph and the order of its lists.      *)
THEOREM IdomIsImmediateDominator == Spec => []IdomCorrect
<1>1. DomInv => IdomCorrect
  <2> SUFFICES ASSUME DomInv, pc \in {"frontier", "done", "throw"}
               PROVE  IdomCorrect
    BY DEF IdomCorrect
  <2>1. IsGraph /\ Numbered /\ Climbing /\ Sound /\ Fixed
    BY GraphsAreGraphs DEF DomInv
  <2> QED  BY <2>1, FixedIsCorrect DEF IdomCorrect
<1> QED  BY <1>1, DominatorsInvariant, PTL

(* create_dominance_frontier collects, for every block the entry reaches,  *)
(* exactly the blocks where its dominance ends.                            *)
THEOREM FrontiersAreExact == Spec => []FrontierCorrect
<1>1. DomInv => FrontierCorrect
  <2> SUFFICES ASSUME DomInv, pc = "done", NEW b \in Reachable
               PROVE  df[b] \cap Reachable =
                        {y \in Reachable :
                           ~StrictDom(b, y) /\ \E p \in Preds(y) \cap Reachable : Dom(b, p)}
    BY DEF FrontierCorrect
  <2>1. /\ IsGraph /\ Numbered /\ Climbing /\ Sound /\ Fixed /\ Scan
        /\ todo = << >>
    BY GraphsAreGraphs DEF DomInv
  <2>2. Scanned = Blocks /\ Reachable \subseteq Blocks
    BY <2>1, ScanOver, ReachableClosed
  <2>3. /\ df[b] = {y \in Blocks : b \in FrontierOf(y)}
        /\ \A y \in Blocks : Null \notin FrontierOf(y)
    BY <2>1, <2>2 DEF Scan
  <2>4. \A y \in Reachable :
          b \in FrontierOf(y) <=>
            (~StrictDom(b, y) /\ \E p \in Preds(y) \cap Reachable : Dom(b, p))
    BY <2>1, <2>2, <2>3, FrontierMembers
  <2> QED  BY <2>2, <2>3, <2>4
<1> QED  BY <1>1, DominatorsInvariant, PTL

(* Null is among the runners of a join that is reached when one of its     *)
(* predecessors is not, and only then.                                     *)
LEMMA ResultOfThrow ==
    ASSUME DomInv
    PROVE  ThrowsOnlyOnDeadPred
<1> SUFFICES ASSUME pc \in {"done", "throw"}
             PROVE  ThrowsOnlyOnDeadPred
  BY DEF ThrowsOnlyOnDeadPred
<1>1. /\ IsGraph /\ Numbered /\ Climbing /\ Sound /\ Fixed /\ Scan
      /\ pc = "done" => todo = << >>
  BY GraphsAreGraphs DEF DomInv
<1>2. \A y \in Blocks :
        Null \in FrontierOf(y) <=> (y \in Reachable /\ Joins(y) /\ ~(Preds(y) \subseteq Reachable))
  BY <1>1, FrontierLost DEF Numbered
<1>3. Scanned \subseteq Blocks /\ Reachable \subseteq Blocks
  BY <1>1, ScannedAreBlocks, ReachableClosed
<1>4. CASE pc = "throw"
  BY <1>1, <1>2, <1>3, <1>4 DEF Scan, Joins, ThrowsOnlyOnDeadPred
<1>5. CASE pc = "done"
  <2>1. \A y \in Blocks : Null \notin FrontierOf(y)
    BY <1>1, <1>5, ScanOver DEF Scan
  <2> QED  BY <1>2, <1>3, <1>5, <2>1 DEF Joins, ThrowsOnlyOnDeadPred
<1> QED  BY <1>4, <1>5

(* The frontier walk throws std::out_of_range exactly on functions where a *)
(* join that is reached has a predecessor that is not.                     *)
THEOREM ThrowsExactly == Spec => []ThrowsOnlyOnDeadPred
<1>1. DomInv => ThrowsOnlyOnDeadPred
  BY ResultOfThrow
<1> QED  BY <1>1, DominatorsInvariant, PTL

-----------------------------------------------------------------------------
(* What is known of the chains, for use before and after a step.           *)
AboveFacts ==
    /\ \A b \in Blocks :
          /\ b \in Above(b) /\ Above(b) \subseteq Blocks /\ UpClosed(Above(b))
          /\ \A S \in SUBSET Blocks : b \in S /\ UpClosed(S) => Above(b) \subseteq S
          /\ \A a \in Above(b) : Above(a) \subseteq Above(b)
    /\ \A b \in Processed : \A a \in Above(b) :
          /\ a \in Processed /\ (a = b \/ poId[a] > poId[b])
          /\ \A c \in Above(b) : c \in Above(a) \/ a \in Above(c)

(* They hold before a step,                                               *)
LEMMA AboveFactsHold == IsGraph /\ Numbered /\ Climbing => AboveFacts
<1> SUFFICES ASSUME IsGraph, Numbered, Climbing PROVE AboveFacts
  OBVIOUS
<1>1. \A b \in Blocks : \A a \in Above(b) : Above(a) \subseteq Above(b)
  BY AboveTransitive DEF Climbing
<1>2. \A b \in Blocks :
          /\ b \in Above(b) /\ Above(b) \subseteq Blocks /\ UpClosed(Above(b))
          /\ \A S \in SUBSET Blocks : b \in S /\ UpClosed(S) => Above(b) \subseteq S
  BY AboveBasics DEF Climbing
<1>3. \A b \in Processed : \A a \in Above(b) : a \in Processed /\ (a = b \/ poId[a] > poId[b])
  BY AboveNumbers
<1>4. \A b \in Processed : \A a, c \in Above(b) : c \in Above(a) \/ a \in Above(c)
  BY AboveTotal
<1> QED  BY <1>1, <1>2, <1>3, <1>4 DEF AboveFacts

(* and after it.                                                           *)
LEMMA AboveFactsThen == (IsGraph /\ Numbered /\ Climbing => AboveFacts)'
BY AboveFactsHold, PTL

(* What is above a processed block once bb is filed under z.               *)
LEMMA ChainsTurned ==
    ASSUME IsGraph, Numbered, Climbing, (Numbered /\ Climbing)', UNCHANGED <<succ, poId, visited>>,
           NEW bb \in visited \ {Entry}, NEW z \in Processed, poId[z] > poId[bb],
           idom' = [idom EXCEPT ![bb] = z]
    PROVE  /\ Processed' = Processed \cup {bb}
           /\ \A x \in Processed : bb \notin Above(x) => Above(x)' = Above(x)
           /\ \A x \in Processed : poId[x] > poId[bb] => Above(x)' = Above(x)
           /\ \A x \in Processed : \A a \in Blocks :
                 poId[a] <= poId[bb] => (a \in Above(x)' <=> a \in Above(x))
           /\ (bb \in Processed => z \in Above(idom[bb])) =>
                 \A x \in Processed : Above(x)' \subseteq Above(x)
           /\ AboveFacts /\ AboveFacts'
<1>1. AboveFacts /\ AboveFacts'
  <2>1. IsGraph'
    BY DEF IsGraph
  <2> QED  BY <2>1, AboveFactsHold, AboveFactsThen
<1>2. /\ bb \in Blocks /\ z \in Blocks /\ \A x \in Blocks : poId[x] \in Nat
      /\ z # Null /\ \A x \in Processed : x \in Blocks
  BY ReachableClosed, NullAssumption DEF Numbered, Processed
<1>3. /\ idom'[bb] = z /\ \A x \in Blocks \ {bb} : idom'[x] = idom[x]
  BY <1>2 DEF Climbing
<1>4. Processed' = Processed \cup {bb}
  BY <1>2, <1>3 DEF Processed
<1>5. /\ \A S : UpClosed(S) <=> \A y \in S : idom[y] # Null => idom[y] \in S
      /\ \A S : UpClosed(S)' <=> \A y \in S : idom'[y] # Null => idom'[y] \in S
  BY DEF UpClosed
<1>6. ASSUME NEW x \in Processed, bb \notin Above(x) PROVE Above(x)' = Above(x)
  <2>1. x \in Above(x) /\ Above(x) \in SUBSET Blocks /\ UpClosed(Above(x))
    BY <1>1, <1>2 DEF AboveFacts
  <2>2. PICK A : A = Above(x)
    OBVIOUS
  <2>3. UpClosed(A)'
    BY <1>3, <1>5, <1>6, <2>1, <2>2
  <2>4. Above(x)' \subseteq A
    BY <1>1, <1>2, <2>1, <2>2, <2>3 DEF AboveFacts
  <2>5. PICK B : B = Above(x)'
    OBVIOUS
  <2>6. x \in B /\ B \in SUBSET Blocks /\ UpClosed(B)'
    BY <1>1, <1>2, <2>5 DEF AboveFacts
  <2>7. bb \notin B
    BY <1>6, <2>2, <2>4, <2>5
  <2>8. UpClosed(B)
    BY <1>3, <1>5, <2>6, <2>7
  <2>9. A \subseteq B
    BY <1>1, <1>2, <2>2, <2>6, <2>8 DEF AboveFacts
  <2> QED  BY <2>2, <2>4, <2>5, <2>9
<1>7. ASSUME NEW x \in Processed, poId[x] > poId[bb] PROVE Above(x)' = Above(x)
  <2>1. bb \notin Above(x)
    BY <1>1, <1>2, <1>7 DEF AboveFacts
  <2> QED  BY <1>6, <2>1
(* A chain is the same up to bb.                                           *)
<1>8. ASSUME NEW x \in Processed, NEW a \in Blocks, poId[a] <= poId[bb]
      PROVE  a \in Above(x)' <=> a \in Above(x)
  <2>1. /\ x \in Blocks /\ x \in Above(x) /\ Above(x) \in SUBSET Blocks /\ UpClosed(Above(x))
        /\ \A y \in Above(x) : y \in Processed
    BY <1>1, <1>2 DEF AboveFacts
  <2>2. PICK A, B : A = Above(x) /\ B = Above(x)'
    OBVIOUS
  <2>3. /\ x \in B /\ B \in SUBSET Blocks /\ UpClosed(B)'
        /\ \A y \in B : y \in Processed'
    BY <1>1, <1>2, <1>4, <2>2 DEF AboveFacts
  <2>4. ASSUME a \in A PROVE a \in B
    <3> DEFINE S == {y \in A : y \in B \/ poId[y] > poId[bb]}
    <3>1. ASSUME NEW y \in S, idom[y] # Null PROVE idom[y] \in S
      <4>1. y \in A /\ y \in Processed /\ idom[y] \in A /\ y \in Blocks /\ idom[y] \in Blocks
        BY <1>2, <1>5, <2>1, <2>2, <3>1
      <4>2. CASE y = Entry
        BY <3>1, <4>2 DEF Climbing
      <4>3. CASE y # Entry /\ poId[y] > poId[bb]
        <5>1. poId[idom[y]] > poId[y]
          BY <4>1, <4>3 DEF Climbing
        <5>2. poId[idom[y]] > poId[bb]
          BY <1>2, <4>1, <4>3, <5>1
        <5> QED  BY <4>1, <5>2
      <4>4. CASE y # Entry /\ y = bb
        <5>1. poId[idom[y]] > poId[bb]
          BY <4>1, <4>4 DEF Climbing
        <5> QED  BY <4>1, <5>1
      <4>5. CASE y # bb /\ y \in B
        <5>1. idom'[y] = idom[y]
          BY <1>3, <4>1, <4>5
        <5>2. idom[y] \in B
          BY <1>5, <2>3, <3>1, <4>5, <5>1
        <5> QED  BY <4>1, <5>2
      <4> QED  BY <3>1, <4>2, <4>3, <4>4, <4>5
    <3>2. S \in SUBSET Blocks /\ x \in S /\ UpClosed(S)
      BY <1>5, <2>1, <2>2, <2>3, <3>1
    <3> HIDE DEF S
    <3>3. a \in S
      BY <1>1, <2>1, <2>2, <2>4, <3>2 DEF AboveFacts
    <3>4. ~(poId[a] > poId[bb])
      BY <1>2, <1>8
    <3> QED  BY <3>3, <3>4 DEF S
  <2>5. ASSUME a \in B PROVE a \in A
    <3> DEFINE S == {y \in B : y \in A \/ poId[y] > poId[bb]}
    <3>1. ASSUME NEW y \in S, idom'[y] # Null PROVE idom'[y] \in S
      <4>1. y \in B /\ y \in Processed' /\ idom'[y] \in B /\ y \in Blocks /\ idom'[y] \in Blocks
        BY <1>2, <1>5, <2>1, <2>2, <2>3, <3>1
      <4>2. CASE y = Entry
        <5>1. idom'[y] = y
          BY <4>2 DEF Climbing
        <5> QED  BY <3>1, <5>1
      <4>3. CASE y # Entry /\ y # bb /\ poId[y] > poId[bb]
        <5>1. idom'[y] = idom[y] /\ y \in Processed
          BY <1>3, <1>4, <4>1, <4>3
        <5>2. poId[idom[y]] > poId[y]
          BY <4>3, <5>1 DEF Climbing
        <5>3. poId[idom'[y]] > poId[bb]
          BY <1>2, <4>1, <4>3, <5>1, <5>2
        <5> QED  BY <4>1, <5>3
      <4>4. CASE y = bb
        BY <1>3, <4>1, <4>4
      <4>5. CASE y # bb /\ y \in A
        <5>1. idom'[y] = idom[y]
          BY <1>3, <4>1, <4>5
        <5>2. idom'[y] \in A
          BY <1>5, <2>1, <2>2, <3>1, <4>5, <5>1
        <5> QED  BY <4>1, <5>2
      <4> QED  BY <3>1, <4>2, <4>3, <4>4, <4>5
    <3>2. S \in SUBSET Blocks /\ x \in S
      BY <2>1, <2>2, <2>3
    <3>3. PICK T : T = S
      OBVIOUS
    <3>4. \A y \in T : idom'[y] # Null => idom'[y] \in T
      BY <3>1, <3>3
    <3> HIDE DEF S
    <3>5. UpClosed(T)'
      BY <1>5, <3>4
    <3>6. a \in T
      BY <1>1, <2>1, <2>2, <2>5, <3>2, <3>3, <3>5 DEF AboveFacts
    <3>7. ~(poId[a] > poId[bb])
      BY <1>2, <1>8
    <3> QED  BY <3>3, <3>6, <3>7 DEF S
  <2> QED  BY <2>2, <2>4, <2>5
(* A chain loses blocks when bb climbs, and gains none.                    *)
<1>9. ASSUME bb \in Processed => z \in Above(idom[bb]), NEW x \in Processed
      PROVE  Above(x)' \subseteq Above(x)
  <2>1. PICK A : A = Above(x)
    OBVIOUS
  <2>2. /\ x \in A /\ A \in SUBSET Blocks /\ UpClosed(A)
        /\ \A y \in A : y \in Processed /\ Above(y) \subseteq A
    BY <1>1, <1>2, <2>1 DEF AboveFacts
  <2>3. ASSUME NEW y \in A, idom'[y] # Null PROVE idom'[y] \in A
    <3>1. CASE y # bb
      BY <1>2, <1>3, <1>5, <2>2, <2>3, <3>1
    <3>2. CASE y = bb
      <4>1. bb \in Processed /\ idom[bb] \in A /\ z \in Above(idom[bb])
        BY <1>5, <1>9, <2>2, <3>2 DEF Processed
      <4> QED  BY <1>3, <2>2, <3>2, <4>1
    <3> QED  BY <3>1, <3>2
  <2>4. UpClosed(A)'
    BY <1>5, <2>3
  <2> QED  BY <1>1, <1>2, <2>1, <2>2, <2>4 DEF AboveFacts
<1> QED  BY <1>1, <1>4, <1>6, <1>7, <1>8, <1>9

-----------------------------------------------------------------------------
(* Why a block only climbs: what is above all predecessors it has is above *)
(* its idom_ already (Rising).  An update of bb could break that for a     *)
(* block below bb, were it not that a predecessor with a larger number     *)
(* still has in its chain all that the sweep has not yet reached           *)
(* (Following).                                                            *)
Ahead(x) == poId[x] < Len(todo)

Rising ==
    \A b \in Processed \ {Entry} : \A a \in Blocks :
        (\A p \in Preds(b) \cap Processed : a \in Above(p)) => a \in Above(idom[b])

Following ==
    \A b \in Processed \ {Entry} : \A p \in Preds(b) \cap visited :
        poId[p] > poId[b] =>
            /\ p \in Processed
            /\ \A a \in Above(idom[b]) : (Ahead(b) => Ahead(a)) => a \in Above(p)

ClimbInv == pc = "idom" => Rising /\ Following

(* The numbers of the blocks the sweep has left are those below their      *)
(* count, and the next one has the largest.                                *)
LEMMA HeadNumber ==
    ASSUME IsGraph, Numbered, Listed, Iteration, todo # << >>
    PROVE  /\ Len(todo) \in Nat /\ Len(Tail(todo)) = Len(todo) - 1
           /\ Head(todo) \in visited /\ poId[Head(todo)] = Len(todo) - 1
           /\ \A x \in visited : ~Ahead(x) => x \in Processed
<1> DEFINE m == Len(rpo)
           l == Len(todo)
<1>1. /\ l \in Nat \ {0} /\ Head(todo) = todo[1] /\ m \in Nat /\ Len(Tail(todo)) = l - 1
  BY EmptySeq, HeadTailProperties DEF Iteration, Listed
<1>2. Passed \in Nat /\ Passed = m - l
  BY DEF Iteration, Passed
<1>3. 1 \in 1 .. l /\ Passed + 1 \in 1 .. m /\ m - (Passed + 1) = l - 1
  <2> HIDE DEF m, l
  <2> QED  BY <1>1, <1>2
<1>4. Head(todo) = rpo[Passed + 1]
  BY <1>1, <1>3 DEF Iteration
<1>5. Head(todo) \in visited /\ poId[Head(todo)] = l - 1
  BY <1>3, <1>4 DEF Listed, Left
<1>6. ASSUME NEW x \in visited, ~Ahead(x) PROVE x \in Processed
  <2>1. PICK i \in 1 .. m : x = rpo[i]
    BY DEF Listed, Left
  <2>2. ~(m - i < l)
    BY <1>6, <2>1 DEF Listed, Ahead
  <2>3. i \in 1 .. Passed
    <3> HIDE DEF m, l
    <3> QED  BY <1>1, <1>2, <2>2
  <2> QED  BY <2>1, <2>3 DEF Iteration
<1> QED  BY <1>1, <1>5, <1>6

(* One turn of the sweep.                                                  *)
LEMMA RisingStep ==
    ASSUME IsGraph, Numbered, Climbing, Sound, Listed, Iteration, IdomBlock, Rising, Following
    PROVE  /\ Rising' /\ Following'
           /\ \A b \in Processed : idom'[b] # Null /\ poId[idom'[b]] >= poId[idom[b]]
<1>1. /\ todo # << >> /\ todo' = Tail(todo)
      /\ succ' = succ /\ visited' = visited /\ rpo' = rpo /\ poId' = poId
  BY DEF IdomBlock, graphVars
<1>2. PICK bb : bb = Head(todo)
  OBVIOUS
<1>3. PICK l : l = Len(todo)
  OBVIOUS
<1>4. /\ l \in Nat /\ Len(todo') = l - 1 /\ bb \in visited /\ bb \in Blocks /\ poId[bb] = l - 1
      /\ \A x \in visited : ~(poId[x] < l) => x \in Processed
  <2>1. visited \subseteq Blocks
    BY ReachableClosed DEF Numbered
  <2> QED  BY <1>1, <1>2, <1>3, <2>1, HeadNumber DEF Ahead
<1>5. \A b : Preds(b)' = Preds(b)
  BY <1>1 DEF Preds, PredEdges
<1>6. /\ \A x \in Blocks : poId[x] \in Nat
      /\ \A x \in Processed : x \in visited /\ x \in Blocks
      /\ \A x \in Processed \ {Entry} : idom[x] \in Processed
      /\ \A x, y \in visited : poId[x] = poId[y] => x = y
  BY DEF Numbered, Climbing, Processed
<1>7. /\ \A x : Ahead(x) <=> poId[x] < l
      /\ \A x : Ahead(x)' <=> poId[x] < l - 1
  BY <1>1, <1>3, <1>4 DEF Ahead
<1>8. \A x \in Blocks : Ahead(x)' => Ahead(x)
  BY <1>4, <1>6, <1>7
<1>9. \A x \in visited \cap Blocks : x # bb => (Ahead(x)' <=> Ahead(x)) /\ (Ahead(x) => poId[x] < poId[bb])
  BY <1>4, <1>6, <1>7
<1>10. CASE bb = Entry
  <2>1. idom' = idom
    BY <1>2, <1>10 DEF IdomBlock, idomVars
  <2>2. Processed' = Processed /\ \A b : Above(b)' = Above(b)
    BY <2>1 DEF Processed, Above, UpClosed
  <2>3. Rising'
    BY <1>5, <2>1, <2>2 DEF Rising
  <2>4. ASSUME NEW b \in Processed \ {Entry}, NEW p \in Preds(b) \cap visited, poId[p] > poId[b],
               NEW a \in Above(idom[b]), Ahead(b)' => Ahead(a)'
        PROVE  p \in Processed /\ a \in Above(p)
    <3>1. a \in Blocks
      BY DEF Above
    <3>2. Ahead(b) => Ahead(a)
      BY <1>6, <1>8, <1>9, <1>10, <2>4, <3>1
    <3> QED  BY <2>4, <3>2 DEF Following
  <2>5. \A b \in Processed \ {Entry} : \A p \in Preds(b) \cap visited :
           poId[p] > poId[b] => p \in Processed
    BY DEF Following
  <2>6. Following'
    BY <1>1, <1>5, <2>1, <2>2, <2>4, <2>5 DEF Following
  <2>7. \A b \in Processed : idom[b] # Null /\ idom[b] \in Blocks
    BY DEF Processed, Climbing
  <2> QED  BY <1>6, <2>1, <2>3, <2>6, <2>7
<1>11. CASE bb # Entry
  <2>1. PICK z : Turns(bb, z)
    BY <1>2, <1>11, BlockTurns
  <2>2. /\ bb \in visited \ {Entry} /\ z \in Processed /\ poId[z] > poId[bb]
        /\ \A p \in Preds(bb) \cap Processed : z \in Above(p)
        /\ \A a : (\A p \in Preds(bb) \cap Processed : a \in Above(p)) => a \in Above(z)
        /\ idom' = [idom EXCEPT ![bb] = z]
    BY <2>1 DEF Turns
  <2>3. (Numbered /\ Climbing)'
    BY IdomBlockStep
  <2>4. /\ Processed' = Processed \cup {bb}
        /\ \A x \in Processed : bb \notin Above(x) => Above(x)' = Above(x)
        /\ \A x \in Processed : poId[x] > poId[bb] => Above(x)' = Above(x)
        /\ \A x \in Processed : \A a \in Blocks :
              poId[a] <= poId[bb] => (a \in Above(x)' <=> a \in Above(x))
        /\ (bb \in Processed => z \in Above(idom[bb])) =>
              \A x \in Processed : Above(x)' \subseteq Above(x)
        /\ AboveFacts /\ AboveFacts'
    BY <1>1, <2>2, <2>3, ChainsTurned
  <2>5. idom'[bb] = z /\ \A x \in Blocks \ {bb} : idom'[x] = idom[x]
    BY <1>4, <2>2 DEF Climbing
  <2>6. bb \in Processed => z \in Above(idom[bb])
    <3>1. z \in Blocks
      BY <1>6, <2>2
    <3> QED  BY <2>2, <3>1 DEF Rising
  <2>7. \A x \in Processed : Above(x)' \subseteq Above(x)
    BY <2>4, <2>6
  <2>8. Above(z)' = Above(z)
    BY <2>2, <2>4
  (* A predecessor with a larger number.                                   *)
  <2>9. \A b \in visited \ {Entry} : \E p \in Preds(b) \cap visited : poId[p] > poId[b]
    <3>1. ASSUME NEW b \in visited \ {Entry} PROVE \E p \in Preds(b) \cap visited : poId[p] > poId[b]
      <4>1. PICK p \in visited : b \in Targets(p) /\ poId[p] > poId[b]
        BY DEF Numbered
      <4>2. p \in Blocks
        BY ReachableClosed DEF Numbered
      <4> QED  BY <4>1, <4>2, SourcesArePreds
    <3> QED  BY <3>1
  <2>10. \A p \in Preds(bb) \cap visited : poId[p] > poId[bb] => p \in Processed
    <3>1. ASSUME NEW p \in Preds(bb) \cap visited, poId[p] > poId[bb] PROVE p \in Processed
      <4>1. p \in Blocks
        BY ReachableClosed DEF Numbered
      <4>2. ~(poId[p] < l)
        BY <1>4, <1>6, <3>1, <4>1
      <4> QED  BY <1>4, <4>2
    <3> QED  BY <3>1
  <2>11. ASSUME NEW b \in Processed' \ {Entry}, NEW p \in Preds(b) \cap visited, poId[p] > poId[b]
         PROVE  /\ p \in Processed'
                /\ \A a \in Above(idom[b])' : (Ahead(b)' => Ahead(a)') => a \in Above(p)'
    <3>1. CASE b = bb
      <4>1. p \in Processed
        BY <2>10, <2>11, <3>1
      <4>2. Above(p)' = Above(p) /\ z \in Above(p)
        BY <2>2, <2>4, <2>11, <3>1, <4>1
      <4>3. Above(z) \subseteq Above(p)
        BY <1>6, <2>4, <4>1, <4>2 DEF AboveFacts
      <4> QED  BY <2>4, <2>5, <2>8, <3>1, <4>1, <4>2, <4>3
    <3>2. CASE b # bb
      <4>1. b \in Processed \ {Entry} /\ b \in Blocks /\ b \in visited /\ idom'[b] = idom[b]
        BY <1>6, <2>4, <2>5, <2>11, <3>2
      <4>2. /\ p \in Processed
            /\ \A a \in Above(idom[b]) : (Ahead(b) => Ahead(a)) => a \in Above(p)
        BY <2>11, <4>1 DEF Following
      <4>3. PICK c : c = idom[b]
        OBVIOUS
      <4>5. c \in Processed /\ c \in Blocks /\ p \in Blocks /\ c = idom'[b]
        BY <1>6, <4>1, <4>2, <4>3 DEF Climbing
      <4>4. ASSUME NEW a \in Above(idom[b])', Ahead(b)' => Ahead(a)' PROVE a \in Above(p)'
        <5>1. a \in Above(c) /\ a \in Blocks
          BY <2>4, <2>7, <4>4, <4>5 DEF AboveFacts
        <5>2. Ahead(b)' <=> Ahead(b)
          BY <1>9, <3>2, <4>1
        <5>3. a \in Above(p)
          BY <1>8, <4>2, <4>3, <4>4, <5>1, <5>2
        <5>4. CASE Ahead(b)
          <6>1. poId[a] <= poId[bb]
            BY <1>4, <1>6, <1>7, <4>4, <5>1, <5>2, <5>4
          <6> QED  BY <2>4, <4>2, <5>1, <5>3, <6>1
        <5>5. CASE ~Ahead(b)
          <6>1. poId[p] > poId[bb]
            BY <1>4, <1>6, <1>7, <2>11, <4>1, <4>5, <5>5
          <6> QED  BY <2>4, <4>2, <5>3, <6>1
        <5> QED  BY <5>4, <5>5
      <4> QED  BY <2>4, <4>1, <4>2, <4>4
    <3> QED  BY <3>1, <3>2
  <2>12. ASSUME NEW b \in Processed' \ {Entry}, NEW a \in Blocks,
                \A p \in Preds(b) \cap Processed' : a \in Above(p)'
         PROVE  a \in Above(idom[b])'
    <3>1. \A p \in Preds(b) \cap Processed : a \in Above(p)
      BY <2>4, <2>7, <2>12
    <3>2. CASE b = bb
      <4>1. a \in Above(z)
        BY <2>2, <3>1, <3>2
      <4> QED  BY <2>5, <2>8, <3>2, <4>1
    <3>3. CASE b # bb
      <4>1. b \in Processed \ {Entry} /\ b \in Blocks /\ b \in visited /\ idom'[b] = idom[b]
        BY <1>6, <2>4, <2>5, <2>12, <3>3
      <4>2. PICK c : c = idom[b]
        OBVIOUS
      <4>3. c \in Processed /\ c \in Blocks /\ poId[c] > poId[b] /\ a \in Above(c)
        BY <1>6, <3>1, <4>1, <4>2 DEF Rising, Climbing
      <4>4. CASE bb \notin Above(c)
        BY <2>4, <4>1, <4>2, <4>3, <4>4
      <4>5. CASE bb \in Above(c) /\ poId[a] <= poId[bb]
        BY <2>4, <4>1, <4>2, <4>3, <4>5
      <4>6. CASE bb \in Above(c) /\ ~(poId[a] <= poId[bb])
        <5>1. PICK p \in Preds(b) \cap visited : poId[p] > poId[b]
          BY <2>9, <4>1
        <5>2. Ahead(bb)
          BY <1>4, <1>7
        <5>3. p \in Processed /\ bb \in Above(p)
          BY <4>1, <4>2, <4>6, <5>1, <5>2 DEF Following
        <5>4. p \in Processed' /\ a \in Above(p)' /\ bb \in Above(p)' /\ bb \in Above(c)'
          BY <1>4, <1>6, <2>4, <2>12, <4>3, <4>6, <5>1, <5>3
        <5>5. a \in Above(bb)' \/ bb \in Above(a)'
          BY <2>4, <5>4 DEF AboveFacts
        <5>6. a \in Above(bb)'
          <6>1. a \in Processed'
            BY <2>4, <5>4 DEF AboveFacts
          <6>2. bb \in Above(a)' => bb = a \/ poId[bb] > poId[a]
            BY <1>1, <2>4, <6>1 DEF AboveFacts
          <6>3. poId[a] \in Nat /\ poId[bb] \in Nat
            BY <1>4, <1>6
          <6> QED  BY <4>6, <5>5, <6>2, <6>3
        <5>7. Above(bb)' \subseteq Above(c)'
          BY <2>4, <4>3, <5>4 DEF AboveFacts
        <5> QED  BY <4>1, <4>2, <5>6, <5>7
      <4> QED  BY <4>4, <4>5, <4>6
    <3> QED  BY <3>2, <3>3
  <2>13. Rising'
    BY <1>5, <2>12 DEF Rising
  <2>14. Following'
    BY <1>1, <1>5, <2>11 DEF Following
  <2>15. ASSUME NEW b \in Processed PROVE idom'[b] # Null /\ poId[idom'[b]] >= poId[idom[b]]
    <3>1. b \in Blocks /\ idom[b] # Null /\ idom[b] \in Blocks
      BY DEF Processed, Climbing
    <3>2. CASE b # bb
      BY <1>6, <2>5, <3>1, <3>2
    <3>3. CASE b = bb
      <4>1. idom[bb] \in Processed /\ z \in Above(idom[bb]) /\ z \in Blocks
        BY <1>6, <2>2, <2>6, <3>3
      <4>2. z = idom[bb] \/ poId[z] > poId[idom[bb]]
        BY <2>4, <4>1 DEF AboveFacts
      <4>3. z # Null
        BY <4>1, NullAssumption
      <4> QED  BY <1>6, <2>5, <3>1, <3>3, <4>1, <4>2, <4>3
    <3> QED  BY <3>2, <3>3
  <2> QED  BY <2>13, <2>14, <2>15
<1> QED  BY <1>10, <1>11

(* Both hold from one turn, and one sweep, to the next.                    *)
LEMMA ClimbInvStep ==
    ASSUME DomInv, ClimbInv, [Next]_vars
    PROVE  ClimbInv'
<1>1. IsGraph
  BY GraphsAreGraphs DEF DomInv
<1>2. CASE StartIdom
  <2>1. Processed' = {Entry}
    BY <1>2, EntryAssumption, NullAssumption DEF StartIdom, Processed
  <2> QED  BY <2>1 DEF ClimbInv, Rising, Following
<1>3. CASE IdomBlock
  <2>1. Rising' /\ Following'
    BY <1>1, <1>3, RisingStep DEF DomInv, ClimbInv, IdomBlock
  <2> QED  BY <2>1 DEF ClimbInv
<1>4. CASE IdomSweepDone
  <2>1. /\ pc = "idom" /\ todo = << >> /\ idom' = idom
        /\ succ' = succ /\ visited' = visited /\ poId' = poId
    BY <1>4 DEF IdomSweepDone, graphVars
  <2>2. /\ Processed' = Processed
        /\ \A b : Above(b)' = Above(b) /\ Preds(b)' = Preds(b)
    BY <2>1 DEF Processed, Above, UpClosed, Preds, PredEdges
  <2>3. \A b \in Processed : ~Ahead(b)
    <3>1. \A b \in Processed : poId[b] \in Nat
      BY <2>1 DEF DomInv, Numbered, Processed
    <3> QED  BY <2>1, <3>1 DEF Ahead
  <2>4. Rising'
    BY <2>1, <2>2 DEF ClimbInv, Rising
  <2>5. Following'
    BY <2>1, <2>2, <2>3 DEF ClimbInv, Following
  <2> QED  BY <2>4, <2>5 DEF ClimbInv
<1>5. CASE VisitSucc \/ VisitDone \/ FrontierBlock \/ CreateTree
  BY <1>5 DEF VisitSucc, VisitDone, FrontierBlock, CreateTree, ClimbInv
<1>6. CASE UNCHANGED vars
  <2>1. UNCHANGED <<succ, pc, stack, visited, rpo, poId, idom, changed, todo, df, tree>>
    BY <1>6 DEF vars
  <2>2. /\ Processed' = Processed
        /\ \A b : Above(b)' = Above(b) /\ Preds(b)' = Preds(b) /\ Ahead(b)' = Ahead(b)
    BY <2>1 DEF Processed, Above, UpClosed, Preds, PredEdges, Ahead
  <2> QED  BY <2>1, <2>2 DEF ClimbInv, Rising, Following
<1> QED  BY <1>2, <1>3, <1>4, <1>5, <1>6 DEF Next, Step, Finished

(* A block that has an immediate dominator only ever exchanges it for one  *)
(* further up, on every graph and for every order of the lists: this is    *)
(* why the iteration of create_idom ends.                                  *)
THEOREM IdomsOnlyClimb == Spec => IdomOnlyClimbs
<1>1. Init => ClimbInv
  BY DEF Init, ClimbInv
<1>2. DomInv /\ ClimbInv /\ [Next]_vars => ClimbInv'
  BY ClimbInvStep
<1>3. DomInv /\ ClimbInv /\ [Next]_vars =>
        [ pc = "idom" /\ pc' = "idom" =>
            \A b \in Blocks : idom[b] # Null =>
                idom'[b] # Null /\ poId[idom'[b]] >= poId[idom[b]] ]_vars
  <2> SUFFICES ASSUME DomInv, ClimbInv, [Next]_vars, pc = "idom", pc' = "idom",
                      NEW b \in Blocks, idom[b] # Null
               PROVE  idom'[b] # Null /\ poId[idom'[b]] >= poId[idom[b]]
    OBVIOUS
  <2>1. CASE IdomBlock
    <3>1. IsGraph
      BY GraphsAreGraphs DEF DomInv
    <3> QED  BY <2>1, <3>1, RisingStep DEF DomInv, ClimbInv, Processed
  <2>2. CASE ~IdomBlock
    <3>1. idom' = idom
      BY <2>2 DEF Next, Step, Finished, VisitSucc, VisitDone, StartIdom, IdomSweepDone,
                  FrontierBlock, CreateTree, vars, idomVars
    <3>2. poId[idom[b]] \in Nat
      BY DEF DomInv, Numbered, Climbing
    <3> QED  BY <3>1, <3>2
  <2> QED  BY <2>1, <2>2
<1> QED  BY <1>1, <1>2, <1>3, DominatorsInvariant, PTL DEF Spec, IdomOnlyClimbs

-----------------------------------------------------------------------------
(* What the passes that use the analysis rely on.                          *)

LEMMA ResultOfPaths ==
    ASSUME DomInv, pc = "done"
    PROVE  /\ Reachable \subseteq Blocks /\ Entry \in Reachable
           /\ \A b \in Blocks : Targets(b) \subseteq Blocks \ {Entry}
           /\ \A b \in Reachable : Targets(b) \subseteq Reachable
           /\ \A y \in Reachable, b \in Blocks : y \in Targets(b) => b \in Reachable
           /\ \A a, b, c : Dom(a, b) /\ Dom(b, c) => Dom(a, c)
           /\ \A d, b, p : p \in Reachable /\ b \in Targets(p) /\ StrictDom(d, b) => Dom(d, p)
           /\ \A b : Dom(Entry, b)
           /\ \A d, b : b \in Reachable /\ Dom(d, b) => d \in Reachable
           /\ \A a, b : b \in Reachable /\ StrictDom(a, b) => ~Dom(b, a)
           /\ \A a, b, c : c \in Reachable /\ Dom(a, c) /\ Dom(b, c) => Dom(a, b) \/ Dom(b, a)
<1>1. /\ IsGraph /\ Numbered /\ Climbing /\ Sound /\ Fixed /\ Scan
      /\ todo = << >>
  BY GraphsAreGraphs DEF DomInv
<1>2. /\ Reachable \subseteq Blocks /\ Entry \in Reachable /\ visited = Reachable
      /\ \A b \in Reachable : Targets(b) \subseteq Reachable
  BY <1>1, ReachableClosed DEF Numbered
<1>3. \A b \in Blocks : Targets(b) \subseteq Blocks \ {Entry}
  BY <1>1, TargetsAreBlocks
<1>4. ASSUME NEW y \in Reachable, NEW b \in Blocks, y \in Targets(b) PROVE b \in Reachable
  <2>1. b \in Preds(y)
    BY <1>1, <1>4, SourcesArePreds
  <2>2. y \in Blocks /\ Null \notin FrontierOf(y)
    BY <1>1, <1>2, ScanOver DEF Scan, DomInv
  <2>3. CASE Joins(y)
    BY <1>1, <1>2, <2>1, <2>2, <2>3, FrontierLost
  <2>4. CASE ~Joins(y)
    <3>1. y # Entry
      BY <1>1, <2>1, EntryHasNoPreds
    <3>2. StrictDom(b, y)
      BY <1>1, <1>2, <2>1, <2>4, <3>1, OnePred
    <3> QED  BY <1>1, <1>2, <3>2, DominatorsFinishLater
  <2> QED  BY <2>3, <2>4
<1>5. \A a, b, c : Dom(a, b) /\ Dom(b, c) => Dom(a, c)
  BY <1>1, DomTransitive
<1>6. \A b : Dom(Entry, b)
  <2>1. ClosedBut(Entry, {})
    BY DEF ClosedBut
  <2>2. ReachAvoiding(Entry) = {}
    BY <2>1, ReachLeast
  <2> QED  BY <2>2 DEF Dom
<1>7. ASSUME NEW d, NEW b \in Reachable, StrictDom(d, b) PROVE d \in Reachable /\ ~Dom(b, d)
  <2>1. d \in visited /\ poId[d] > poId[b]
    BY <1>1, <1>2, <1>7, DominatorsFinishLater
  <2>2. ASSUME Dom(b, d) PROVE FALSE
    <3>1. StrictDom(b, d)
      BY <1>7, <2>2 DEF StrictDom
    <3>2. poId[b] > poId[d]
      BY <1>1, <2>1, <3>1, DominatorsFinishLater
    <3>3. poId[b] \in Nat /\ poId[d] \in Nat
      BY <1>1, <1>2, <2>1 DEF Numbered
    <3> QED  BY <2>1, <3>2, <3>3
  <2> QED  BY <1>2, <2>1, <2>2
<1>8. ASSUME NEW a, NEW b, NEW c \in Reachable, Dom(a, c), Dom(b, c) PROVE Dom(a, b) \/ Dom(b, a)
  <2>1. a \in Above(c) /\ b \in Above(c) /\ c \in Processed
    BY <1>1, <1>2, <1>8, AboveIsDominating DEF Fixed
  <2>2. a \in visited /\ b \in visited
    BY <1>1, <1>2, <2>1, AboveNumbers DEF Fixed
  <2>3. a \in Above(b) \/ b \in Above(a)
    BY <1>1, <2>1, AboveTotal
  <2> QED  BY <1>1, <2>2, <2>3, AboveIsDominating
<1>9. \A d, b : b \in Reachable /\ Dom(d, b) => d \in Reachable
  BY <1>7 DEF StrictDom
<1>10. \A d, b, p : p \in Reachable /\ b \in Targets(p) /\ StrictDom(d, b) => Dom(d, p)
  BY <1>1, DomOfPreds
<1> QED  BY <1>2, <1>3, <1>4, <1>5, <1>6, <1>7, <1>8, <1>9, <1>10

LEMMA ResultOfTree ==
    ASSUME DomInv, pc = "done"
    PROVE  /\ \A c \in Reachable \ {Entry} :
                 /\ idom[c] \in Reachable /\ StrictDom(idom[c], c)
                 /\ \A d : StrictDom(d, c) => Dom(d, idom[c])
           /\ \A b \in Blocks : tree[b] = {c \in Reachable \ {Entry} : idom[c] = b}
           /\ \A S : /\ Entry \in S
                     /\ \A c \in Reachable \ {Entry} : idom[c] \in S => c \in S
                     => Reachable \subseteq S
<1>1. /\ IsGraph /\ Numbered /\ Climbing /\ Sound /\ Fixed
  BY GraphsAreGraphs DEF DomInv
<1>2. Reachable \subseteq Blocks /\ Entry \in Reachable /\ visited = Reachable
  BY <1>1, ReachableClosed DEF Numbered
<1>3. ASSUME NEW c \in Reachable \ {Entry}
      PROVE  /\ idom[c] \in Reachable /\ StrictDom(idom[c], c)
             /\ \A d : StrictDom(d, c) => Dom(d, idom[c])
  <2>1. c \in Processed /\ c \in Blocks
    BY <1>1, <1>2 DEF Fixed
  <2>2. StrictDom(idom[c], c)
    BY <1>1, <1>3, <2>1, FixedIsCorrect
  <2>3. idom[c] \in Processed
    BY <1>1, <1>3, <2>1 DEF Climbing
  <2> QED  BY <1>1, <1>2, <1>3, <2>1, <2>2, <2>3 DEF Sound, Fixed
<1>4. ASSUME NEW b \in Blocks PROVE tree[b] = {c \in Reachable \ {Entry} : idom[c] = b}
  <2>1. tree[b] = {c \in Blocks : idom[c] = b /\ b # c}
    BY DEF DomInv
  <2>2. \A c \in Blocks : idom[c] = b /\ b # c => c \in Reachable \ {Entry}
    <3>1. \A c \in Blocks : c \notin Reachable => idom[c] = Null
      BY <1>1, EntryAssumption, FixedIsCorrect, <1>2
    <3>2. idom[Entry] = Entry
      BY <1>1 DEF Climbing
    <3> QED  BY <3>1, <3>2, NullAssumption
  <2>3. \A c \in Reachable \ {Entry} : idom[c] = b => b # c
    BY <1>3 DEF StrictDom
  <2> QED  BY <1>2, <2>1, <2>2, <2>3
<1>5. ASSUME NEW S, Entry \in S, \A c \in Reachable \ {Entry} : idom[c] \in S => c \in S
      PROVE  Reachable \subseteq S
  <2> DEFINE Bad == visited \ S
  <2>1. SUFFICES ASSUME Bad # {} PROVE FALSE
    BY <1>2
  <2>2. PICK m \in Bad : \A x \in Bad : poId[x] <= poId[m]
    <3>1. Bad \in SUBSET visited
      OBVIOUS
    <3> HIDE DEF Bad
    <3> QED  BY <1>1, <2>1, <3>1, Largest
  <2>3. m \in Reachable \ {Entry} /\ m \notin S
    BY <1>2, <1>5
  <2>4. idom[m] \in Reachable /\ idom[m] \notin S /\ StrictDom(idom[m], m)
    BY <1>3, <1>5, <2>3
  <2>5. poId[idom[m]] <= poId[m]
    BY <1>2, <2>2, <2>4
  <2>6. poId[idom[m]] > poId[m]
    BY <1>1, <1>2, <2>3, <2>4, DominatorsFinishLater
  <2>7. poId[m] \in Nat /\ poId[idom[m]] \in Nat
    BY <1>1, <1>2, <2>3, <2>4 DEF Numbered
  <2> QED  BY <2>5, <2>6, <2>7
<1> QED  BY <1>3, <1>4, <1>5

LEMMA ResultOfFrontiers ==
    ASSUME DomInv, pc = "done"
    PROVE  /\ \A b \in Blocks : df[b] \subseteq Blocks
           /\ \A b \in Blocks, y \in Reachable :
                 y \in df[b] => \E p \in Reachable : y \in Targets(p) /\ Dom(b, p)
           /\ \A b, p, y \in Reachable :
                 y \in Targets(p) /\ Dom(b, p) /\ ~StrictDom(b, y) => y \in df[b]
<1>1. /\ IsGraph /\ Numbered /\ Climbing /\ Sound /\ Fixed /\ Scan
      /\ todo = << >>
  BY GraphsAreGraphs DEF DomInv
<1>2. Reachable \subseteq Blocks /\ Entry \in Reachable /\ visited = Reachable
  BY <1>1, ReachableClosed DEF Numbered
<1>3. /\ \A b \in Blocks : df[b] = {y \in Blocks : b \in FrontierOf(y)}
      /\ \A y \in Blocks : Null \notin FrontierOf(y)
  BY <1>1, ScanOver DEF Scan, DomInv
<1>4. ASSUME NEW b \in Blocks, NEW y \in Reachable, y \in df[b]
      PROVE  \E p \in Reachable : y \in Targets(p) /\ Dom(b, p)
  <2>1. b \in FrontierOf(y)
    BY <1>3, <1>4
  <2>2. PICK p \in Preds(y) : Joins(y) /\ b \in Runners(y, p)
    BY <2>1 DEF FrontierOf
  <2>3. p \in visited /\ y \in Targets(p)
    BY <1>1, <1>2, <1>3, <2>2, FrontierLost, PredsAreSources
  <2>4. y # Entry
    BY <1>1, <2>2, EntryHasNoPreds
  <2>5. Dom(b, p)
    BY <1>1, <1>2, <2>2, <2>3, <2>4, RunnersOfLive
  <2> QED  BY <1>2, <2>3, <2>5
<1>5. ASSUME NEW b \in Reachable, NEW p \in Reachable, NEW y \in Reachable,
             y \in Targets(p), Dom(b, p), ~StrictDom(b, y)
      PROVE  y \in df[b]
  <2>1. p \in Preds(y)
    BY <1>1, <1>2, <1>5, SourcesArePreds
  <2>2. b \in FrontierOf(y)
    BY <1>1, <1>2, <1>3, <1>5, <2>1, FrontierMembers
  <2> QED  BY <1>2, <1>3, <2>2
<1> QED  BY <1>3, <1>4, <1>5

=============================================================================
