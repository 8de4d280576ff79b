--------------------------- MODULE LoweringProofs ---------------------------
(***************************************************************************)
(* The blocks and the stacks SysYBuilder leaves, for every syntax tree.    *)
(* The first part shows that every block is filled exactly once, the       *)
(* second that the global stacks follow the visits, the third that the     *)
(* blocks do what the statements say: a relation X between the places of   *)
(* the compiled function and what the interpreter has left to do, built    *)
(* along with the blocks, which every step of the execution keeps.         *)
(***************************************************************************)
EXTENDS Lowering, FiniteSetTheorems, SequenceTheorems, TLAPS

-----------------------------------------------------------------------------
(* Which of its blocks a pending visit still makes the insert block.       *)
Turns(op) ==
    IF op = "ifBranch" THEN {1, 2, 3}
    ELSE IF op \in {"ifElse", "whileBranch"} THEN {2, 3}
    ELSE IF op \in {"ifMerge", "whileEnd"} THEN {3}
    ELSE IF op \in {"lorRight", "landRight"} THEN {1}
    ELSE {}
Future(w) == {w.bbs[k] : k \in Turns(w.op)}
Proper(w) == \A k, l \in Turns(w.op) : w.bbs[k] = w.bbs[l] => k = l

IsList(s) == \E S : s \in Seq(S)

(* Every block that has been created is terminated, is the insert block,   *)
(* or belongs to exactly one pending visit, which will fill it.            *)
Blocks ==
    /\ count \in 1 .. MaxBlocks /\ insert \in 1 .. count
    /\ term \in [BB -> {"none", "br", "ret"}]
    /\ \A b \in BB : b > count => ~Terminated(b)
    /\ \A i \in DOMAIN work :
          Proper(work[i]) /\ \A b \in Future(work[i]) :
              b \in 1 .. count /\ b # insert /\ ~Terminated(b)
    /\ \A i, j \in DOMAIN work : i # j => Future(work[i]) \cap Future(work[j]) = {}
    /\ \A b \in 1 .. count :
          Terminated(b) \/ b = insert \/ \E i \in DOMAIN work : b \in Future(work[i])

(* The visits that look whether the insert block is terminated; a          *)
(* statement is always followed by one of them.                            *)
Tolerates(w) ==
    w.op \in {"items", "ifElse", "whileEnd"} \/ (w.op = "ifMerge" /\ w.n.e # None)
Statements == {"stmt", "items"}

Flow ==
    /\ work # << >> /\ Terminated(insert) => Tolerates(Now)
    /\ \A i \in DOMAIN work :
          work[i].op \in Statements /\ i < Len(work) => Tolerates(work[i + 1])

BlockInv ==
    /\ asserts = TRUE /\ status \in {"lower", "run", "exit"} /\ IsList(work)
    /\ status = "lower" => Blocks /\ Flow
    /\ AllBlocksTerminated

-----------------------------------------------------------------------------
(* The current visit is replaced by others.                                *)
LEMMA Spliced ==
    ASSUME NEW S, NEW s \in Seq(S), s # << >>, NEW v \in Seq(S), NEW t, t = v \o Tail(s)
    PROVE  /\ t \in Seq(S) /\ Len(s) \in Nat \ {0} /\ Len(v) \in Nat
           /\ Len(t) = Len(v) + (Len(s) - 1)
           /\ \A i \in 1 .. Len(v) : t[i] = v[i]
           /\ \A i \in 1 .. Len(t) :
                 i > Len(v) => t[i] = s[(i - Len(v)) + 1] /\ (i - Len(v)) + 1 \in 2 .. Len(s)
           /\ \A j \in 2 .. Len(s) :
                 t[(j - 1) + Len(v)] = s[j] /\ (j - 1) + Len(v) \in 1 .. Len(t)
<1> DEFINE r == Tail(s)
           m == Len(s) - 1
           k == Len(v)
<1>1. /\ r \in Seq(S) /\ Len(r) = m /\ Len(s) \in Nat \ {0} /\ Len(v) \in Nat
      /\ \A i \in 1 .. Len(r) : r[i] = s[i + 1]
  BY HeadTailProperties, EmptySeq, LenProperties
<1>2. /\ t \in Seq(S) /\ Len(t) = Len(v) + Len(r)
      /\ \A i \in 1 .. Len(v) + Len(r) :
            t[i] = IF i <= Len(v) THEN v[i] ELSE r[i - Len(v)]
  BY <1>1, ConcatProperties
<1>3. m \in Nat /\ k \in Nat /\ Len(s) = m + 1 /\ k = Len(v)
  BY <1>1
<1> HIDE DEF r, m, k
<1>4. \A i \in 1 .. k + m : t[i] = IF i <= k THEN v[i] ELSE s[(i - k) + 1]
  <2>1. \A i \in 1 .. k + m : i > k => i - k \in 1 .. m
    BY <1>3
  <2> QED  BY <1>1, <1>2, <1>3, <2>1
<1>5. \A i \in 1 .. k : t[i] = v[i]
  BY <1>3, <1>4
<1>6. \A i \in 1 .. k + m :
         i > k => t[i] = s[(i - k) + 1] /\ (i - k) + 1 \in 2 .. m + 1
  BY <1>3, <1>4
<1>7. ASSUME NEW j \in 2 .. m + 1
      PROVE  t[(j - 1) + k] = s[j] /\ (j - 1) + k \in 1 .. k + m
  <2>1. (j - 1) + k \in 1 .. k + m /\ (j - 1) + k > k /\ (((j - 1) + k) - k) + 1 = j
    BY <1>3
  <2> QED  BY <1>6, <2>1
<1> QED  BY <1>1, <1>2, <1>3, <1>5, <1>6, <1>7

(* What the visits that come next have to respect.                         *)
Avail == Future(Now) \cup {b \in BB : b > count /\ b <= count'}

(* The blocks stay covered when the current visit is replaced by others    *)
(* that share out the blocks it had, and those just made.                  *)
LEMMA Turn ==
    ASSUME Blocks, NEW S, work \in Seq(S), work # << >>,
           NEW v \in Seq(S), work' = v \o Tail(work),
           \A i \in 1 .. Len(v) :
              Proper(v[i]) /\ Future(v[i]) \subseteq Avail /\ insert' \notin Future(v[i]),
           \A i, j \in 1 .. Len(v) : i # j => Future(v[i]) \cap Future(v[j]) = {},
           \A b \in Avail : b = insert' \/ \E i \in 1 .. Len(v) : b \in Future(v[i]),
           insert' = insert \/ (insert' \in Avail /\ term'[insert] # "none"),
           count' \in Nat, count <= count', count' <= MaxBlocks,
           term' \in [BB -> {"none", "br", "ret"}],
           \A b \in BB : b # insert => term'[b] = term[b]
    PROVE  Blocks'
<1> DEFINE n == Len(v)
           t == work'
<1>1. /\ t \in Seq(S) /\ Len(work) \in Nat \ {0} /\ n \in Nat /\ Len(t) \in Nat
      /\ DOMAIN work = 1 .. Len(work) /\ DOMAIN t = 1 .. Len(t)
      /\ \A i \in 1 .. n : t[i] = v[i]
      /\ \A i \in 1 .. Len(t) :
            i > n => t[i] = work[(i - n) + 1] /\ (i - n) + 1 \in 2 .. Len(work)
      /\ \A j \in 2 .. Len(work) :
            t[(j - 1) + n] = work[j] /\ (j - 1) + n \in 1 .. Len(t)
  <2>1. /\ t \in Seq(S) /\ Len(work) \in Nat \ {0} /\ n \in Nat
        /\ \A i \in 1 .. n : t[i] = v[i]
        /\ \A i \in 1 .. Len(t) :
              i > n => t[i] = work[(i - n) + 1] /\ (i - n) + 1 \in 2 .. Len(work)
        /\ \A j \in 2 .. Len(work) :
              t[(j - 1) + n] = work[j] /\ (j - 1) + n \in 1 .. Len(t)
    BY Spliced
  <2> QED  BY <2>1, LenProperties
<1>2. /\ Now = work[1] /\ 1 \in DOMAIN work
      /\ \A j \in 2 .. Len(work) : j \in DOMAIN work /\ j # 1
      /\ \A j \in DOMAIN work : j = 1 \/ j \in 2 .. Len(work)
  <2>1. Now = work[1]
    BY HeadTailProperties DEF Now
  <2> DEFINE m == Len(work)
  <2>2. m \in Nat \ {0} /\ DOMAIN work = 1 .. m
    BY <1>1
  <2> HIDE DEF m
  <2>3. /\ 1 \in DOMAIN work /\ \A j \in 2 .. m : j \in DOMAIN work /\ j # 1
        /\ \A j \in DOMAIN work : j = 1 \/ j \in 2 .. m
    BY <2>2
  <2> QED  BY <2>1, <2>3 DEF m
<1>3. /\ count \in Nat /\ MaxBlocks \in Nat /\ count' \in 1 .. MaxBlocks
      /\ insert \in 1 .. count /\ 1 .. count' \subseteq BB /\ 1 .. count \subseteq 1 .. count'
  BY BlocksAssumption DEF Blocks, BB
<1>4. ASSUME NEW b \in Avail
      PROVE  /\ b \in 1 .. count' /\ b # insert /\ ~Terminated(b) /\ ~Terminated(b)'
             /\ \A j \in 2 .. Len(work) : b \notin Future(work[j])
  <2>1. CASE b \in Future(Now)
    <3>1. b \in 1 .. count /\ b # insert /\ ~Terminated(b)
      BY <1>1, <1>2, <2>1 DEF Blocks
    <3>2. \A j \in 2 .. Len(work) : b \notin Future(work[j])
      BY <1>1, <1>2, <2>1 DEF Blocks
    <3> QED  BY <1>3, <3>1, <3>2 DEF Terminated
  <2>2. CASE b \in BB /\ b > count /\ b <= count'
    <3>1. b \in 1 .. count' /\ b # insert /\ ~Terminated(b) /\ b \notin 1 .. count
      BY <1>3, <2>2 DEF Blocks, BB
    <3>2. \A j \in 2 .. Len(work) : b \notin Future(work[j])
      BY <1>2, <3>1 DEF Blocks
    <3> QED  BY <1>3, <3>1, <3>2 DEF Terminated
  <2> QED  BY <2>1, <2>2 DEF Avail
<1> HIDE DEF t, n
<1>5. insert' \in 1 .. count'
  BY <1>3, <1>4
<1>6. \A b \in BB : b > count' => ~Terminated(b)'
  BY <1>3 DEF Blocks, Terminated, BB
<1>7. ASSUME NEW i \in DOMAIN t
      PROVE  /\ Proper(t[i])
             /\ \A b \in Future(t[i]) : b \in 1 .. count' /\ b # insert' /\ ~Terminated(b)'
  <2>1. CASE i \in 1 .. n
    BY <1>1, <1>4, <2>1 DEF n
  <2>2. CASE i > n
    <3>1. PICK j \in 2 .. Len(work) : t[i] = work[j] /\ j \in DOMAIN work
      <4>1. t[i] = work[(i - n) + 1] /\ (i - n) + 1 \in 2 .. Len(work)
        BY <1>1, <2>2
      <4> QED  BY <1>2, <4>1
    <3>2. ASSUME NEW b \in Future(work[j])
          PROVE  b \in 1 .. count' /\ b # insert' /\ ~Terminated(b)'
      <4>1. b \in 1 .. count /\ b # insert /\ ~Terminated(b)
        BY <3>1 DEF Blocks
      <4>2. b # insert'
        BY <1>4, <4>1
      <4> QED  BY <1>3, <4>1, <4>2 DEF Terminated
    <3> QED  BY <3>1, <3>2 DEF Blocks
  <2> QED  BY <1>1, <2>1, <2>2
<1>8. ASSUME NEW i \in DOMAIN t, NEW j \in DOMAIN t, i # j
      PROVE  Future(t[i]) \cap Future(t[j]) = {}
  <2>1. \A g \in DOMAIN t : g \in 1 .. n \/ g > n
    BY <1>1
  <2>2. CASE i \in 1 .. n /\ j \in 1 .. n
    BY <1>1, <1>8, <2>2 DEF n
  <2>3. ASSUME NEW g \in DOMAIN t, NEW h \in DOMAIN t, g \in 1 .. n, h > n
        PROVE  Future(t[g]) \cap Future(t[h]) = {}
    <3>1. t[g] = v[g] /\ Future(v[g]) \subseteq Avail
      BY <1>1, <2>3 DEF n
    <3>2. (h - n) + 1 \in 2 .. Len(work) /\ t[h] = work[(h - n) + 1]
      BY <1>1, <2>3
    <3> QED  BY <1>4, <3>1, <3>2
  <2>4. CASE i > n /\ j > n
    <3>1. /\ t[i] = work[(i - n) + 1] /\ t[j] = work[(j - n) + 1]
          /\ (i - n) + 1 \in DOMAIN work /\ (j - n) + 1 \in DOMAIN work
      BY <1>1, <1>2, <2>4
    <3>2. (i - n) + 1 # (j - n) + 1
      <4>1. i \in Nat /\ j \in Nat /\ n \in Nat
        BY <1>1
      <4> QED  BY <1>8, <4>1
    <3> QED  BY <3>1, <3>2 DEF Blocks
  <2> QED  BY <2>1, <2>2, <2>3, <2>4
<1>9. ASSUME NEW b \in 1 .. count'
      PROVE  Terminated(b)' \/ b = insert' \/ \E i \in DOMAIN t : b \in Future(t[i])
  <2>1. CASE b \in Avail
    <3>1. b = insert' \/ \E i \in 1 .. n : b \in Future(v[i])
      BY <2>1 DEF n
    <3>2. \A i \in 1 .. n : t[i] = v[i] /\ i \in DOMAIN t
      BY <1>1, Spliced DEF n, t
    <3> QED  BY <3>1, <3>2
  <2>2. CASE b \notin Avail
    <3>1. b \in 1 .. count
      BY <1>3, <2>2 DEF Avail
    <3>2. CASE Terminated(b) /\ b # insert
      BY <1>3, <3>2 DEF Terminated
    <3>3. CASE b = insert
      BY <3>3 DEF Terminated
    <3>4. CASE \E i \in DOMAIN work : b \in Future(work[i])
      <4>1. PICK i \in DOMAIN work : b \in Future(work[i])
        BY <3>4
      <4>2. i \in 2 .. Len(work)
        BY <1>2, <2>2, <4>1 DEF Avail
      <4>3. t[(i - 1) + n] = work[i] /\ (i - 1) + n \in DOMAIN t
        BY <1>1, <4>2
      <4> QED  BY <4>1, <4>3
    <3> QED  BY <3>1, <3>2, <3>3, <3>4 DEF Blocks
  <2> QED  BY <2>1, <2>2
<1> QED  BY <1>3, <1>5, <1>6, <1>7, <1>8, <1>9 DEF Blocks, t, BB

(* Whatever follows a terminated insert block looks whether it is.         *)
LEMMA FlowTurn ==
    ASSUME Flow, NEW S, work \in Seq(S), work # << >>,
           NEW v \in Seq(S), work' = v \o Tail(work),
           \A i \in 1 .. Len(v) :
              v[i].op \in Statements =>
                  IF i = Len(v) THEN Now.op \in Statements ELSE Tolerates(v[i + 1]),
           \/ term'[insert'] = "none"
           \/ IF v = << >> THEN Now.op \in Statements ELSE Tolerates(v[1])
    PROVE  Flow'
<1> DEFINE n == Len(v)
           t == work'
           L == Len(work)
           M == Len(t)
<1>1. /\ t \in Seq(S) /\ L \in Nat \ {0} /\ n \in Nat /\ M \in Nat /\ M = n + (L - 1)
      /\ DOMAIN work = 1 .. L /\ DOMAIN t = 1 .. M
      /\ \A i \in 1 .. n : t[i] = v[i]
      /\ \A i \in 1 .. M : i > n => t[i] = work[(i - n) + 1] /\ (i - n) + 1 \in 2 .. L
  <2>1. /\ t \in Seq(S) /\ L \in Nat \ {0} /\ n \in Nat /\ M = n + (L - 1)
        /\ \A i \in 1 .. n : t[i] = v[i]
        /\ \A i \in 1 .. M :
              i > n => t[i] = work[(i - n) + 1] /\ (i - n) + 1 \in 2 .. L
    BY Spliced
  <2> QED  BY <2>1, LenProperties
<1>2. Now = work[1] /\ (t # << >> => Now' = t[1] /\ M > 0)
  <2>1. Now = work[1]
    BY HeadTailProperties DEF Now
  <2>2. t # << >> => Head(t) = t[1] /\ M > 0
    BY <1>1, HeadTailProperties, EmptySeq
  <2> QED  BY <2>1, <2>2 DEF Now
<1>3. v = << >> <=> n = 0
  BY EmptySeq
<1>4. M = Len(work')
  OBVIOUS
<1> HIDE DEF n, L, M, t
<1>5. \A i \in DOMAIN work : work[i].op \in Statements /\ i < L => Tolerates(work[i + 1])
  BY DEF Flow, L
<1>6. ASSUME NEW i \in DOMAIN t, t[i].op \in Statements, i < M
      PROVE  Tolerates(t[i + 1])
  <2>1. CASE i < n
    <3>1. i \in 1 .. n /\ i + 1 \in 1 .. n /\ i # n
      BY <1>1, <2>1
    <3>2. v[i].op \in Statements => Tolerates(v[i + 1])
      BY <3>1 DEF n
    <3> QED  BY <1>1, <1>6, <3>1, <3>2
  <2>2. CASE i = n
    <3>1. i \in 1 .. n /\ i + 1 \in 1 .. M /\ i + 1 > n /\ ((i + 1) - n) + 1 = 2 /\ 1 < L
      BY <1>1, <1>6, <2>2
    <3>2. t[i] = v[i] /\ t[i + 1] = work[2] /\ 1 \in DOMAIN work /\ 1 + 1 = 2
      BY <1>1, <3>1
    <3>3. v[i].op \in Statements => Now.op \in Statements
      BY <2>2, <3>1 DEF n
    <3> QED  BY <1>2, <1>5, <1>6, <3>1, <3>2, <3>3
  <2>3. CASE i > n
    <3>1. /\ i + 1 \in 1 .. M /\ i + 1 > n /\ i \in Nat
          /\ ((i + 1) - n) + 1 = ((i - n) + 1) + 1
      BY <1>1, <1>6, <2>3
    <3>2. /\ t[i] = work[(i - n) + 1] /\ t[i + 1] = work[((i - n) + 1) + 1]
          /\ (i - n) + 1 \in DOMAIN work /\ (i - n) + 1 < L
      BY <1>1, <2>3, <3>1
    <3> QED  BY <1>5, <1>6, <3>2
  <2> QED  BY <1>1, <2>1, <2>2, <2>3
<1>7. ASSUME t # << >>, term'[insert'] # "none"
      PROVE  Tolerates(t[1])
  <2>1. CASE v = << >>
    <3>1. 1 \in 1 .. M /\ 1 > n /\ (1 - n) + 1 = 2 /\ 1 < L /\ 1 \in DOMAIN work /\ 1 + 1 = 2
      BY <1>1, <1>2, <1>3, <1>7, <2>1
    <3>2. t[1] = work[2] /\ Now.op \in Statements
      BY <1>1, <1>7, <2>1, <3>1
    <3> QED  BY <1>2, <1>5, <3>1, <3>2
  <2>2. CASE v # << >>
    <3>1. 1 \in 1 .. n
      BY <1>1, <1>3, <2>2
    <3> QED  BY <1>1, <1>7, <2>2, <3>1
  <2> QED  BY <2>1, <2>2
<1>8. \A w : Tolerates(w)' = Tolerates(w)
  BY DEF Tolerates
<1> QED  BY <1>2, <1>4, <1>6, <1>7 DEF Flow, Terminated, Tolerates, t

(* The part of a visit's step that no block but its own can tell.          *)
Forward ==
    /\ Blocks /\ Flow /\ IsList(work) /\ work # << >>
    /\ insert' = insert \/ (insert' \in Avail /\ term'[insert] # "none")
    /\ count' \in Nat /\ count <= count' /\ count' <= MaxBlocks
    /\ term' \in [BB -> {"none", "br", "ret"}]
    /\ \A b \in BB : b # insert => term'[b] = term[b]

(* A visit ends.                                                           *)
LEMMA Ends ==
    ASSUME Forward, Then(<< >>), \A b \in Avail : b = insert',
           term'[insert'] = "none" \/ Now.op \in Statements
    PROVE  IsList(work') /\ Blocks' /\ Flow'
<1>1. PICK S : work \in Seq(S)
  BY DEF Forward, IsList
<1> DEFINE v == << >>
<1>2. v \in Seq(S) /\ Len(v) = 0 /\ work' = v \o Tail(work)
  BY DEF Then
<1>3. \A i \in 1 .. Len(v) : FALSE
  BY <1>2
<1>4. v = << >>
  OBVIOUS
<1> HIDE DEF v
<1>5. Blocks'
  BY <1>1, <1>2, <1>3, Turn DEF Forward
<1>6. Flow'
  BY <1>1, <1>2, <1>3, <1>4, FlowTurn DEF Forward
<1>7. work' \in Seq(S)
  BY <1>1, <1>2, Spliced DEF Forward
<1> QED  BY <1>5, <1>6, <1>7 DEF IsList

(* A visit becomes another one.                                            *)
LEMMA Becomes ==
    ASSUME Forward, NEW a, Then(<<a>>),
           Proper(a), Future(a) \subseteq Avail, insert' \notin Future(a),
           \A b \in Avail : b = insert' \/ b \in Future(a),
           a.op \in Statements => Now.op \in Statements,
           term'[insert'] = "none" \/ Tolerates(a)
    PROVE  IsList(work') /\ Blocks' /\ Flow'
<1>1. PICK S0 : work \in Seq(S0)
  BY DEF Forward, IsList
<1> DEFINE v == <<a>>
           S == S0 \cup {a}
<1>2. /\ work \in Seq(S) /\ v \in Seq(S) /\ Len(v) = 1 /\ v[1] = a
      /\ work' = v \o Tail(work) /\ v # << >>
  <2>1. work \in Seq(S)
    BY <1>1, SeqMonotonic
  <2> QED  BY <2>1 DEF Then
<1> HIDE DEF v, S
<1>3. \A i \in 1 .. Len(v) : i = 1 /\ v[i] = a /\ i = Len(v)
  BY <1>2
<1>4. 1 \in 1 .. Len(v)
  BY <1>2
<1>5. Blocks'
  <2>1. \A b \in Avail : b = insert' \/ \E i \in 1 .. Len(v) : b \in Future(v[i])
    BY <1>3, <1>4
  <2>2. \A i \in 1 .. Len(v) :
           Proper(v[i]) /\ Future(v[i]) \subseteq Avail /\ insert' \notin Future(v[i])
    BY <1>3
  <2>3. \A i, j \in 1 .. Len(v) : i # j => Future(v[i]) \cap Future(v[j]) = {}
    BY <1>3
  <2> QED  BY <1>2, <2>1, <2>2, <2>3, Turn DEF Forward
<1>6. Flow'
  <2>1. \A i \in 1 .. Len(v) :
           v[i].op \in Statements =>
               IF i = Len(v) THEN Now.op \in Statements ELSE Tolerates(v[i + 1])
    BY <1>3
  <2> QED  BY <1>2, <2>1, FlowTurn DEF Forward
<1>7. work' \in Seq(S)
  BY <1>2, Spliced DEF Forward
<1> QED  BY <1>5, <1>6, <1>7 DEF IsList

(* A visit calls another one and waits for its end.                        *)
LEMMA Calls ==
    ASSUME Forward, NEW a, NEW c, Then(<<a, c>>),
           Proper(c), Future(a) = {}, Future(c) \subseteq Avail, insert' \notin Future(c),
           \A b \in Avail : b = insert' \/ b \in Future(c),
           a.op \in Statements => Tolerates(c),
           c.op \in Statements => Now.op \in Statements,
           term'[insert'] = "none"
    PROVE  IsList(work') /\ Blocks' /\ Flow'
<1>1. PICK S0 : work \in Seq(S0)
  BY DEF Forward, IsList
<1> DEFINE v == <<a, c>>
           S == S0 \cup {a, c}
<1>2. /\ work \in Seq(S) /\ v \in Seq(S) /\ Len(v) = 2 /\ v[1] = a /\ v[2] = c
      /\ work' = v \o Tail(work) /\ v # << >>
  <2>1. work \in Seq(S)
    BY <1>1, SeqMonotonic
  <2> QED  BY <2>1 DEF Then
<1> HIDE DEF v, S
<1>3. \A i \in 1 .. Len(v) :
         \/ i = 1 /\ v[i] = a /\ i # Len(v) /\ v[i + 1] = c
         \/ i = 2 /\ v[i] = c /\ i = Len(v)
  BY <1>2
<1>4. 2 \in 1 .. Len(v)
  BY <1>2
<1>5. Proper(a)
  BY DEF Proper, Future
<1>6. Blocks'
  <2>1. \A b \in Avail : b = insert' \/ \E i \in 1 .. Len(v) : b \in Future(v[i])
    BY <1>2, <1>4
  <2>2. \A i \in 1 .. Len(v) :
           Proper(v[i]) /\ Future(v[i]) \subseteq Avail /\ insert' \notin Future(v[i])
    BY <1>3, <1>5
  <2>3. \A i, j \in 1 .. Len(v) : i # j => Future(v[i]) \cap Future(v[j]) = {}
    BY <1>3
  <2> QED  BY <1>2, <2>1, <2>2, <2>3, Turn DEF Forward
<1>7. Flow'
  <2>1. \A i \in 1 .. Len(v) :
           v[i].op \in Statements =>
               IF i = Len(v) THEN Now.op \in Statements ELSE Tolerates(v[i + 1])
    BY <1>3
  <2> QED  BY <1>2, <2>1, FlowTurn DEF Forward
<1>8. work' \in Seq(S)
  BY <1>2, Spliced DEF Forward
<1> QED  BY <1>6, <1>7, <1>8 DEF IsList

-----------------------------------------------------------------------------
(* What the invariant says about the current visit.                        *)
LEMMA Current ==
    ASSUME BlockInv, status = "lower", work # << >>
    PROVE  /\ Blocks /\ Flow /\ IsList(work) /\ asserts = TRUE
           /\ count \in Nat /\ MaxBlocks \in Nat /\ count <= MaxBlocks
           /\ insert \in BB /\ insert <= count /\ term \in [BB -> {"none", "br", "ret"}]
           /\ \A b \in BB : b > count => term[b] = "none"
           /\ Proper(Now)
           /\ \A b \in Future(Now) :
                 b \in BB /\ b <= count /\ b # insert /\ term[b] = "none"
           /\ term[insert] = "none" \/ Tolerates(Now)
<1>1. Blocks /\ Flow /\ IsList(work) /\ asserts = TRUE
  BY DEF BlockInv
<1>2. PICK S : work \in Seq(S)
  BY <1>1 DEF IsList
<1>3. Now = work[1] /\ 1 \in DOMAIN work
  <2>1. Head(work) = work[1]
    BY <1>2, HeadTailProperties
  <2> DEFINE m == Len(work)
  <2>2. m \in Nat /\ m # 0 /\ DOMAIN work = 1 .. m
    BY <1>2, EmptySeq, LenProperties
  <2> HIDE DEF m
  <2>3. 1 \in DOMAIN work
    BY <2>2
  <2> QED  BY <2>1, <2>3 DEF Now
<1>4. /\ count \in Nat /\ MaxBlocks \in Nat /\ count <= MaxBlocks
      /\ 1 .. count \subseteq BB /\ insert \in 1 .. count
      /\ \A b \in 1 .. count : b <= count
  BY <1>1, BlocksAssumption DEF Blocks, BB
<1>5. \A b \in Future(Now) : b \in 1 .. count /\ b # insert /\ ~Terminated(b)
  BY <1>1, <1>3 DEF Blocks
<1> QED  BY <1>1, <1>3, <1>4, <1>5 DEF Blocks, Flow, Terminated

(* The blocks to share out when none is made.                              *)
LEMMA AvailOld ==
    ASSUME count \in Nat, count' = count
    PROVE  Avail = Future(Now)
BY DEF Avail, BB

(* The same, when k blocks are made.                                       *)
LEMMA AvailNew ==
    ASSUME count \in Nat, MaxBlocks \in Nat, NEW k \in Nat, count' = count + k,
           count + k <= MaxBlocks
    PROVE  Avail = Future(Now) \cup (count + 1 .. count + k)
BY BlocksAssumption DEF Avail, BB

(* The invariant from its parts, after a step of the visitor.              *)
LEMMA Kept ==
    ASSUME status' = "lower", asserts' = TRUE, IsList(work') /\ Blocks' /\ Flow'
    PROVE  BlockInv'
BY DEF BlockInv, AllBlocksTerminated

(* A step that leaves the insert block and makes no block.                 *)
LEMMA ForwardSame ==
    ASSUME BlockInv, status = "lower", work # << >>, count' = count, insert' = insert,
           term' \in [BB -> {"none", "br", "ret"}],
           \A b \in BB : b # insert => term'[b] = term[b]
    PROVE  Forward /\ Avail = Future(Now)
<1>1. Blocks /\ Flow /\ IsList(work) /\ count \in Nat /\ count <= MaxBlocks
  BY Current
<1>2. count' \in Nat /\ count <= count' /\ count' <= MaxBlocks
  BY <1>1
<1>3. Avail = Future(Now)
  BY <1>1, AvailOld
<1>4. insert' = insert \/ (insert' \in Avail /\ term'[insert] # "none")
  OBVIOUS
<1>5. work # << >> /\ term' \in [BB -> {"none", "br", "ret"}]
  OBVIOUS
<1>6. \A b \in BB : b # insert => term'[b] = term[b]
  OBVIOUS
<1> QED  BY <1>1, <1>2, <1>3, <1>4, <1>5, <1>6 DEF Forward

-----------------------------------------------------------------------------
(* The entry block is the only one and is the insert block.                *)
LEMMA BlockInvInit == Init => BlockInv
<1> SUFFICES ASSUME Init PROVE BlockInv
  OBVIOUS
<1>1. PICK body \in Bodies : work = <<Visit("stmt", [k |-> "block", items |-> body])>>
  BY DEF Init
<1> DEFINE w == Visit("stmt", [k |-> "block", items |-> body])
<1>2. Turns(w.op) = {} /\ w.op = "stmt"
  BY DEF Visit, Turns
<1> HIDE DEF w
<1>3. work \in Seq({w}) /\ Len(work) = 1 /\ DOMAIN work = 1 .. 1 /\ work[1] = w
  BY <1>1 DEF w
<1>4. \A i \in DOMAIN work : i = 1 /\ work[i] = w /\ i = Len(work)
  BY <1>3
<1>5. Future(w) = {} /\ Proper(w)
  BY <1>2 DEF Future, Proper
<1>6. Blocks
  BY <1>4, <1>5, BlocksAssumption DEF Init, Blocks, Terminated, BB
<1>7. Flow
  BY <1>4, BlocksAssumption DEF Init, Flow, Terminated, BB
<1> QED  BY <1>3, <1>6, <1>7 DEF Init, BlockInv, IsList, AllBlocksTerminated

(* An atom goes into an insert block that is not terminated.               *)
LEMMA KeepsAct == BlockInv /\ VisitAct => BlockInv'
<1> SUFFICES ASSUME BlockInv, VisitAct PROVE BlockInv'
  OBVIOUS
<1>1. status = "lower" /\ work # << >> /\ Now.op = "stmt"
  BY DEF VisitAct, AtStmt, At
<1>2. Turns(Now.op) = {} /\ ~Tolerates(Now) /\ Now.op \in Statements
  BY <1>1 DEF Turns, Tolerates, Statements
<1>3. Future(Now) = {} /\ term[insert] = "none"
  BY <1>1, <1>2, Current DEF Future
<1>4. asserts' = TRUE /\ status' = "lower" /\ insert' = insert /\ count' = count /\ term' = term
  BY <1>1, <1>3, Current DEF VisitAct, Emit, Terminated
<1>5. term' \in [BB -> {"none", "br", "ret"}]
  BY <1>1, <1>4, Current
<1>6. Forward /\ Avail = {}
  BY <1>1, <1>3, <1>4, <1>5, ForwardSame
<1>7. IsList(work') /\ Blocks' /\ Flow'
  BY <1>2, <1>6, Ends DEF VisitAct
<1> QED  BY <1>4, <1>7, Kept

(* A step that fills the insert block and turns to a pending one.          *)
LEMMA ForwardTurn ==
    ASSUME BlockInv, status = "lower", work # << >>, count' = count,
           insert' \in Future(Now), term'[insert] # "none",
           term' \in [BB -> {"none", "br", "ret"}],
           \A b \in BB : b # insert => term'[b] = term[b]
    PROVE  Forward /\ Avail = Future(Now) /\ term'[insert'] = "none"
<1>1. Blocks /\ Flow /\ IsList(work) /\ count \in Nat /\ count <= MaxBlocks
  BY Current
<1>2. count' \in Nat /\ count <= count' /\ count' <= MaxBlocks
  BY <1>1
<1>3. Avail = Future(Now)
  BY <1>1, AvailOld
<1>4. insert' = insert \/ (insert' \in Avail /\ term'[insert] # "none")
  BY <1>3
<1>5. term'[insert'] = "none"
  BY Current
<1> QED  BY <1>1, <1>2, <1>3, <1>4, <1>5 DEF Forward

(* return, break and continue end the insert block; a list of items or the *)
(* end of an if or a loop comes next, and those look.                      *)
LEMMA KeepsJump == BlockInv /\ (VisitReturn \/ VisitBreak \/ VisitContinue) => BlockInv'
<1> SUFFICES ASSUME BlockInv, VisitReturn \/ VisitBreak \/ VisitContinue PROVE BlockInv'
  OBVIOUS
<1>1. status = "lower" /\ work # << >> /\ Now.op = "stmt"
  BY DEF VisitReturn, VisitBreak, VisitContinue, AtStmt, At
<1>2. Turns(Now.op) = {} /\ ~Tolerates(Now) /\ Now.op \in Statements
  BY <1>1 DEF Turns, Tolerates, Statements
<1>3. Future(Now) = {} /\ term[insert] = "none"
  BY <1>1, <1>2, Current DEF Future
<1>4. /\ asserts' = TRUE /\ status' = "lower" /\ insert' = insert /\ count' = count
      /\ \/ term' = [term EXCEPT ![insert] = "ret"]
         \/ term' = [term EXCEPT ![insert] = "br"]
      /\ Then(<< >>)
  BY <1>1, <1>3, Current DEF VisitReturn, VisitBreak, VisitContinue, Terminate, Terminated
<1>5. /\ term' \in [BB -> {"none", "br", "ret"}]
      /\ \A b \in BB : b # insert => term'[b] = term[b]
  BY <1>1, <1>4, Current
<1>6. Forward /\ Avail = {}
  BY <1>1, <1>3, <1>4, <1>5, ForwardSame
<1>7. IsList(work') /\ Blocks' /\ Flow'
  BY <1>2, <1>4, <1>6, Ends
<1> QED  BY <1>4, <1>7, Kept

(* A list of statements is entered or gone on with.                        *)
LEMMA Listed ==
    ASSUME BlockInv, status = "lower", work # << >>, Now.op \in Statements,
           NEW items,
           UNCHANGED <<status, asserts, count, insert, term>>,
           \/ Then(<< >>)
           \/ /\ term[insert] = "none"
              /\ Then(<<Visit("stmt", Head(items)), Visit("items", Tail(items))>>)
    PROVE  BlockInv'
<1>1. Turns(Now.op) = {}
  BY DEF Turns, Statements
<1>2. Future(Now) = {}
  BY <1>1 DEF Future
<1>3. /\ term' \in [BB -> {"none", "br", "ret"}] /\ asserts' = TRUE /\ status' = "lower"
      /\ \A b \in BB : b # insert => term'[b] = term[b]
  BY Current
<1>4. Forward /\ Avail = {}
  BY <1>2, <1>3, ForwardSame
<1>5. CASE Then(<< >>)
  <2>1. IsList(work') /\ Blocks' /\ Flow'
    BY <1>4, <1>5, Ends
  <2> QED  BY <1>3, <2>1, Kept
<1>6. CASE /\ term[insert] = "none"
           /\ Then(<<Visit("stmt", Head(items)), Visit("items", Tail(items))>>)
  <2> DEFINE a == Visit("stmt", Head(items))
             c == Visit("items", Tail(items))
  <2>1. a.op = "stmt" /\ c.op = "items" /\ Turns(a.op) = {} /\ Turns(c.op) = {}
    BY DEF Visit, Turns
  <2>2. Then(<<a, c>>)
    BY <1>6
  <2> HIDE DEF a, c
  <2>3. Future(a) = {} /\ Future(c) = {} /\ Proper(c) /\ Tolerates(c)
    BY <2>1 DEF Future, Proper, Tolerates
  <2>4. IsList(work') /\ Blocks' /\ Flow'
    BY <1>4, <1>6, <2>2, <2>3, Calls
  <2> QED  BY <1>3, <2>4, Kept
<1> QED  BY <1>5, <1>6

(* A block statement starts its list of items.                             *)
LEMMA KeepsBlock == BlockInv /\ VisitBlock => BlockInv'
<1> SUFFICES ASSUME BlockInv, VisitBlock PROVE BlockInv'
  OBVIOUS
<1>1. status = "lower" /\ work # << >> /\ Now.op = "stmt"
  BY DEF VisitBlock, AtStmt, At
<1>2. Now.op \in Statements /\ term[insert] = "none"
  BY <1>1, Current DEF Statements, Tolerates
<1>3. UNCHANGED <<status, asserts, count, insert, term>>
  BY DEF VisitBlock, cfgVars
<1>4. \/ Then(<< >>)
      \/ Then(<<Visit("stmt", Head(Now.n.items)), Visit("items", Tail(Now.n.items))>>)
  BY DEF VisitBlock
<1> QED  BY <1>1, <1>2, <1>3, <1>4, Listed

(* The list goes on only if the insert block is open.                      *)
LEMMA KeepsNextItem == BlockInv /\ NextItem => BlockInv'
<1> SUFFICES ASSUME BlockInv, NextItem PROVE BlockInv'
  OBVIOUS
<1>1. status = "lower" /\ work # << >> /\ Now.op \in Statements
  BY DEF NextItem, At, Statements
<1>2. UNCHANGED <<status, asserts, count, insert, term>>
  BY DEF NextItem, cfgVars
<1>3. \/ Then(<< >>)
      \/ /\ term[insert] = "none"
         /\ Then(<<Visit("stmt", Head(Now.n)), Visit("items", Tail(Now.n))>>)
  BY DEF NextItem, Terminated
<1> QED  BY <1>1, <1>2, <1>3, Listed

(* The blocks of a visit that waits.                                       *)
LEMMA Resumed ==
    ASSUME NEW op, NEW n, NEW bbs
    PROVE  LET w == Resume(op, n, bbs) IN
           /\ w.op = op /\ w.n = n /\ w.bbs = bbs
           /\ Future(w) = {bbs[k] : k \in Turns(op)}
           /\ Proper(w) <=> \A k, l \in Turns(op) : bbs[k] = bbs[l] => k = l
BY DEF Resume, Future, Proper

(* An if makes three blocks, all for its own visit.                        *)
LEMMA KeepsIf == BlockInv /\ VisitIf => BlockInv'
<1> SUFFICES ASSUME BlockInv, VisitIf PROVE BlockInv'
  OBVIOUS
<1>1. status = "lower" /\ work # << >> /\ Now.op = "stmt"
  BY DEF VisitIf, AtStmt, At
<1>2. Turns(Now.op) = {} /\ ~Tolerates(Now)
  BY <1>1 DEF Turns, Tolerates
<1>3. /\ Future(Now) = {} /\ term[insert] = "none" /\ asserts = TRUE
      /\ Blocks /\ Flow /\ IsList(work) /\ count \in Nat /\ MaxBlocks \in Nat
      /\ insert \in Nat /\ insert <= count /\ term \in [BB -> {"none", "br", "ret"}]
  BY <1>1, <1>2, Current DEF Future, BB
<1> DEFINE bbs == <<count + 1, count + 2, count + 3>>
           a == Visit("lor", Now.n.c)
           c == Resume("ifBranch", Now.n, bbs)
<1>4. /\ asserts' = TRUE /\ status' = "lower" /\ insert' = insert /\ term' = term
      /\ count' = count + 3 /\ count + 3 <= MaxBlocks /\ Then(<<a, c>>)
  BY <1>1, <1>3 DEF VisitIf, cfgVars
<1>5. a.op = "lor" /\ Turns(a.op) = {} /\ c.op = "ifBranch"
  BY DEF Visit, Resume, Turns
<1>6. Future(c) = {count + 1, count + 2, count + 3} /\ Proper(c)
  <2>1. Turns("ifBranch") = {1, 2, 3}
    BY DEF Turns
  <2>2. bbs[1] = count + 1 /\ bbs[2] = count + 2 /\ bbs[3] = count + 3
    OBVIOUS
  <2>3. \A k, l \in {1, 2, 3} : bbs[k] = bbs[l] => k = l
    BY <1>3, <2>2
  <2> HIDE DEF bbs
  <2>4. {bbs[k] : k \in {1, 2, 3}} = {count + 1, count + 2, count + 3}
    BY <2>2
  <2> QED  BY <2>1, <2>3, <2>4, Resumed
<1> HIDE DEF a, c, bbs
<1>7. Future(a) = {} /\ a.op \notin Statements /\ c.op \notin Statements
  BY <1>5 DEF Future, Statements
<1>8. Avail = {count + 1, count + 2, count + 3}
  <2>1. Avail = Future(Now) \cup (count + 1 .. count + 3)
    BY <1>3, <1>4, AvailNew
  <2> QED  BY <1>3, <2>1
<1>9. Forward
  <2>1. count' \in Nat /\ count <= count' /\ count' <= MaxBlocks
    BY <1>3, <1>4
  <2> QED  BY <1>1, <1>3, <1>4, <2>1 DEF Forward
<1>10. insert' \notin Future(c) /\ term'[insert'] = "none"
  BY <1>3, <1>4, <1>6
<1>11. IsList(work') /\ Blocks' /\ Flow'
  BY <1>4, <1>6, <1>7, <1>8, <1>9, <1>10, Calls
<1> QED  BY <1>4, <1>11, Kept

(* The insert block gets its terminator, unless it has one.                *)
LEMMA Filled ==
    ASSUME BlockInv, status = "lower", work # << >>, NEW targets,
           \/ ~Tolerates(Now) /\ Terminate(insert, "br", targets)
           \/ BrUnlessTerminated(insert, targets)
    PROVE  /\ asserts' = TRUE /\ term' \in [BB -> {"none", "br", "ret"}]
           /\ term'[insert] # "none" /\ \A b \in BB : b # insert => term'[b] = term[b]
<1>1. /\ asserts = TRUE /\ insert \in BB /\ term \in [BB -> {"none", "br", "ret"}]
      /\ term[insert] = "none" \/ Tolerates(Now)
  BY Current
<1>2. \/ asserts' = asserts /\ term' = term /\ term[insert] # "none"
      \/ /\ term[insert] = "none" /\ asserts' = asserts
         /\ term' = [term EXCEPT ![insert] = "br"]
  BY <1>1 DEF BrUnlessTerminated, Terminate, Terminated, cfgVars
<1> QED  BY <1>1, <1>2

(* The condition is done: the branch, and the true block.                  *)
LEMMA KeepsIfBranch == BlockInv /\ IfBranch => BlockInv'
<1> SUFFICES ASSUME BlockInv, IfBranch PROVE BlockInv'
  OBVIOUS
<1> DEFINE bbs == Now.bbs
           a == Visit("stmt", Now.n.s)
           c == Resume("ifElse", Now.n, bbs)
<1>1. status = "lower" /\ work # << >> /\ Now.op = "ifBranch"
  BY DEF IfBranch, At
<1>2. Turns("ifBranch") = {1, 2, 3} /\ Turns("ifElse") = {2, 3} /\ ~Tolerates(Now)
  BY <1>1 DEF Turns, Tolerates
<1>3. /\ status' = "lower" /\ count' = count /\ insert' = bbs[1] /\ Then(<<a, c>>)
      /\ Terminate(insert, "br", SubSeq(bbs, 1, 2))
  BY <1>1 DEF IfBranch
<1>4. /\ Future(Now) = {bbs[1], bbs[2], bbs[3]}
      /\ bbs[1] # bbs[2] /\ bbs[1] # bbs[3] /\ bbs[2] # bbs[3]
  BY <1>1, <1>2, Current DEF Future, Proper
<1>5. a.op = "stmt" /\ Turns(a.op) = {} /\ c.op = "ifElse" /\ c.n = Now.n /\ c.bbs = bbs
  BY DEF Visit, Resume, Turns
<1> HIDE DEF a, c, bbs
<1>6. Future(a) = {} /\ Tolerates(c) /\ c.op \notin Statements
  BY <1>5 DEF Future, Tolerates, Statements
<1>7. Future(c) = {bbs[2], bbs[3]} /\ Proper(c)
  BY <1>2, <1>4, <1>5 DEF Future, Proper
<1>8. /\ asserts' = TRUE /\ term'[insert] # "none" /\ term' \in [BB -> {"none", "br", "ret"}]
      /\ \A b \in BB : b # insert => term'[b] = term[b]
  BY <1>1, <1>2, <1>3, Filled
<1>9. Forward /\ Avail = Future(Now) /\ term'[insert'] = "none"
  BY <1>1, <1>3, <1>4, <1>8, ForwardTurn
<1>10. IsList(work') /\ Blocks' /\ Flow'
  BY <1>3, <1>4, <1>6, <1>7, <1>9, Calls
<1> QED  BY <1>3, <1>8, <1>10, Kept

(* The condition of a loop is done: the branch, and the body.              *)
LEMMA KeepsWhileBranch == BlockInv /\ WhileBranch => BlockInv'
<1> SUFFICES ASSUME BlockInv, WhileBranch PROVE BlockInv'
  OBVIOUS
<1> DEFINE bbs == Now.bbs
           a == Visit("stmt", Now.n.s)
           c == Resume("whileEnd", Now.n, bbs)
<1>1. status = "lower" /\ work # << >> /\ Now.op = "whileBranch"
  BY DEF WhileBranch, At
<1>2. Turns("whileBranch") = {2, 3} /\ Turns("whileEnd") = {3} /\ ~Tolerates(Now)
  BY <1>1 DEF Turns, Tolerates
<1>3. /\ status' = "lower" /\ count' = count /\ insert' = bbs[2] /\ Then(<<a, c>>)
      /\ Terminate(insert, "br", SubSeq(bbs, 2, 3))
  BY <1>1 DEF WhileBranch
<1>4. Future(Now) = {bbs[2], bbs[3]} /\ bbs[2] # bbs[3]
  BY <1>1, <1>2, Current DEF Future, Proper
<1>5. a.op = "stmt" /\ Turns(a.op) = {} /\ c.op = "whileEnd" /\ c.n = Now.n /\ c.bbs = bbs
  BY DEF Visit, Resume, Turns
<1> HIDE DEF a, c, bbs
<1>6. Future(a) = {} /\ Tolerates(c) /\ c.op \notin Statements
  BY <1>5 DEF Future, Tolerates, Statements
<1>7. Future(c) = {bbs[3]} /\ Proper(c)
  BY <1>2, <1>4, <1>5 DEF Future, Proper
<1>8. /\ asserts' = TRUE /\ term'[insert] # "none" /\ term' \in [BB -> {"none", "br", "ret"}]
      /\ \A b \in BB : b # insert => term'[b] = term[b]
  BY <1>1, <1>2, <1>3, Filled
<1>9. Forward /\ Avail = Future(Now) /\ term'[insert'] = "none"
  BY <1>1, <1>3, <1>4, <1>8, ForwardTurn
<1>10. IsList(work') /\ Blocks' /\ Flow'
  BY <1>3, <1>4, <1>6, <1>7, <1>9, Calls
<1> QED  BY <1>3, <1>8, <1>10, Kept

(* The true side is done; without an else the false block is still empty.  *)
LEMMA KeepsIfElse == BlockInv /\ IfElse => BlockInv'
<1> SUFFICES ASSUME BlockInv, IfElse PROVE BlockInv'
  OBVIOUS
<1> DEFINE bbs == Now.bbs
           a == Visit("stmt", Now.n.e)
           c == Resume("ifMerge", Now.n, bbs)
<1>1. status = "lower" /\ work # << >> /\ Now.op = "ifElse"
  BY DEF IfElse, At
<1>2. Turns("ifElse") = {2, 3} /\ Turns("ifMerge") = {3}
  BY DEF Turns
<1>3. /\ status' = "lower" /\ count' = count /\ insert' = bbs[2]
      /\ BrUnlessTerminated(insert, bbs[3])
      /\ IF Now.n.e = None THEN Then(<<c>>) ELSE Then(<<a, c>>)
  BY <1>1 DEF IfElse
<1>4. Future(Now) = {bbs[2], bbs[3]} /\ bbs[2] # bbs[3]
  BY <1>1, <1>2, Current DEF Future, Proper
<1>5. a.op = "stmt" /\ Turns(a.op) = {} /\ c.op = "ifMerge" /\ c.n = Now.n /\ c.bbs = bbs
  BY DEF Visit, Resume, Turns
<1> HIDE DEF a, c, bbs
<1>6. Future(a) = {} /\ (Now.n.e # None => Tolerates(c)) /\ c.op \notin Statements
  BY <1>5 DEF Future, Tolerates, Statements
<1>7. Future(c) = {bbs[3]} /\ Proper(c)
  BY <1>2, <1>4, <1>5 DEF Future, Proper
<1>8. /\ asserts' = TRUE /\ term'[insert] # "none" /\ term' \in [BB -> {"none", "br", "ret"}]
      /\ \A b \in BB : b # insert => term'[b] = term[b]
  BY <1>1, <1>3, Filled
<1>9. Forward /\ Avail = Future(Now) /\ term'[insert'] = "none"
  BY <1>1, <1>3, <1>4, <1>8, ForwardTurn
<1>10. IsList(work') /\ Blocks' /\ Flow'
  <2>1. CASE Now.n.e = None
    BY <1>3, <1>4, <1>6, <1>7, <1>9, <2>1, Becomes
  <2>2. CASE Now.n.e # None
    BY <1>3, <1>4, <1>6, <1>7, <1>9, <2>2, Calls
  <2> QED  BY <2>1, <2>2
<1> QED  BY <1>3, <1>8, <1>10, Kept

(* The visit of an if or of a loop ends in its last block.                 *)
LEMMA KeepsEnd == BlockInv /\ (IfMerge \/ WhileEnd) => BlockInv'
<1> SUFFICES ASSUME BlockInv, IfMerge \/ WhileEnd PROVE BlockInv'
  OBVIOUS
<1> DEFINE bbs == Now.bbs
<1>1. status = "lower" /\ work # << >> /\ Now.op \in {"ifMerge", "whileEnd"}
  BY DEF IfMerge, WhileEnd, At
<1>2. Turns(Now.op) = {3}
  BY <1>1 DEF Turns
<1>3. status' = "lower" /\ count' = count /\ insert' = bbs[3] /\ Then(<< >>)
  BY <1>1 DEF IfMerge, WhileEnd
<1>4. Future(Now) = {bbs[3]}
  BY <1>2 DEF Future
<1>5. \/ ~Tolerates(Now) /\ Terminate(insert, "br", <<bbs[3]>>)
      \/ BrUnlessTerminated(insert, bbs[3]) \/ BrUnlessTerminated(insert, bbs[1])
  <2>1. IfMerge /\ Now.n.e = None => ~Tolerates(Now)
    BY DEF IfMerge, At, Tolerates
  <2> QED  BY <2>1 DEF IfMerge, WhileEnd
<1> HIDE DEF bbs
<1>6. /\ asserts' = TRUE /\ term'[insert] # "none" /\ term' \in [BB -> {"none", "br", "ret"}]
      /\ \A b \in BB : b # insert => term'[b] = term[b]
  BY <1>1, <1>5, Filled
<1>7. Forward /\ Avail = Future(Now) /\ term'[insert'] = "none"
  BY <1>1, <1>3, <1>4, <1>6, ForwardTurn
<1>8. IsList(work') /\ Blocks' /\ Flow'
  BY <1>3, <1>4, <1>7, Ends
<1> QED  BY <1>3, <1>6, <1>8, Kept

(* A loop makes three blocks and goes on in the one of its test.           *)
LEMMA KeepsWhile == BlockInv /\ VisitWhile => BlockInv'
<1> SUFFICES ASSUME BlockInv, VisitWhile PROVE BlockInv'
  OBVIOUS
<1>1. status = "lower" /\ work # << >> /\ Now.op = "stmt"
  BY DEF VisitWhile, AtStmt, At
<1>2. Turns(Now.op) = {} /\ ~Tolerates(Now)
  BY <1>1 DEF Turns, Tolerates
<1>3. /\ Future(Now) = {} /\ Blocks /\ Flow /\ IsList(work)
      /\ count \in Nat /\ MaxBlocks \in Nat /\ insert \in BB /\ insert <= count
      /\ \A b \in BB : b > count => term[b] = "none"
  BY <1>1, <1>2, Current DEF Future
<1> DEFINE bbs == <<count + 1, count + 2, count + 3>>
           a == Visit("lor", Now.n.c)
           c == Resume("whileBranch", Now.n, bbs)
<1>4. /\ status' = "lower" /\ insert' = count + 1 /\ count' = count + 3
      /\ count + 3 <= MaxBlocks /\ Then(<<a, c>>) /\ Terminate(insert, "br", <<bbs[1]>>)
  BY <1>1 DEF VisitWhile
<1>5. a.op = "lor" /\ Turns(a.op) = {} /\ c.op = "whileBranch"
  BY DEF Visit, Resume, Turns
<1>6. Future(c) = {count + 2, count + 3} /\ Proper(c)
  <2>1. Turns("whileBranch") = {2, 3}
    BY DEF Turns
  <2>2. bbs[2] = count + 2 /\ bbs[3] = count + 3
    OBVIOUS
  <2>3. \A k, l \in {2, 3} : bbs[k] = bbs[l] => k = l
    BY <1>3, <2>2
  <2> HIDE DEF bbs
  <2>4. {bbs[k] : k \in {2, 3}} = {count + 2, count + 3}
    BY <2>2
  <2> QED  BY <2>1, <2>3, <2>4, Resumed
<1> HIDE DEF a, c, bbs
<1>7. Future(a) = {} /\ a.op \notin Statements /\ c.op \notin Statements
  BY <1>5 DEF Future, Statements
<1>8. Avail = {count + 1, count + 2, count + 3}
  <2>1. Avail = Future(Now) \cup (count + 1 .. count + 3)
    BY <1>3, <1>4, AvailNew
  <2> QED  BY <1>3, <2>1
<1>9. /\ asserts' = TRUE /\ term'[insert] # "none" /\ term' \in [BB -> {"none", "br", "ret"}]
      /\ \A b \in BB : b # insert => term'[b] = term[b]
  BY <1>1, <1>2, <1>4, Filled
<1>10. Forward
  <2>1. count' \in Nat /\ count <= count' /\ count' <= MaxBlocks
    BY <1>3, <1>4
  <2>2. insert' = insert \/ (insert' \in Avail /\ term'[insert] # "none")
    BY <1>4, <1>8, <1>9
  <2> QED  BY <1>1, <1>3, <1>9, <2>1, <2>2 DEF Forward
<1>11. insert' \notin Future(c) /\ term'[insert'] = "none"
  <2>1. insert' \in BB /\ insert' > count /\ insert' # insert
    BY <1>3, <1>4 DEF BB
  <2> QED  BY <1>3, <1>4, <1>6, <1>9, <2>1
<1>12. IsList(work') /\ Blocks' /\ Flow'
  BY <1>4, <1>6, <1>7, <1>8, <1>10, <1>11, Calls
<1> QED  BY <1>4, <1>9, <1>12, Kept

(* A condition with an operator makes the block of its right side and      *)
(* visits the left one.                                                    *)
LEMMA Split ==
    ASSUME BlockInv, status = "lower", work # << >>, NEW op, Now.op = op,
           op \in {"lor", "land"}, NEW n, NEW m, NEW right, right \in {"lorRight", "landRight"},
           UNCHANGED <<status, asserts, insert, term>>,
           count' = count + 1, count < MaxBlocks,
           Then(<<Visit(op, n), Resume(right, m, <<count + 1>>)>>)
    PROVE  BlockInv'
<1> DEFINE a == Visit(op, n)
           c == Resume(right, m, <<count + 1>>)
<1>1. Turns(Now.op) = {} /\ ~Tolerates(Now)
  BY DEF Turns, Tolerates
<1>2. /\ Future(Now) = {} /\ Blocks /\ Flow /\ IsList(work) /\ term[insert] = "none"
      /\ count \in Nat /\ MaxBlocks \in Nat /\ insert \in BB /\ insert \in Nat /\ insert <= count
      /\ term \in [BB -> {"none", "br", "ret"}] /\ asserts = TRUE
  BY <1>1, Current DEF Future, BB
<1>3. a.op = op /\ Turns(op) = {} /\ c.op = right /\ c.bbs[1] = count + 1 /\ Turns(right) = {1}
  BY DEF Visit, Resume, Turns
<1>4. Then(<<a, c>>)
  OBVIOUS
<1> HIDE DEF a, c
<1>5. /\ Future(a) = {} /\ a.op \notin Statements /\ c.op \notin Statements
      /\ Future(c) = {count + 1} /\ Proper(c)
  BY <1>3 DEF Future, Statements, Proper
<1>6. Avail = {count + 1}
  <2>1. 1 \in Nat /\ count + 1 <= MaxBlocks
    BY <1>2
  <2>2. Avail = Future(Now) \cup (count + 1 .. count + 1)
    BY <1>2, <2>1, AvailNew
  <2> QED  BY <1>2, <2>2
<1>7. Forward
  <2>1. count' \in Nat /\ count <= count' /\ count' <= MaxBlocks
    BY <1>2
  <2> QED  BY <1>2, <2>1 DEF Forward
<1>8. insert' \notin Future(c) /\ term'[insert'] = "none"
  BY <1>2, <1>5
<1>9. IsList(work') /\ Blocks' /\ Flow'
  BY <1>4, <1>5, <1>6, <1>7, <1>8, Calls
<1> QED  BY <1>2, <1>9, Kept

(* || with one operand is the operand, with more it makes a block.         *)
LEMMA KeepsLOr == BlockInv /\ VisitLOr => BlockInv'
<1> SUFFICES ASSUME BlockInv, VisitLOr PROVE BlockInv'
  OBVIOUS
<1>1. status = "lower" /\ work # << >> /\ Now.op = "lor"
  BY DEF VisitLOr, At
<1>2. UNCHANGED <<status, asserts, insert, term>>
  BY DEF VisitLOr, cfgVars
<1>3. CASE Len(Now.n) = 1
  <2> DEFINE a == Visit("land", Now.n[1])
  <2>1. Then(<<a>>) /\ count' = count
    BY <1>3 DEF VisitLOr
  <2>2. a.op = "land" /\ Turns(a.op) = {}
    BY DEF Visit, Turns
  <2> HIDE DEF a
  <2>3. Turns(Now.op) = {} /\ ~Tolerates(Now)
    BY <1>1 DEF Turns, Tolerates
  <2>4. /\ Future(Now) = {} /\ term[insert] = "none" /\ asserts = TRUE
        /\ term \in [BB -> {"none", "br", "ret"}]
    BY <1>1, <2>3, Current DEF Future
  <2>5. Forward /\ Avail = {}
    <3>1. term' \in [BB -> {"none", "br", "ret"}]
      BY <1>2, <2>4
    <3> QED  BY <1>1, <1>2, <2>1, <2>4, <3>1, ForwardSame
  <2>6. Future(a) = {} /\ Proper(a) /\ a.op \notin Statements
    BY <2>2 DEF Future, Proper, Statements
  <2>7. term'[insert'] = "none"
    BY <1>2, <2>4
  <2>8. IsList(work') /\ Blocks' /\ Flow'
    BY <2>1, <2>5, <2>6, <2>7, Becomes
  <2> QED  BY <1>1, <1>2, <2>4, <2>8, Kept
<1>4. CASE Len(Now.n) # 1
  <2>1. /\ count < MaxBlocks /\ count' = count + 1
        /\ Then(<<Visit("lor", Front(Now.n)), Resume("lorRight", Last(Now.n), <<count + 1>>)>>)
    BY <1>4 DEF VisitLOr
  <2> QED  BY <1>1, <1>2, <2>1, Split
<1> QED  BY <1>3, <1>4

(* && likewise; a single operand is an atom of the insert block.           *)
LEMMA KeepsLAnd == BlockInv /\ VisitLAnd => BlockInv'
<1> SUFFICES ASSUME BlockInv, VisitLAnd PROVE BlockInv'
  OBVIOUS
<1>1. status = "lower" /\ work # << >> /\ Now.op = "land"
  BY DEF VisitLAnd, At
<1>2. status' = status /\ insert' = insert
  BY DEF VisitLAnd
<1>3. CASE Len(Now.n) = 1
  <2>1. Turns(Now.op) = {} /\ ~Tolerates(Now)
    BY <1>1 DEF Turns, Tolerates
  <2>2. /\ Future(Now) = {} /\ term[insert] = "none" /\ asserts = TRUE
        /\ term \in [BB -> {"none", "br", "ret"}]
    BY <1>1, <2>1, Current DEF Future
  <2>3. Then(<< >>) /\ count' = count /\ term' = term /\ asserts' = TRUE
    BY <1>3, <2>2 DEF VisitLAnd, Emit, Terminated
  <2>4. Forward /\ Avail = {}
    <3>1. term' \in [BB -> {"none", "br", "ret"}]
      BY <2>2, <2>3
    <3> QED  BY <1>1, <1>2, <2>2, <2>3, <3>1, ForwardSame
  <2>5. term'[insert'] = "none"
    BY <1>2, <2>2, <2>3
  <2>6. IsList(work') /\ Blocks' /\ Flow'
    BY <2>3, <2>4, <2>5, Ends
  <2> QED  BY <1>1, <1>2, <2>3, <2>6, Kept
<1>4. CASE Len(Now.n) # 1
  <2>1. /\ count < MaxBlocks /\ count' = count + 1
        /\ Then(<<Visit("land", Front(Now.n)),
                  Resume("landRight", <<Last(Now.n)>>, <<count + 1>>)>>)
        /\ UNCHANGED <<asserts, term>>
    BY <1>4 DEF VisitLAnd, cfgVars
  <2> QED  BY <1>1, <1>2, <2>1, Split
<1> QED  BY <1>3, <1>4

(* Between the two sides of an operator.                                   *)
LEMMA KeepsRight == BlockInv /\ (LOrRight \/ LAndRight) => BlockInv'
<1> SUFFICES ASSUME BlockInv, LOrRight \/ LAndRight PROVE BlockInv'
  OBVIOUS
<1> DEFINE bbs == Now.bbs
           a == Visit("land", Now.n)
<1>1. status = "lower" /\ work # << >> /\ Now.op \in {"lorRight", "landRight"}
  BY DEF LOrRight, LAndRight, At
<1>2. Turns(Now.op) = {1} /\ ~Tolerates(Now)
  BY <1>1 DEF Turns, Tolerates
<1>3. /\ status' = "lower" /\ count' = count /\ insert' = bbs[1] /\ Then(<<a>>)
      /\ \E targets : Terminate(insert, "br", targets)
  BY <1>1 DEF LOrRight, LAndRight
<1>4. Future(Now) = {bbs[1]}
  BY <1>2 DEF Future
<1>5. a.op = "land" /\ Turns(a.op) = {}
  BY DEF Visit, Turns
<1> HIDE DEF a, bbs
<1>6. Future(a) = {} /\ Proper(a) /\ a.op \notin Statements
  BY <1>5 DEF Future, Proper, Statements
<1>7. /\ asserts' = TRUE /\ term'[insert] # "none" /\ term' \in [BB -> {"none", "br", "ret"}]
      /\ \A b \in BB : b # insert => term'[b] = term[b]
  BY <1>1, <1>2, <1>3, Filled
<1>8. Forward /\ Avail = Future(Now) /\ term'[insert'] = "none"
  BY <1>1, <1>3, <1>4, <1>7, ForwardTurn
<1>9. IsList(work') /\ Blocks' /\ Flow'
  BY <1>3, <1>4, <1>6, <1>8, Becomes
<1> QED  BY <1>3, <1>7, <1>9, Kept

(* No visit is pending: nothing but the insert block can be left open.     *)
LEMMA KeepsFinish == BlockInv /\ FinishFunction => BlockInv'
<1> SUFFICES ASSUME BlockInv, FinishFunction PROVE BlockInv'
  OBVIOUS
<1>1. /\ status = "lower" /\ work = << >> /\ status' = "run" /\ work' = work
      /\ count' = count /\ insert' = insert
  BY DEF FinishFunction
<1>2. Blocks /\ IsList(work) /\ asserts = TRUE
  BY <1>1 DEF BlockInv
<1>3. DOMAIN work = {}
  BY <1>1
<1>4. /\ count \in Nat /\ insert \in BB /\ term \in [BB -> {"none", "br", "ret"}]
      /\ 1 .. count \subseteq BB
  BY <1>2, BlocksAssumption DEF Blocks, BB
<1>5. \A b \in 1 .. count : Terminated(b) \/ b = insert
  BY <1>2, <1>3 DEF Blocks
<1>6. \/ asserts' = asserts /\ term' = term /\ term[insert] # "none"
      \/ /\ term[insert] = "none" /\ asserts' = asserts
         /\ term' = [term EXCEPT ![insert] = "ret"]
  BY <1>2 DEF FinishFunction, Terminate, Terminated, cfgVars
<1>7. \A b \in 1 .. count : term'[b] # "none"
  BY <1>4, <1>5, <1>6 DEF Terminated
<1> QED  BY <1>1, <1>2, <1>6, <1>7 DEF BlockInv, AllBlocksTerminated, Terminated, IsList

(* Executing the function changes none of its blocks.                      *)
LEMMA KeepsRest ==
    ASSUME BlockInv, Run \/ (status = "exit" /\ UNCHANGED vars) \/ UNCHANGED vars
    PROVE  BlockInv'
<1>1. UNCHANGED <<asserts, work, count, insert, term>>
  BY DEF Run, RunUnfold, RunJump, RunAtom, RunExit, vars, cfgVars
<1>2. status' = status \/ (status = "run" /\ status' = "exit")
  BY DEF Run, RunUnfold, RunJump, RunAtom, RunExit, vars
<1>3. CASE status' = "lower"
  <2>1. status = "lower"
    BY <1>2, <1>3
  <2>2. Blocks' /\ Flow'
    <3>1. Blocks /\ Flow
      BY <2>1 DEF BlockInv
    <3> QED  BY <1>1, <3>1 DEF Blocks, Flow, Now, Terminated
  <2> QED  BY <1>1, <1>3, <2>2 DEF BlockInv, AllBlocksTerminated, IsList
<1>4. CASE status' # "lower"
  BY <1>1, <1>2, <1>4 DEF BlockInv, AllBlocksTerminated, Terminated, IsList
<1> QED  BY <1>3, <1>4

(* Every step keeps the invariant.                                         *)
LEMMA BlockInvStep == BlockInv /\ [Next]_vars => BlockInv'
BY KeepsAct, KeepsJump, KeepsBlock, KeepsNextItem, KeepsIf, KeepsIfBranch, KeepsIfElse,
   KeepsEnd, KeepsWhile, KeepsWhileBranch, KeepsLOr, KeepsRight, KeepsLAnd, KeepsFinish,
   KeepsRest
   DEF Next, Lower

(* The invariant of the blocks holds for every function body.              *)
THEOREM LoweringInvariant == Spec => []BlockInv
BY BlockInvInit, BlockInvStep, PTL DEF Spec

(* The assertion of add_instruction holds for every function body.         *)
THEOREM NothingBehindATerminator == Spec => []NoInsertAfterTerminator
<1>1. BlockInv => NoInsertAfterTerminator
  BY DEF BlockInv, NoInsertAfterTerminator
<1> QED  BY <1>1, LoweringInvariant, PTL

(* No block of a finished function falls off its end.                      *)
THEOREM NoBlockIsLeftOpen == Spec => []AllBlocksTerminated
<1>1. BlockInv => AllBlocksTerminated
  BY DEF BlockInv
<1> QED  BY <1>1, LoweringInvariant, PTL

-----------------------------------------------------------------------------
(* The three stacks follow the pending visits: which visits of a list, from *)
(* the i-th on, have one of the operations.                                *)
Marks(s, i, ops) == {j \in i .. Len(s) : s[j].op \in ops}
Conditions == {"ifBranch", "whileBranch"}
Rights == {"ifBranch", "whileBranch", "lorRight"}
Loops == {"whileBranch", "whileEnd"}
LoopOf(w) == [trueBB |-> w.bbs[1], falseBB |-> w.bbs[3]]

Matches(s, ts, fs, ls) ==
    /\ IsList(s) /\ IsList(ts) /\ IsList(fs) /\ IsList(ls)
    /\ Len(ts) = Cardinality(Marks(s, 1, Conditions))
    /\ Len(fs) = Cardinality(Marks(s, 1, Rights))
    /\ Len(ls) = Cardinality(Marks(s, 1, Loops))
    /\ \A i \in DOMAIN s :
          s[i].op \in Loops => ls[Cardinality(Marks(s, i, Loops))] = LoopOf(s[i])

StackInv ==
    /\ status \in {"lower", "run", "exit"}
    /\ Matches(work, trueStack, falseStack, loopStack)

(* Moving a set of numbers by one keeps its size.                          *)
LEMMA Shifted ==
    ASSUME NEW A, NEW B, IsFiniteSet(A), A \subseteq Nat,
           \A x \in A : x + 1 \in B, \A y \in B : y \in Nat /\ y - 1 \in A
    PROVE  IsFiniteSet(B) /\ Cardinality(B) = Cardinality(A)
<1> DEFINE f == [x \in A |-> x + 1]
<1>1. f \in Bijection(A, B)
  <2>1. f \in [A -> B]
    OBVIOUS
  <2>2. \A x, y \in A : f[x] = f[y] => x = y
    OBVIOUS
  <2>3. \A y \in B : \E x \in A : f[x] = y
    <3> SUFFICES ASSUME NEW y \in B PROVE \E x \in A : f[x] = y
      OBVIOUS
    <3>1. y - 1 \in A /\ f[y - 1] = y
      OBVIOUS
    <3> QED  BY <3>1
  <2> QED  BY <2>1, <2>2, <2>3 DEF Bijection, Injection, Surjection, IsInjective
<1> QED  BY <1>1, FS_Bijection DEF ExistsBijection

(* The visit a comes before the others.                                    *)
IsCons(s, a, t) == IsList(t) /\ s = <<a>> \o t

(* Its elements are the visit and then the others.                         *)
LEMMA Consed ==
    ASSUME NEW t, NEW a, NEW s, IsCons(s, a, t)
    PROVE  /\ IsList(s) /\ Len(t) \in Nat /\ DOMAIN t = 1 .. Len(t)
           /\ Len(s) = Len(t) + 1 /\ DOMAIN s = 1 .. Len(t) + 1
           /\ s[1] = a /\ \A j \in 1 .. Len(t) : s[j + 1] = t[j]
<1> DEFINE n == Len(t)
<1>1. PICK S0 : t \in Seq(S0)
  BY DEF IsList, IsCons
<1> DEFINE S == S0 \cup {a}
<1>2. t \in Seq(S) /\ <<a>> \in Seq(S) /\ Len(<<a>>) = 1 /\ <<a>>[1] = a
  BY <1>1, SeqMonotonic
<1> HIDE DEF S
<1>3. /\ Len(s) = 1 + n
      /\ \A i \in 1 .. 1 + n : s[i] = IF i <= 1 THEN <<a>>[i] ELSE t[i - 1]
  BY <1>2, ConcatProperties DEF IsCons
<1>4. n \in Nat /\ DOMAIN t = 1 .. n
  BY <1>1, LenProperties
<1> HIDE DEF n
<1>5. \A j \in 1 .. n : s[j + 1] = t[j]
  <2> SUFFICES ASSUME NEW j \in 1 .. n PROVE s[j + 1] = t[j]
    OBVIOUS
  <2>1. j + 1 \in 1 .. 1 + n /\ ~(j + 1 <= 1) /\ (j + 1) - 1 = j
    BY <1>4
  <2> QED  BY <1>3, <2>1
<1>6. s[1] = a /\ Len(s) = n + 1
  BY <1>2, <1>3, <1>4
<1>7. IsList(s) /\ DOMAIN s = 1 .. n + 1
  BY <1>2, <1>6, ConcatProperties, LenProperties DEF IsList, IsCons
<1> QED  BY <1>4, <1>5, <1>6, <1>7 DEF n

(* How the marks change when a visit is put before the others.             *)
Counted(s, a, t, ops) ==
    /\ \A i \in Nat \ {0} :
          /\ Cardinality(Marks(s, i + 1, ops)) = Cardinality(Marks(t, i, ops))
          /\ Cardinality(Marks(t, i, ops)) \in Nat
    /\ Cardinality(Marks(s, 1, ops)) =
          Cardinality(Marks(t, 1, ops)) + IF a.op \in ops THEN 1 ELSE 0
    /\ \A i \in DOMAIN t :
          t[i].op \in ops =>
              Cardinality(Marks(t, i, ops)) \in 1 .. Cardinality(Marks(t, 1, ops))

(* One mark more if the visit has the operation, and the others move by one.*)
LEMMA MarksOf ==
    ASSUME NEW t, NEW a, NEW s, IsCons(s, a, t), NEW ops
    PROVE  Counted(s, a, t, ops)
<1> DEFINE n == Len(t)
<1>1. /\ n \in Nat /\ DOMAIN t = 1 .. n /\ Len(s) = n + 1 /\ s[1] = a
      /\ \A j \in 1 .. n : s[j + 1] = t[j]
  BY Consed
<1>2. /\ \A i : Marks(t, i, ops) = {j \in i .. n : t[j].op \in ops}
      /\ \A i : Marks(s, i, ops) = {j \in i .. n + 1 : s[j].op \in ops}
  BY <1>1 DEF Marks
<1> HIDE DEF n
<1>3. ASSUME NEW i \in Nat
      PROVE  /\ IsFiniteSet(Marks(t, i, ops)) /\ Marks(t, i, ops) \subseteq Nat
             /\ Cardinality(Marks(t, i, ops)) \in Nat
  <2>1. IsFiniteSet(i .. n)
    BY <1>1, FS_Interval
  <2>2. Marks(t, i, ops) \in SUBSET (i .. n) /\ i .. n \subseteq Nat
    BY <1>1, <1>2
  <2>3. IsFiniteSet(Marks(t, i, ops))
    BY <2>1, <2>2, FS_Subset
  <2>4. Cardinality(Marks(t, i, ops)) \in Nat
    BY <2>3, FS_CardinalityType
  <2> QED  BY <2>2, <2>3, <2>4
<1>4. ASSUME NEW i \in Nat \ {0}
      PROVE  /\ IsFiniteSet(Marks(s, i + 1, ops))
             /\ Cardinality(Marks(s, i + 1, ops)) = Cardinality(Marks(t, i, ops))
  <2>1. \A j \in Marks(t, i, ops) : j + 1 \in Marks(s, i + 1, ops)
    <3> SUFFICES ASSUME NEW j \in Marks(t, i, ops) PROVE j + 1 \in Marks(s, i + 1, ops)
      OBVIOUS
    <3>1. j \in i .. n /\ t[j].op \in ops
      BY <1>2
    <3>2. j \in 1 .. n /\ j + 1 \in i + 1 .. n + 1
      BY <1>1, <3>1
    <3> QED  BY <1>1, <1>2, <3>1, <3>2
  <2>2. \A j \in Marks(s, i + 1, ops) : j \in Nat /\ j - 1 \in Marks(t, i, ops)
    <3> SUFFICES ASSUME NEW j \in Marks(s, i + 1, ops)
                 PROVE  j \in Nat /\ j - 1 \in Marks(t, i, ops)
      OBVIOUS
    <3>1. j \in Nat /\ j - 1 \in i .. n /\ j - 1 \in 1 .. n /\ (j - 1) + 1 = j /\ s[j].op \in ops
      BY <1>1, <1>2
    <3> QED  BY <1>1, <1>2, <3>1
  <2> QED  BY <1>3, <2>1, <2>2, Shifted
<1>5. Cardinality(Marks(s, 1, ops)) =
         Cardinality(Marks(t, 1, ops)) + IF a.op \in ops THEN 1 ELSE 0
  <2>1. /\ IsFiniteSet(Marks(s, 2, ops)) /\ 1 \notin Marks(s, 2, ops)
        /\ Cardinality(Marks(s, 2, ops)) = Cardinality(Marks(t, 1, ops))
        /\ Cardinality(Marks(t, 1, ops)) \in Nat
    <3>1. 1 \in Nat \ {0} /\ 1 + 1 = 2
      OBVIOUS
    <3>2. /\ IsFiniteSet(Marks(s, 1 + 1, ops))
          /\ Cardinality(Marks(s, 1 + 1, ops)) = Cardinality(Marks(t, 1, ops))
          /\ Cardinality(Marks(t, 1, ops)) \in Nat
      BY <1>3, <1>4, <3>1
    <3>3. 1 \notin Marks(s, 2, ops)
      BY <1>1, <1>2
    <3> QED  BY <3>1, <3>2, <3>3
  <2>2. \A j : j \in 1 .. n + 1 <=> (j = 1 \/ j \in 2 .. n + 1)
    BY <1>1
  <2>3. CASE a.op \in ops
    <3>1. Marks(s, 1, ops) = Marks(s, 2, ops) \cup {1}
      BY <1>1, <1>2, <2>3, <2>2
    <3> QED  BY <2>1, <2>3, <3>1, FS_AddElement
  <2>4. CASE a.op \notin ops
    <3>1. \A j : j \in Marks(s, 1, ops) <=> (j \in 1 .. n + 1 /\ s[j].op \in ops)
      BY <1>2
    <3>2. \A j : j \in Marks(s, 2, ops) <=> (j \in 2 .. n + 1 /\ s[j].op \in ops)
      BY <1>2
    <3>3. \A j : j \in Marks(s, 1, ops) <=> j \in Marks(s, 2, ops)
      BY <1>1, <2>4, <2>2, <3>1, <3>2
    <3>4. Marks(s, 1, ops) = Marks(s, 2, ops)
      BY <3>3
    <3> QED  BY <2>1, <2>4, <3>4
  <2> QED  BY <2>3, <2>4
<1>6. ASSUME NEW i \in DOMAIN t, t[i].op \in ops
      PROVE  Cardinality(Marks(t, i, ops)) \in 1 .. Cardinality(Marks(t, 1, ops))
  <2>1. i \in Marks(t, i, ops) /\ Marks(t, i, ops) \subseteq Marks(t, 1, ops) /\ i \in Nat
    BY <1>1, <1>2, <1>6
  <2>2. Cardinality(Marks(t, i, ops)) <= Cardinality(Marks(t, 1, ops))
    BY <1>3, <2>1, FS_Subset
  <2>3. Cardinality(Marks(t, i, ops)) # 0
    BY <1>3, <2>1, FS_EmptySet
  <2> QED  BY <1>3, <2>1, <2>2, <2>3
<1> QED  BY <1>3, <1>4, <1>5, <1>6 DEF Counted

(* The same for the operations of the three stacks.                        *)
LEMMA Counts ==
    ASSUME NEW t, NEW a, NEW s, IsCons(s, a, t)
    PROVE  /\ Cardinality(Marks(t, 1, Conditions)) \in Nat
           /\ Cardinality(Marks(t, 1, Rights)) \in Nat
           /\ Cardinality(Marks(t, 1, Loops)) \in Nat
           /\ Cardinality(Marks(s, 1, Conditions)) =
                 Cardinality(Marks(t, 1, Conditions)) + IF a.op \in Conditions THEN 1 ELSE 0
           /\ Cardinality(Marks(s, 1, Rights)) =
                 Cardinality(Marks(t, 1, Rights)) + IF a.op \in Rights THEN 1 ELSE 0
           /\ Cardinality(Marks(s, 1, Loops)) =
                 Cardinality(Marks(t, 1, Loops)) + IF a.op \in Loops THEN 1 ELSE 0
           /\ \A i \in Nat \ {0} :
                 Cardinality(Marks(s, i + 1, Loops)) = Cardinality(Marks(t, i, Loops))
           /\ \A i \in DOMAIN t :
                 t[i].op \in Loops =>
                     Cardinality(Marks(t, i, Loops)) \in 1 .. Cardinality(Marks(t, 1, Loops))
<1>1. /\ Counted(s, a, t, Conditions) /\ Counted(s, a, t, Rights)
      /\ Counted(s, a, t, Loops) /\ 1 \in Nat \ {0}
  BY MarksOf
<1> QED  BY <1>1 DEF Counted

(* Lists seen from their end.                                              *)
LEMMA Appended ==
    ASSUME NEW q, IsList(q), NEW x
    PROVE  /\ IsList(Append(q, x)) /\ Len(q) \in Nat /\ Len(Append(q, x)) = Len(q) + 1
           /\ Append(q, x)[Len(q) + 1] = x
           /\ \A i \in 1 .. Len(q) : Append(q, x)[i] = q[i]
<1>1. PICK S0 : q \in Seq(S0)
  BY DEF IsList
<1> DEFINE S == S0 \cup {x}
<1>2. q \in Seq(S) /\ x \in S
  BY <1>1, SeqMonotonic
<1> HIDE DEF S
<1>3. /\ Append(q, x) \in Seq(S) /\ Len(q) \in Nat /\ Len(Append(q, x)) = Len(q) + 1
      /\ Append(q, x)[Len(q) + 1] = x
      /\ \A i \in 1 .. Len(q) : Append(q, x)[i] = q[i]
  BY <1>2, AppendProperties, LenProperties
<1> QED  BY <1>3 DEF IsList

(* All but the last element of a list.                                     *)
LEMMA Fronted ==
    ASSUME NEW q, IsList(q), Len(q) # 0
    PROVE  /\ IsList(Front(q)) /\ Len(Front(q)) = Len(q) - 1 /\ Last(q) = q[Len(q)]
           /\ Len(q) \in Nat \ {0}
           /\ \A i \in 1 .. Len(q) - 1 : Front(q)[i] = q[i]
<1> DEFINE n == Len(q) - 1
<1>1. PICK S : q \in Seq(S)
  BY DEF IsList
<1>2. Front(q) = SubSeq(q, 1, n) /\ Last(q) = q[Len(q)]
  BY DEF Front, Last
<1>3. Len(q) \in Nat \ {0} /\ n \in Nat /\ 1 .. n \subseteq 1 .. Len(q)
  BY <1>1, LenProperties
<1>4. \A i \in 1 .. n : q[i] \in S
  BY <1>1, <1>3, ElementOfSeq
<1>5. /\ SubSeq(q, 1, n) \in Seq(S) /\ Len(SubSeq(q, 1, n)) = n
      /\ \A i \in 1 .. n : SubSeq(q, 1, n)[i] = q[i]
  <2>1. 1 \in 1 .. Len(q) + 1 /\ n \in 0 .. Len(q)
    BY <1>3
  <2> HIDE DEF n
  <2>2. \A i \in 1 .. n : 1 + i - 1 = i
    BY <1>3
  <2> QED  BY <1>1, <1>3, <1>4, <2>1, <2>2, SubSeqProperties
<1> QED  BY <1>2, <1>3, <1>5 DEF IsList

(* A visit leaves what it put on the stacks.                               *)
LEMMA Pops ==
    ASSUME NEW t, NEW a, NEW s, IsCons(s, a, t),
           NEW ts, NEW fs, NEW ls, Matches(s, ts, fs, ls)
    PROVE  /\ Matches(t, IF a.op \in Conditions THEN Front(ts) ELSE ts,
                         IF a.op \in Rights THEN Front(fs) ELSE fs,
                         IF a.op \in Loops THEN Front(ls) ELSE ls)
           /\ a.op \in Loops => IsList(ls) /\ Len(ls) \in Nat \ {0} /\ Last(ls) = LoopOf(a)
<1> DEFINE tc == Cardinality(Marks(t, 1, Conditions))
           tr == Cardinality(Marks(t, 1, Rights))
           tl == Cardinality(Marks(t, 1, Loops))
           sc == Cardinality(Marks(s, 1, Conditions))
           sr == Cardinality(Marks(s, 1, Rights))
           sl == Cardinality(Marks(s, 1, Loops))
<1>1. /\ DOMAIN t = 1 .. Len(t) /\ Len(t) \in Nat /\ s[1] = a /\ DOMAIN s = 1 .. Len(t) + 1
      /\ \A j \in 1 .. Len(t) : s[j + 1] = t[j]
  BY Consed
<1>2. /\ tc \in Nat /\ tr \in Nat /\ tl \in Nat
      /\ sc = tc + (IF a.op \in Conditions THEN 1 ELSE 0)
      /\ sr = tr + (IF a.op \in Rights THEN 1 ELSE 0)
      /\ sl = tl + (IF a.op \in Loops THEN 1 ELSE 0)
  BY Counts
<1>3. /\ IsList(t) /\ IsList(ts) /\ IsList(fs) /\ IsList(ls)
      /\ Len(ts) = sc /\ Len(fs) = sr /\ Len(ls) = sl
      /\ \A i \in DOMAIN s :
            s[i].op \in Loops => ls[Cardinality(Marks(s, i, Loops))] = LoopOf(s[i])
  BY DEF Matches, IsCons
<1>4. ASSUME NEW i \in DOMAIN t, t[i].op \in Loops
      PROVE  /\ ls[Cardinality(Marks(t, i, Loops))] = LoopOf(t[i])
             /\ Cardinality(Marks(t, i, Loops)) \in 1 .. tl
  <2>1. i \in Nat \ {0} /\ i + 1 \in DOMAIN s /\ s[i + 1] = t[i]
    BY <1>1
  <2>2. /\ Cardinality(Marks(s, i + 1, Loops)) = Cardinality(Marks(t, i, Loops))
        /\ Cardinality(Marks(t, i, Loops)) \in 1 .. tl
    BY <1>4, <2>1, Counts
  <2> QED  BY <1>3, <1>4, <2>1, <2>2
<1>5. a.op \in Loops => ls[tl + 1] = LoopOf(a)
  <2>1. 1 \in DOMAIN s
    BY <1>1
  <2> QED  BY <1>1, <1>2, <1>3, <2>1
<1> DEFINE ts2 == IF a.op \in Conditions THEN Front(ts) ELSE ts
           fs2 == IF a.op \in Rights THEN Front(fs) ELSE fs
           ls2 == IF a.op \in Loops THEN Front(ls) ELSE ls
<1> HIDE DEF tc, tr, tl, sc, sr, sl
<1>6. IsList(ts2) /\ Len(ts2) = tc
  BY <1>2, <1>3, Fronted
<1>7. IsList(fs2) /\ Len(fs2) = tr
  BY <1>2, <1>3, Fronted
<1>8. /\ IsList(ls2) /\ Len(ls2) = tl
      /\ \A i \in 1 .. tl : ls2[i] = ls[i]
      /\ a.op \in Loops => Len(ls) \in Nat \ {0} /\ Last(ls) = ls[tl + 1]
  BY <1>2, <1>3, Fronted
<1>9. \A i \in DOMAIN t :
         t[i].op \in Loops => ls2[Cardinality(Marks(t, i, Loops))] = LoopOf(t[i])
  BY <1>4, <1>8
<1> HIDE DEF ts2, fs2, ls2
<1>10. Matches(t, ts2, fs2, ls2)
  BY <1>3, <1>6, <1>7, <1>8, <1>9 DEF Matches, tc, tr, tl
<1> QED  BY <1>3, <1>5, <1>8, <1>10 DEF ts2, fs2, ls2

(* A visit puts its targets on the stacks before it waits.                 *)
LEMMA Pushes ==
    ASSUME NEW t, NEW a, NEW s, IsCons(s, a, t), NEW x, NEW y,
           NEW ts, NEW fs, NEW ls, Matches(t, ts, fs, ls)
    PROVE  Matches(s, IF a.op \in Conditions THEN Append(ts, x) ELSE ts,
                      IF a.op \in Rights THEN Append(fs, y) ELSE fs,
                      IF a.op \in Loops THEN Append(ls, LoopOf(a)) ELSE ls)
<1> DEFINE tc == Cardinality(Marks(t, 1, Conditions))
           tr == Cardinality(Marks(t, 1, Rights))
           tl == Cardinality(Marks(t, 1, Loops))
           sc == Cardinality(Marks(s, 1, Conditions))
           sr == Cardinality(Marks(s, 1, Rights))
           sl == Cardinality(Marks(s, 1, Loops))
           ts2 == IF a.op \in Conditions THEN Append(ts, x) ELSE ts
           fs2 == IF a.op \in Rights THEN Append(fs, y) ELSE fs
           ls2 == IF a.op \in Loops THEN Append(ls, LoopOf(a)) ELSE ls
<1>1. /\ IsList(t) /\ IsList(ts) /\ IsList(fs) /\ IsList(ls)
      /\ Len(ts) = tc /\ Len(fs) = tr /\ Len(ls) = tl
      /\ \A i \in DOMAIN t :
            t[i].op \in Loops => ls[Cardinality(Marks(t, i, Loops))] = LoopOf(t[i])
  BY DEF Matches
<1>2. /\ DOMAIN t = 1 .. Len(t) /\ Len(t) \in Nat /\ s[1] = a /\ DOMAIN s = 1 .. Len(t) + 1
      /\ \A j \in 1 .. Len(t) : s[j + 1] = t[j]
      /\ IsList(s)
  BY Consed
<1>3. /\ tc \in Nat /\ tr \in Nat /\ tl \in Nat
      /\ sc = tc + (IF a.op \in Conditions THEN 1 ELSE 0)
      /\ sr = tr + (IF a.op \in Rights THEN 1 ELSE 0)
      /\ sl = tl + (IF a.op \in Loops THEN 1 ELSE 0)
  BY Counts
<1>4. ASSUME NEW i \in DOMAIN t, t[i].op \in Loops
      PROVE  /\ Cardinality(Marks(s, i + 1, Loops)) = Cardinality(Marks(t, i, Loops))
             /\ Cardinality(Marks(t, i, Loops)) \in 1 .. tl
  <2>1. i \in Nat \ {0}
    BY <1>2
  <2> QED  BY <1>4, <2>1, Counts
<1> HIDE DEF tc, tr, tl, sc, sr, sl
<1>5. IsList(ts2) /\ Len(ts2) = sc
  BY <1>1, <1>3, Appended
<1>6. IsList(fs2) /\ Len(fs2) = sr
  BY <1>1, <1>3, Appended
<1>7. /\ IsList(ls2) /\ Len(ls2) = sl /\ \A i \in 1 .. tl : ls2[i] = ls[i]
      /\ a.op \in Loops => ls2[sl] = LoopOf(a)
  BY <1>1, <1>3, Appended
<1> HIDE DEF ts2, fs2, ls2
<1>8. ASSUME NEW i \in DOMAIN s, s[i].op \in Loops
      PROVE  ls2[Cardinality(Marks(s, i, Loops))] = LoopOf(s[i])
  <2>1. CASE i = 1
    BY <1>2, <1>7, <1>8, <2>1 DEF sl
  <2>2. CASE i # 1
    <3>1. i - 1 \in DOMAIN t /\ (i - 1) + 1 = i /\ s[i] = t[i - 1]
      <4>1. i - 1 \in 1 .. Len(t) /\ (i - 1) + 1 = i
        BY <1>2, <2>2
      <4>2. s[(i - 1) + 1] = t[i - 1]
        BY <1>2, <4>1
      <4> QED  BY <1>2, <4>1, <4>2
    <3>2. /\ Cardinality(Marks(s, i, Loops)) = Cardinality(Marks(t, i - 1, Loops))
          /\ Cardinality(Marks(t, i - 1, Loops)) \in 1 .. tl
      BY <1>4, <1>8, <3>1
    <3>3. ls[Cardinality(Marks(t, i - 1, Loops))] = LoopOf(t[i - 1])
      BY <1>1, <1>8, <3>1
    <3> QED  BY <1>7, <3>1, <3>2, <3>3
  <2> QED  BY <2>1, <2>2
<1>9. Matches(s, ts2, fs2, ls2)
  BY <1>2, <1>5, <1>6, <1>7, <1>8 DEF Matches, sc, sr, sl
<1> QED  BY <1>9 DEF ts2, fs2, ls2

-----------------------------------------------------------------------------
(* What an action does to the pending visits.                              *)
LEMMA Top ==
    ASSUME IsList(work), work # << >>
    PROVE  IsCons(work, Now, Tail(work))
<1>1. PICK S : work \in Seq(S)
  BY DEF IsList
<1> DEFINE a == Head(work)
           r == Tail(work)
           n == Len(r)
<1>2. /\ a = work[1] /\ a \in S /\ r \in Seq(S) /\ n \in Nat /\ Len(work) = n + 1
      /\ \A i \in 1 .. n : r[i] = work[i + 1]
  BY <1>1, HeadTailProperties, EmptySeq, LenProperties
<1>3. <<a>> \in Seq(S) /\ Len(<<a>>) = 1 /\ <<a>>[1] = a
  BY <1>2
<1> HIDE DEF a, r
<1>4. /\ <<a>> \o r \in Seq(S) /\ Len(<<a>> \o r) = 1 + n
      /\ \A i \in 1 .. 1 + n : (<<a>> \o r)[i] = IF i <= 1 THEN <<a>>[i] ELSE r[i - 1]
  BY <1>2, <1>3, ConcatProperties
<1> HIDE DEF n
<1>5. ASSUME NEW i \in 1 .. 1 + n
      PROVE  (<<a>> \o r)[i] = work[i]
  <2>1. CASE i = 1
    BY <1>2, <1>3, <1>4, <2>1
  <2>2. CASE i # 1
    <3>1. ~(i <= 1) /\ i - 1 \in 1 .. n /\ (i - 1) + 1 = i
      BY <1>2, <2>2
    <3> QED  BY <1>2, <1>4, <3>1
  <2> QED  BY <2>1, <2>2
<1>6. work = <<a>> \o r
  <2>1. Len(work) = Len(<<a>> \o r) /\ \A i \in 1 .. Len(work) : work[i] = (<<a>> \o r)[i]
    BY <1>2, <1>4, <1>5
  <2> QED  BY <1>1, <1>4, <2>1, SeqEqual
<1> QED  BY <1>2, <1>6 DEF IsCons, IsList, Now, a, r

(* What Then puts before the visits that were waiting.                     *)
LEMMA Thens ==
    ASSUME IsList(Tail(work)), NEW a, NEW c
    PROVE  /\ Then(<< >>) => work' = Tail(work)
           /\ Then(<<a>>) => IsCons(work', a, Tail(work))
           /\ Then(<<a, c>>) => /\ IsCons(<<c>> \o Tail(work), c, Tail(work))
                                /\ IsCons(work', a, <<c>> \o Tail(work))
<1> DEFINE r == Tail(work)
<1>1. PICK S0 : r \in Seq(S0)
  BY DEF IsList
<1> DEFINE S == S0 \cup {a, c}
<1>2. /\ r \in Seq(S) /\ <<a>> \in Seq(S) /\ <<c>> \in Seq(S) /\ << >> \in Seq(S)
      /\ <<a, c>> \in Seq(S)
  BY <1>1, SeqMonotonic
<1> HIDE DEF r, S
<1>3. << >> \o r = r
  BY <1>2, ConcatEmptySeq
<1>4. <<c>> \o r \in Seq(S)
  BY <1>2, ConcatProperties
<1>5. <<a>> \o <<c>> = <<a, c>>
  <2> DEFINE p == <<a>> \o <<c>>
             q == <<a, c>>
  <2>1. /\ p \in Seq(S) /\ Len(p) = 1 + 1
        /\ \A i \in 1 .. 1 + 1 : p[i] = IF i <= 1 THEN <<a>>[i] ELSE <<c>>[i - 1]
    <3>1. Len(<<a>>) = 1 /\ Len(<<c>>) = 1
      OBVIOUS
    <3> QED  BY <1>2, <3>1, ConcatProperties
  <2>2. q \in Seq(S) /\ Len(q) = 2 /\ q[1] = a /\ q[2] = c
    BY <1>2
  <2>3. <<a>>[1] = a /\ <<c>>[2 - 1] = c
    OBVIOUS
  <2> HIDE DEF p, q
  <2>4. p[1] = a /\ p[2] = c /\ Len(p) = 2
    <3>1. 1 \in 1 .. 1 + 1 /\ 2 \in 1 .. 1 + 1 /\ 1 <= 1 /\ ~(2 <= 1) /\ 1 + 1 = 2
      OBVIOUS
    <3> QED  BY <2>1, <2>3, <3>1
  <2>5. \A i \in 1 .. Len(p) : p[i] = q[i]
    <3>1. \A i \in 1 .. 2 : i = 1 \/ i = 2
      OBVIOUS
    <3> QED  BY <2>2, <2>4, <3>1
  <2>6. p = q
    BY <2>1, <2>2, <2>4, <2>5, SeqEqual
  <2> QED  BY <2>6 DEF p, q
<1>6. <<a, c>> \o r = <<a>> \o (<<c>> \o r)
  <2> DEFINE A == <<a>>
             C == <<c>>
  <2>1. A \in Seq(S) /\ C \in Seq(S)
    BY <1>2
  <2>2. A \o C = <<a, c>>
    BY <1>5
  <2> HIDE DEF A, C
  <2>3. (A \o C) \o r = A \o (C \o r)
    BY <1>2, <2>1, ConcatAssociative
  <2>4. <<a, c>> \o r = A \o (C \o r)
    BY <2>2, <2>3, Zenon
  <2> QED  BY <2>4 DEF A, C
<1> QED  BY <1>2, <1>3, <1>4, <1>6 DEF Then, IsCons, IsList, r

(* The visits that put nothing on the stacks.                              *)
Plain(w) == w.op \notin Conditions /\ w.op \notin Rights /\ w.op \notin Loops

TrueRest == IF Now.op \in Conditions THEN Front(trueStack) ELSE trueStack
FalseRest == IF Now.op \in Rights THEN Front(falseStack) ELSE falseStack
LoopRest == IF Now.op \in Loops THEN Front(loopStack) ELSE loopStack

(* Without the current visit the stacks match the visits that wait.        *)
LEMMA Leaves ==
    ASSUME Matches(work, trueStack, falseStack, loopStack), work # << >>
    PROVE  /\ IsList(Tail(work)) /\ Matches(Tail(work), TrueRest, FalseRest, LoopRest)
           /\ Now.op \in Loops =>
                 IsList(loopStack) /\ Len(loopStack) \in Nat \ {0} /\ Last(loopStack) = LoopOf(Now)
<1>1. IsCons(work, Now, Tail(work)) /\ IsList(Tail(work))
  <2>1. IsCons(work, Now, Tail(work))
    BY Top DEF Matches
  <2> QED  BY <2>1 DEF IsCons
<1> QED  BY <1>1, Pops DEF TrueRest, FalseRest, LoopRest

(* A visit ends, or becomes one that does not use the stacks.              *)
LEMMA StackEnds ==
    ASSUME Matches(work, trueStack, falseStack, loopStack), work # << >>,
           trueStack' = TrueRest, falseStack' = FalseRest, loopStack' = LoopRest,
           Then(<< >>) \/ \E a : Plain(a) /\ Then(<<a>>)
    PROVE  Matches(work', trueStack', falseStack', loopStack')
<1>1. IsList(Tail(work)) /\ Matches(Tail(work), TrueRest, FalseRest, LoopRest)
  BY Leaves
<1>2. CASE Then(<< >>)
  <2>1. work' = Tail(work)
    BY <1>1, <1>2, Thens
  <2> QED  BY <1>1, <2>1
<1>3. CASE \E a : Plain(a) /\ Then(<<a>>)
  <2>1. PICK a : Plain(a) /\ Then(<<a>>)
    BY <1>3
  <2>2. IsCons(work', a, Tail(work))
    BY <1>1, <2>1, Thens
  <2>3. a.op \notin Conditions /\ a.op \notin Rights /\ a.op \notin Loops
    BY <2>1 DEF Plain
  <2> QED  BY <1>1, <2>2, <2>3, Pushes
<1> QED  BY <1>2, <1>3

(* A visit calls another one and may put its targets on the stacks.        *)
LEMMA StackCalls ==
    ASSUME Matches(work, trueStack, falseStack, loopStack), work # << >>,
           NEW a, Plain(a), NEW c, Then(<<a, c>>), NEW x, NEW y,
           trueStack' = IF c.op \in Conditions THEN Append(TrueRest, x) ELSE TrueRest,
           falseStack' = IF c.op \in Rights THEN Append(FalseRest, y) ELSE FalseRest,
           loopStack' = IF c.op \in Loops THEN Append(LoopRest, LoopOf(c)) ELSE LoopRest
    PROVE  Matches(work', trueStack', falseStack', loopStack')
<1>1. IsList(Tail(work)) /\ Matches(Tail(work), TrueRest, FalseRest, LoopRest)
  BY Leaves
<1> DEFINE m == <<c>> \o Tail(work)
<1>2. IsCons(m, c, Tail(work)) /\ IsCons(work', a, m)
  BY <1>1, Thens
<1> HIDE DEF m
<1>3. Matches(m, trueStack', falseStack', loopStack')
  BY <1>1, <1>2, Pushes
<1>4. a.op \notin Conditions /\ a.op \notin Rights /\ a.op \notin Loops
  BY DEF Plain
<1> QED  BY <1>2, <1>3, <1>4, Pushes

(* Taking the last element off a list and putting it back.                 *)
LEMMA PutBack ==
    ASSUME NEW q, IsList(q), Len(q) \in Nat \ {0}
    PROVE  Append(Front(q), Last(q)) = q
<1>1. /\ IsList(Front(q)) /\ Len(Front(q)) = Len(q) - 1 /\ Last(q) = q[Len(q)]
      /\ \A i \in 1 .. Len(q) - 1 : Front(q)[i] = q[i]
  BY Fronted
<1> DEFINE p == Append(Front(q), Last(q))
<1>2. /\ IsList(p) /\ Len(p) = (Len(q) - 1) + 1 /\ p[(Len(q) - 1) + 1] = Last(q)
      /\ \A i \in 1 .. Len(q) - 1 : p[i] = Front(q)[i]
  <2>1. IsList(Front(q))
    BY <1>1
  <2>2. /\ IsList(p) /\ Len(p) = Len(Front(q)) + 1 /\ p[Len(Front(q)) + 1] = Last(q)
        /\ \A i \in 1 .. Len(Front(q)) : p[i] = Front(q)[i]
    BY <2>1, Appended
  <2> QED  BY <1>1, <2>2
<1> HIDE DEF p
<1>3. Len(p) = Len(q) /\ \A i \in 1 .. Len(q) : p[i] = q[i]
  <2> DEFINE n == Len(q)
  <2>1. n \in Nat \ {0} /\ Len(p) = (n - 1) + 1 /\ p[(n - 1) + 1] = q[n]
        /\ \A i \in 1 .. n - 1 : p[i] = q[i]
    BY <1>1, <1>2
  <2> HIDE DEF n
  <2>2. (n - 1) + 1 = n /\ \A i \in 1 .. n : i = n \/ i \in 1 .. n - 1
    BY <2>1
  <2>3. Len(p) = n /\ \A i \in 1 .. n : p[i] = q[i]
    BY <2>1, <2>2
  <2> QED  BY <2>3 DEF n
<1>4. PICK S : q \in Seq(S)
  BY DEF IsList
<1>5. PICK T : p \in Seq(T)
  BY <1>2 DEF IsList
<1>6. p \in Seq(S \cup T) /\ q \in Seq(S \cup T)
  BY <1>4, <1>5, SeqMonotonic
<1>7. p = q
  BY <1>3, <1>6, SeqEqual
<1> QED  BY <1>7 DEF p

-----------------------------------------------------------------------------
(* Which operations use the stacks.                                        *)
LEMMA PlainVisits ==
    ASSUME NEW op, NEW n
    PROVE  op \in {"stmt", "items", "lor", "land"} => Plain(Visit(op, n))
BY DEF Plain, Visit, Conditions, Rights, Loops

(* Which waiting visits do not use the stacks.                             *)
LEMMA PlainResumes ==
    ASSUME NEW op, NEW n, NEW bbs
    PROVE  op \in {"ifElse", "ifMerge", "landRight"} => Plain(Resume(op, n, bbs))
BY DEF Plain, Resume, Conditions, Rights, Loops

(* A visit that does not use the stacks takes nothing off them.            *)
LEMMA RestOfPlain ==
    ASSUME Plain(Now)
    PROVE  TrueRest = trueStack /\ FalseRest = falseStack /\ LoopRest = loopStack
BY DEF Plain, TrueRest, FalseRest, LoopRest

StacksNow == Matches(work, trueStack, falseStack, loopStack)

(* No condition and no loop is being visited at first.                     *)
LEMMA StackInvInit == Init => StackInv
<1> SUFFICES ASSUME Init PROVE StackInv
  OBVIOUS
<1>1. PICK w : w.op = "stmt" /\ work = <<w>>
  BY DEF Init, Visit
<1>2. /\ work \in Seq({w}) /\ << >> \in Seq({w}) /\ Len(work) = 1 /\ DOMAIN work = 1 .. 1
      /\ work[1] = w
  BY <1>1
<1>3. \A i \in 1 .. 1 : i = 1
  OBVIOUS
<1>4. /\ Marks(work, 1, Conditions) = {} /\ Marks(work, 1, Rights) = {}
      /\ Marks(work, 1, Loops) = {}
  BY <1>1, <1>2, <1>3 DEF Marks, Conditions, Rights, Loops
<1>5. \A i \in DOMAIN work : work[i].op \notin Loops
  BY <1>1, <1>2, <1>3 DEF Loops
<1>6. Len(<< >>) = 0 /\ Cardinality({}) = 0
  BY FS_EmptySet
<1> QED  BY <1>2, <1>4, <1>5, <1>6 DEF Init, StackInv, Matches, IsList

(* The visits that neither find nor put anything on the stacks.            *)
PlainActions ==
    \/ VisitAct \/ VisitReturn \/ VisitBreak \/ VisitContinue \/ VisitBlock \/ NextItem
    \/ IfElse \/ IfMerge \/ VisitLAnd \/ LAndRight

(* Statements, items, the ends of an if and && leave the stacks alone.     *)
LEMMA StacksPlain ==
    ASSUME StacksNow, PlainActions
    PROVE  StacksNow'
<1>1. /\ work # << >> /\ UNCHANGED stackVars
      /\ Now.op \in {"stmt", "items", "ifElse", "ifMerge", "land", "landRight"}
  BY DEF PlainActions, VisitAct, VisitReturn, VisitBreak, VisitContinue, VisitBlock, NextItem,
         IfElse, IfMerge, VisitLAnd, LAndRight, AtStmt, At
<1>2. TrueRest = trueStack /\ FalseRest = falseStack /\ LoopRest = loopStack
  <2>1. Plain(Now)
    BY <1>1 DEF Plain, Conditions, Rights, Loops
  <2> QED  BY <2>1, RestOfPlain
<1>3. \/ Then(<< >>) \/ \E a : Plain(a) /\ Then(<<a>>)
      \/ \E a, c : Plain(a) /\ Plain(c) /\ Then(<<a, c>>)
  <2>1. \A n : /\ Plain(Visit("stmt", n)) /\ Plain(Visit("items", n))
               /\ Plain(Visit("land", n))
    BY PlainVisits
  <2>2. \A n, bbs : Plain(Resume("ifMerge", n, bbs)) /\ Plain(Resume("landRight", n, bbs))
    BY PlainResumes
  <2>3. CASE VisitAct \/ VisitReturn \/ VisitBreak \/ VisitContinue \/ IfMerge
    BY <2>3 DEF VisitAct, VisitReturn, VisitBreak, VisitContinue, IfMerge
  <2>4. CASE VisitBlock
    BY <2>1, <2>4 DEF VisitBlock
  <2>5. CASE NextItem
    BY <2>1, <2>5 DEF NextItem
  <2>6. CASE IfElse
    BY <2>1, <2>2, <2>6 DEF IfElse
  <2>7. CASE VisitLAnd
    BY <2>1, <2>2, <2>7 DEF VisitLAnd
  <2>8. CASE LAndRight
    BY <2>1, <2>8 DEF LAndRight
  <2> QED  BY <2>3, <2>4, <2>5, <2>6, <2>7, <2>8 DEF PlainActions
<1>4. trueStack' = TrueRest /\ falseStack' = FalseRest /\ loopStack' = LoopRest
  BY <1>1, <1>2 DEF stackVars
<1>5. CASE Then(<< >>) \/ \E a : Plain(a) /\ Then(<<a>>)
  BY <1>1, <1>4, <1>5, StackEnds DEF StacksNow
<1>6. CASE \E a, c : Plain(a) /\ Plain(c) /\ Then(<<a, c>>)
  <2>1. PICK a, c : Plain(a) /\ Plain(c) /\ Then(<<a, c>>)
    BY <1>6
  <2>2. c.op \notin Conditions /\ c.op \notin Rights /\ c.op \notin Loops
    BY <2>1 DEF Plain
  <2> QED  BY <1>1, <1>4, <2>1, <2>2, StackCalls DEF StacksNow
<1> QED  BY <1>3, <1>5, <1>6

(* An if puts its true and false targets on the stacks.                    *)
LEMMA StacksIf ==
    ASSUME StacksNow, VisitIf
    PROVE  StacksNow'
<1> DEFINE bbs == <<count + 1, count + 2, count + 3>>
           a == Visit("lor", Now.n.c)
           c == Resume("ifBranch", Now.n, bbs)
<1>1. /\ work # << >> /\ Now.op = "stmt" /\ Then(<<a, c>>) /\ loopStack' = loopStack
      /\ trueStack' = Append(trueStack, count + 1) /\ falseStack' = Append(falseStack, count + 2)
  BY DEF VisitIf, AtStmt, At
<1>2. TrueRest = trueStack /\ FalseRest = falseStack /\ LoopRest = loopStack
  BY <1>1, RestOfPlain DEF Plain, Conditions, Rights, Loops
<1>3. Plain(a) /\ c.op \in Conditions /\ c.op \in Rights /\ c.op \notin Loops
  BY PlainVisits DEF Resume, Conditions, Rights, Loops
<1> HIDE DEF a, c
<1> QED  BY <1>1, <1>2, <1>3, StackCalls DEF StacksNow

(* It takes both off when the condition is done.                           *)
LEMMA StacksIfBranch ==
    ASSUME StacksNow, IfBranch
    PROVE  StacksNow'
<1> DEFINE a == Visit("stmt", Now.n.s)
           c == Resume("ifElse", Now.n, Now.bbs)
<1>1. /\ work # << >> /\ Now.op = "ifBranch" /\ Then(<<a, c>>) /\ loopStack' = loopStack
      /\ trueStack' = Front(trueStack) /\ falseStack' = Front(falseStack)
  BY DEF IfBranch, At
<1>2. TrueRest = Front(trueStack) /\ FalseRest = Front(falseStack) /\ LoopRest = loopStack
  BY <1>1 DEF TrueRest, FalseRest, LoopRest, Conditions, Rights, Loops
<1>3. Plain(a) /\ c.op \notin Conditions /\ c.op \notin Rights /\ c.op \notin Loops
  BY PlainVisits DEF Resume, Conditions, Rights, Loops
<1> HIDE DEF a, c
<1> QED  BY <1>1, <1>2, <1>3, StackCalls DEF StacksNow

(* A loop puts its targets on all three stacks.                            *)
LEMMA StacksWhile ==
    ASSUME StacksNow, VisitWhile
    PROVE  StacksNow'
<1> DEFINE bbs == <<count + 1, count + 2, count + 3>>
           a == Visit("lor", Now.n.c)
           c == Resume("whileBranch", Now.n, bbs)
<1>1. /\ work # << >> /\ Now.op = "stmt" /\ Then(<<a, c>>)
      /\ trueStack' = Append(trueStack, count + 2) /\ falseStack' = Append(falseStack, count + 3)
      /\ loopStack' = Append(loopStack, [trueBB |-> count + 1, falseBB |-> count + 3])
  BY DEF VisitWhile, AtStmt, At
<1>2. TrueRest = trueStack /\ FalseRest = falseStack /\ LoopRest = loopStack
  BY <1>1, RestOfPlain DEF Plain, Conditions, Rights, Loops
<1>3. /\ Plain(a) /\ c.op \in Conditions /\ c.op \in Rights /\ c.op \in Loops
      /\ LoopOf(c) = [trueBB |-> count + 1, falseBB |-> count + 3]
  BY PlainVisits DEF Resume, Conditions, Rights, Loops, LoopOf
<1> HIDE DEF a, c
<1> QED  BY <1>1, <1>2, <1>3, StackCalls DEF StacksNow

(* The visit of a loop keeps its entry on loop_stack for the body.         *)
LEMMA StacksWhileBranch ==
    ASSUME StacksNow, WhileBranch
    PROVE  StacksNow'
<1> DEFINE a == Visit("stmt", Now.n.s)
           c == Resume("whileEnd", Now.n, Now.bbs)
<1>1. /\ work # << >> /\ Now.op = "whileBranch" /\ Then(<<a, c>>) /\ loopStack' = loopStack
      /\ trueStack' = Front(trueStack) /\ falseStack' = Front(falseStack)
  BY DEF WhileBranch, At
<1>2. /\ TrueRest = Front(trueStack) /\ FalseRest = Front(falseStack)
      /\ LoopRest = Front(loopStack) /\ Now.op \in Loops
  BY <1>1 DEF TrueRest, FalseRest, LoopRest, Conditions, Rights, Loops
<1>3. /\ Plain(a) /\ c.op \notin Conditions /\ c.op \notin Rights /\ c.op \in Loops
      /\ LoopOf(c) = LoopOf(Now)
  BY PlainVisits DEF Resume, Conditions, Rights, Loops, LoopOf
<1> HIDE DEF a, c
<1>4. loopStack' = Append(LoopRest, LoopOf(c))
  <2>1. IsList(loopStack) /\ Len(loopStack) \in Nat \ {0} /\ Last(loopStack) = LoopOf(Now)
    BY <1>1, <1>2, Leaves DEF StacksNow
  <2> QED  BY <1>1, <1>2, <1>3, <2>1, PutBack
<1> QED  BY <1>1, <1>2, <1>3, <1>4, StackCalls DEF StacksNow

(* The loop takes its entry off at its end.                                *)
LEMMA StacksWhileEnd ==
    ASSUME StacksNow, WhileEnd
    PROVE  StacksNow'
<1>1. /\ work # << >> /\ Now.op = "whileEnd" /\ Then(<< >>) /\ loopStack' = Front(loopStack)
      /\ trueStack' = trueStack /\ falseStack' = falseStack
  BY DEF WhileEnd, At
<1>2. TrueRest = trueStack /\ FalseRest = falseStack /\ LoopRest = Front(loopStack)
  BY <1>1 DEF TrueRest, FalseRest, LoopRest, Conditions, Rights, Loops
<1> QED  BY <1>1, <1>2, StackEnds DEF StacksNow

(* || puts the block of its right side on false_stack.                     *)
LEMMA StacksLOr ==
    ASSUME StacksNow, VisitLOr
    PROVE  StacksNow'
<1>1. work # << >> /\ Now.op = "lor" /\ trueStack' = trueStack /\ loopStack' = loopStack
  BY DEF VisitLOr, At
<1>2. TrueRest = trueStack /\ FalseRest = falseStack /\ LoopRest = loopStack
  BY <1>1, RestOfPlain DEF Plain, Conditions, Rights, Loops
<1>3. CASE Len(Now.n) = 1
  <2>1. Then(<<Visit("land", Now.n[1])>>) /\ falseStack' = falseStack
    BY <1>3 DEF VisitLOr
  <2>2. Plain(Visit("land", Now.n[1]))
    BY PlainVisits
  <2> QED  BY <1>1, <1>2, <2>1, <2>2, StackEnds DEF StacksNow
<1>4. CASE Len(Now.n) # 1
  <2> DEFINE a == Visit("lor", Front(Now.n))
             c == Resume("lorRight", Last(Now.n), <<count + 1>>)
  <2>1. Then(<<a, c>>) /\ falseStack' = Append(falseStack, count + 1)
    BY <1>4 DEF VisitLOr
  <2>2. Plain(a) /\ c.op \notin Conditions /\ c.op \in Rights /\ c.op \notin Loops
    BY PlainVisits DEF Resume, Conditions, Rights, Loops
  <2> HIDE DEF a, c
  <2> QED  BY <1>1, <1>2, <2>1, <2>2, StackCalls DEF StacksNow
<1> QED  BY <1>3, <1>4

(* It takes it off before it visits the right side.                        *)
LEMMA StacksLOrRight ==
    ASSUME StacksNow, LOrRight
    PROVE  StacksNow'
<1>1. /\ work # << >> /\ Now.op = "lorRight" /\ Then(<<Visit("land", Now.n)>>)
      /\ trueStack' = trueStack /\ falseStack' = Front(falseStack) /\ loopStack' = loopStack
  BY DEF LOrRight, At
<1>2. TrueRest = trueStack /\ FalseRest = Front(falseStack) /\ LoopRest = loopStack
  BY <1>1 DEF TrueRest, FalseRest, LoopRest, Conditions, Rights, Loops
<1>3. Plain(Visit("land", Now.n))
  BY PlainVisits
<1> QED  BY <1>1, <1>2, <1>3, StackEnds DEF StacksNow

(* Every step keeps the stacks and the visits in step.                     *)
LEMMA StackInvStep == StackInv /\ [Next]_vars => StackInv'
<1> SUFFICES ASSUME StackInv, [Next]_vars PROVE StackInv'
  OBVIOUS
<1>1. StacksNow
  BY DEF StackInv, StacksNow
<1>2. StacksNow'
  <2>1. CASE PlainActions
    BY <1>1, <2>1, StacksPlain
  <2>2. CASE FinishFunction \/ Run \/ UNCHANGED vars
    <3>1. UNCHANGED <<work, stackVars>>
      BY <2>2 DEF FinishFunction, Run, RunUnfold, RunJump, RunAtom, RunExit, vars
    <3> QED  BY <1>1, <3>1 DEF StacksNow, stackVars
  <2> QED  BY <1>1, <2>1, <2>2, StacksIf, StacksIfBranch, StacksWhile, StacksWhileBranch,
              StacksWhileEnd, StacksLOr, StacksLOrRight
              DEF Next, Lower, PlainActions
<1>3. status' \in {"lower", "run", "exit"}
  BY DEF StackInv, Next, Lower, Run, VisitAct, VisitReturn, VisitBreak, VisitContinue,
         VisitBlock, NextItem, VisitIf, IfBranch, IfElse, IfMerge, VisitWhile, WhileBranch,
         WhileEnd, VisitLOr, LOrRight, VisitLAnd, LAndRight, FinishFunction, RunUnfold,
         RunJump, RunAtom, RunExit, vars
<1> QED  BY <1>2, <1>3 DEF StackInv, StacksNow

(* true_stack, false_stack and loop_stack hold the targets of the visits   *)
(* under way, for every function body: whoever takes the last entry of one *)
(* finds the one of the innermost condition or loop, and a stack is empty  *)
(* again when the function is done.                                        *)
THEOREM StacksFollowVisits == Spec => []StacksMatchVisits
<1>1. StackInv => StacksMatchVisits
  <2> SUFFICES ASSUME StackInv PROVE StacksMatchVisits
    OBVIOUS
  <2>1. StacksNow /\ IsList(work)
    BY DEF StackInv, StacksNow, Matches
  <2>2. DOMAIN work = 1 .. Len(work)
    BY <2>1, LenProperties DEF IsList
  <2>3. /\ Pending({"ifBranch", "whileBranch"}) = Cardinality(Marks(work, 1, Conditions))
        /\ Pending({"ifBranch", "whileBranch", "lorRight"}) =
              Cardinality(Marks(work, 1, Rights))
        /\ Pending({"whileBranch", "whileEnd"}) = Cardinality(Marks(work, 1, Loops))
    BY <2>2 DEF Pending, Marks, Conditions, Rights, Loops
  <2>4. \A w : IsLoop(w) <=> w.op \in Loops
    BY DEF IsLoop, Loops
  <2>5. \A i : LoopsAround(i) = Cardinality(Marks(work, i, Loops))
    BY DEF LoopsAround, Marks, IsLoop, Loops
  <2> QED  BY <2>1, <2>3, <2>4, <2>5 DEF StacksNow, Matches, StacksMatchVisits, LoopOf
<1> QED  BY <1>1, StackInvInit, StackInvStep, PTL DEF Spec

-----------------------------------------------------------------------------
(* The compiled function and the interpreter side by side.  A place l is a *)
(* block and the number of its next atom; X[l] is what may be left to do   *)
(* when the function gets there.  c, t and s are code, term and succs.     *)
Loc == BB \X (Nat \ {0})

Ripe(k) == IF k = << >> THEN TRUE ELSE Atomic(Head(k))

JumpAt(c, t, s, l) == l[2] > Len(c[l[1]]) /\ t[l[1]] = "br" /\ Len(s[l[1]]) = 1

Fits(c, t, s, l, k) ==
    IF k = << >> THEN l[2] > Len(c[l[1]]) /\ t[l[1]] = "ret"
    ELSE LET x == Head(k) IN
         /\ l[2] \in DOMAIN c[l[1]]
         /\ c[l[1]][l[2]] = IF x.k = "test" THEN x.c[1][1] ELSE x.id
         /\ x.k = "test" => l[2] = Len(c[l[1]]) /\ Len(s[l[1]]) = 2

Leads(X, l, k) == l \in Loc /\ k \in X[l]

After(k, v) == Decide(Head(k), v) \o Tail(k)

(* What is left to do once the function has taken the step it takes at l.  *)
Follows(s, X, l, k) ==
    /\ Head(k).k = "act" => Leads(X, <<l[1], l[2] + 1>>, Tail(k))
    /\ Head(k).k = "ret" => Leads(X, <<l[1], l[2] + 1>>, << >>)
    /\ Head(k).k = "test" =>
          \A v \in BOOLEAN : Leads(X, <<s[l[1]][IF v THEN 1 ELSE 2], 1>>, After(k, v))

(* The next step of the two from l and k leads to a pair of X again.       *)
Done(c, t, s, X, l, k) ==
    IF ~Ripe(k) THEN Unfold(k) \in X[l]
    ELSE IF JumpAt(c, t, s, l) THEN Leads(X, <<s[l[1]][1], 1>>, k)
    ELSE Fits(c, t, s, l, k) /\ (k # << >> => Follows(s, X, l, k))

(* The places L jump, one to the other, to the p-th atom of block o, where *)
(* k is to be done.                                                        *)
Waits(c, t, s, X, L, o, p, k) ==
    /\ L \subseteq Loc /\ <<o, p>> \in L
    /\ \A l \in L :
          k \in X[l] /\ (l = <<o, p>> \/ (JumpAt(c, t, s, l) /\ <<s[l[1]][1], 1>> \in L))

(* While the blocks O are open, the p[o]-th atom of each and what is to be *)
(* done there, q[o], are still to come: the places D[o] wait for them.     *)
Graph(c, t, s, O, p, q, X, D) ==
    /\ O \subseteq BB
    /\ \A o \in O : t[o] = "none" /\ s[o] = << >> /\ Waits(c, t, s, X, D[o], o, p[o], q[o])
    /\ \A l \in Loc : \A k \in X[l] :
          Done(c, t, s, X, l, k) \/ \E o \in O : l \in D[o] /\ k = q[o]

(* Something is added to block o and to no other.                          *)
Extends(c, t, s, c2, t2, s2, o) ==
    /\ t[o] = "none" /\ s[o] = << >>
    /\ \A b \in BB : b # o => c2[b] = c[b] /\ t2[b] = t[b] /\ s2[b] = s[b]
    /\ IsList(c[o]) /\ IsList(c2[o]) /\ Len(c[o]) <= Len(c2[o])
    /\ \A i \in 1 .. Len(c[o]) : c2[o][i] = c[o][i]

Grows(X, X2) == \A l \in Loc : X[l] \subseteq X2[l]

Add(X, L, k) == [l \in Loc |-> IF l \in L THEN X[l] \cup {k} ELSE X[l]]
With(q, b, k) == [a \in BB |-> IF a = b THEN k ELSE q[a]]

(* Where X leads a larger X leads, too.                                    *)
LEMMA LeadsOn ==
    ASSUME NEW X, NEW X2, Grows(X, X2), NEW l, NEW k, Leads(X, l, k)
    PROVE  Leads(X2, l, k)
BY DEF Leads, Grows

(* So does what follows a step.                                            *)
LEMMA FollowsOn ==
    ASSUME NEW X, NEW X2, Grows(X, X2), NEW s, NEW l, NEW k, Follows(s, X, l, k)
    PROVE  Follows(s, X2, l, k)
BY LeadsOn DEF Follows

(* The lengths of lists are numbers and their elements are 1 .. Len.       *)
LEMMA ListLen ==
    ASSUME NEW q, IsList(q)
    PROVE  Len(q) \in Nat /\ DOMAIN q = 1 .. Len(q)
BY LenProperties DEF IsList

(* What is settled stays so when an open block is extended.                *)
LEMMA DoneOn ==
    ASSUME NEW c, NEW t, NEW s, NEW c2, NEW t2, NEW s2, NEW o,
           Extends(c, t, s, c2, t2, s2, o), NEW X, NEW X2, Grows(X, X2),
           NEW l \in Loc, NEW k, Done(c, t, s, X, l, k)
    PROVE  Done(c2, t2, s2, X2, l, k)
<1>1. PICK b \in BB, n \in Nat \ {0} : l = <<b, n>>
  BY DEF Loc
<1>2. l[1] = b /\ l[2] = n
  BY <1>1
<1>3. CASE ~Ripe(k)
  BY <1>3 DEF Done, Grows
<1>4. CASE Ripe(k) /\ b # o
  <2>1. c2[b] = c[b] /\ t2[b] = t[b] /\ s2[b] = s[b]
    BY <1>4 DEF Extends
  <2>2. JumpAt(c2, t2, s2, l) = JumpAt(c, t, s, l) /\ Fits(c2, t2, s2, l, k) = Fits(c, t, s, l, k)
    BY <1>2, <2>1 DEF JumpAt, Fits
  <2>3. Follows(s, X, l, k) => Follows(s2, X2, l, k)
    <3>1. Follows(s2, X, l, k) = Follows(s, X, l, k)
      BY <1>2, <2>1 DEF Follows
    <3> QED  BY <3>1, FollowsOn
  <2>4. Leads(X, <<s[b][1], 1>>, k) => Leads(X2, <<s2[b][1], 1>>, k)
    BY <2>1, LeadsOn
  <2> QED  BY <1>2, <1>4, <2>2, <2>3, <2>4 DEF Done
<1>5. CASE Ripe(k) /\ b = o
  <2>1. /\ t[b] = "none" /\ s[b] = << >> /\ IsList(c[b]) /\ IsList(c2[b])
        /\ Len(c[b]) <= Len(c2[b]) /\ \A i \in 1 .. Len(c[b]) : c2[b][i] = c[b][i]
    BY <1>5 DEF Extends
  <2>2. ~JumpAt(c, t, s, l)
    BY <1>2, <2>1 DEF JumpAt
  <2>3. Fits(c, t, s, l, k) /\ (k # << >> => Follows(s, X, l, k))
    BY <1>5, <2>2 DEF Done
  <2>4. Len(s[b]) = 0
    BY <2>1
  <2>5. /\ k # << >> /\ Head(k).k # "test" /\ n \in DOMAIN c[b] /\ c[b][n] = Head(k).id
    BY <1>2, <2>1, <2>3, <2>4 DEF Fits
  <2>6. n \in 1 .. Len(c[b]) /\ n \in 1 .. Len(c2[b]) /\ DOMAIN c2[b] = 1 .. Len(c2[b])
    <3>1. /\ Len(c[b]) \in Nat /\ DOMAIN c[b] = 1 .. Len(c[b])
          /\ Len(c2[b]) \in Nat /\ DOMAIN c2[b] = 1 .. Len(c2[b])
      BY <2>1, ListLen
    <3> QED  BY <2>1, <2>5, <3>1
  <2>7. ~JumpAt(c2, t2, s2, l)
    <3>1. Len(c2[b]) \in Nat
      BY <2>1, ListLen
    <3> QED  BY <1>2, <2>6, <3>1 DEF JumpAt
  <2>8. Fits(c2, t2, s2, l, k)
    BY <1>2, <2>1, <2>5, <2>6 DEF Fits
  <2>9. Follows(s2, X2, l, k)
    BY <2>3, <2>5, LeadsOn DEF Follows
  <2> QED  BY <1>5, <2>7, <2>8, <2>9 DEF Done
<1> QED  BY <1>3, <1>4, <1>5

(* The other open blocks still wait.                                       *)
LEMMA WaitsOn ==
    ASSUME NEW c, NEW t, NEW s, NEW c2, NEW t2, NEW s2, NEW o,
           Extends(c, t, s, c2, t2, s2, o), NEW X, NEW X2, Grows(X, X2),
           NEW L, NEW u, NEW p, NEW k, Waits(c, t, s, X, L, u, p, k)
    PROVE  Waits(c2, t2, s2, X2, L, u, p, k)
<1>1. L \subseteq Loc /\ <<u, p>> \in L
  BY DEF Waits
<1>2. ASSUME NEW l \in L
      PROVE  k \in X2[l] /\ (l = <<u, p>> \/ (JumpAt(c2, t2, s2, l) /\ <<s2[l[1]][1], 1>> \in L))
  <2>1. l \in Loc /\ k \in X[l]
    BY <1>1 DEF Waits
  <2>2. k \in X2[l]
    BY <2>1 DEF Grows
  <2>3. CASE JumpAt(c, t, s, l) /\ <<s[l[1]][1], 1>> \in L
    <3>1. l[1] \in BB
      BY <2>1 DEF Loc
    <3>2. l[1] # o
      BY <2>3 DEF JumpAt, Extends
    <3>3. c2[l[1]] = c[l[1]] /\ t2[l[1]] = t[l[1]] /\ s2[l[1]] = s[l[1]]
      BY <3>1, <3>2 DEF Extends
    <3> QED  BY <2>2, <2>3, <3>3 DEF JumpAt
  <2> QED  BY <2>2, <2>3 DEF Waits
<1> QED  BY <1>1, <1>2 DEF Waits

(* Block o is extended so that what waited for it can go on.               *)
LEMMA Settles ==
    ASSUME NEW c, NEW t, NEW s, NEW c2, NEW t2, NEW s2, NEW O, NEW p, NEW q, NEW X, NEW D,
           Graph(c, t, s, O, p, q, X, D), NEW o \in O,
           Extends(c, t, s, c2, t2, s2, o), NEW X2, Grows(X, X2),
           Ripe(q[o]), Done(c2, t2, s2, X2, <<o, p[o]>>, q[o])
    PROVE  /\ \A l \in Loc : \A k \in X[l] :
                 Done(c2, t2, s2, X2, l, k) \/ \E u \in O \ {o} : l \in D[u] /\ k = q[u]
           /\ \A u \in O \ {o} :
                 /\ t2[u] = "none" /\ s2[u] = << >>
                 /\ Waits(c2, t2, s2, X2, D[u], u, p[u], q[u])
<1>1. ASSUME NEW l \in Loc, NEW k \in X[l]
      PROVE  Done(c2, t2, s2, X2, l, k) \/ \E u \in O \ {o} : l \in D[u] /\ k = q[u]
  <2>1. CASE Done(c, t, s, X, l, k)
    BY <2>1, DoneOn
  <2>2. CASE l \in D[o] /\ k = q[o]
    <3>1. Waits(c2, t2, s2, X2, D[o], o, p[o], q[o])
      BY WaitsOn DEF Graph
    <3>2. CASE l = <<o, p[o]>>
      BY <2>2, <3>2
    <3>3. CASE JumpAt(c2, t2, s2, l) /\ <<s2[l[1]][1], 1>> \in D[o]
      <4>1. Leads(X2, <<s2[l[1]][1], 1>>, q[o])
        BY <3>1, <3>3 DEF Waits, Leads
      <4> QED  BY <2>2, <3>3, <4>1 DEF Done
    <3> QED  BY <2>2, <3>1, <3>2, <3>3 DEF Waits
  <2> QED  BY <2>1, <2>2 DEF Graph
<1>2. ASSUME NEW u \in O \ {o}
      PROVE  /\ t2[u] = "none" /\ s2[u] = << >>
             /\ Waits(c2, t2, s2, X2, D[u], u, p[u], q[u])
  <2>1. u \in BB /\ t[u] = "none" /\ s[u] = << >> /\ Waits(c, t, s, X, D[u], u, p[u], q[u])
    BY DEF Graph
  <2>2. t2[u] = "none" /\ s2[u] = << >>
    BY <2>1 DEF Extends
  <2>3. Waits(c2, t2, s2, X2, D[u], u, p[u], q[u])
    BY <2>1, WaitsOn
  <2> QED  BY <2>2, <2>3
<1> QED  BY <1>1, <1>2

(* A set with one more thing to do at some places is larger, by no more.   *)
LEMMA Added ==
    ASSUME NEW X, NEW L, NEW k
    PROVE  /\ Grows(X, Add(X, L, k))
           /\ \A l \in Loc : l \in L => k \in Add(X, L, k)[l]
           /\ \A l \in Loc : \A j \in Add(X, L, k)[l] : j \in X[l] \/ (l \in L /\ j = k)
BY DEF Add, Grows

(* What is to be done at an open block is written otherwise.               *)
LEMMA Unfolds ==
    ASSUME NEW c, NEW t, NEW s, NEW O, NEW p, NEW q, NEW X, NEW D,
           Graph(c, t, s, O, p, q, X, D), NEW o \in O, ~Ripe(q[o])
    PROVE  Graph(c, t, s, O, p, With(q, o, Unfold(q[o])), Add(X, D[o], Unfold(q[o])), D)
<1> DEFINE k2 == Unfold(q[o])
           q2 == With(q, o, k2)
           X2 == Add(X, D[o], k2)
<1>1. /\ Grows(X, X2)
      /\ \A l \in Loc : l \in D[o] => k2 \in X2[l]
      /\ \A l \in Loc : \A j \in X2[l] : j \in X[l] \/ (l \in D[o] /\ j = k2)
  BY Added
<1>2. O \subseteq BB /\ q2[o] = k2 /\ \A u \in O : u # o => q2[u] = q[u]
  BY DEF With, Graph
<1> HIDE DEF X2, q2, k2
<1>3. \A u \in O : t[u] = "none" /\ s[u] = << >> /\ Waits(c, t, s, X, D[u], u, p[u], q[u])
  BY DEF Graph
<1>4. ASSUME NEW u \in O
      PROVE  Waits(c, t, s, X2, D[u], u, p[u], q2[u])
  <2>1. Waits(c, t, s, X, D[u], u, p[u], q[u])
    BY <1>3
  <2>2. \A l \in D[u] : q2[u] \in X2[l]
    BY <1>1, <1>2, <2>1 DEF Waits, Grows
  <2> QED  BY <2>1, <2>2 DEF Waits
<1>5. ASSUME NEW l \in Loc, NEW k \in X2[l]
      PROVE  Done(c, t, s, X2, l, k) \/ \E u \in O : l \in D[u] /\ k = q2[u]
  <2>1. CASE l \in D[o] /\ k = k2
    BY <1>2, <2>1
  <2>2. CASE k \in X[l] /\ Done(c, t, s, X, l, k)
    <3>1. CASE ~Ripe(k)
      BY <1>1, <2>2, <3>1 DEF Done, Grows
    <3>2. CASE Ripe(k)
      BY <1>1, <2>2, <3>2, LeadsOn, FollowsOn DEF Done
    <3> QED  BY <3>1, <3>2
  <2>3. CASE \E u \in O : l \in D[u] /\ k = q[u]
    <3>1. PICK u \in O : l \in D[u] /\ k = q[u]
      BY <2>3
    <3>2. CASE u # o
      BY <1>2, <3>1, <3>2
    <3>3. CASE u = o
      <4>1. ~Ripe(k) /\ Unfold(k) \in X2[l]
        BY <1>1, <3>1, <3>3 DEF k2
      <4> QED  BY <4>1 DEF Done
    <3> QED  BY <3>2, <3>3
  <2> QED  BY <1>1, <2>1, <2>2, <2>3 DEF Graph
<1>6. Graph(c, t, s, O, p, q2, X2, D)
  BY <1>2, <1>3, <1>4, <1>5 DEF Graph
<1> QED  BY <1>6 DEF X2, q2, k2

(* An open block gets its terminator.                                      *)
LEMMA Closes ==
    ASSUME NEW c, NEW t, NEW s, NEW c2, NEW t2, NEW s2, NEW O, NEW p, NEW q, NEW X, NEW D,
           Graph(c, t, s, O, p, q, X, D), NEW o \in O,
           Extends(c, t, s, c2, t2, s2, o),
           Ripe(q[o]), Done(c2, t2, s2, X, <<o, p[o]>>, q[o])
    PROVE  Graph(c2, t2, s2, O \ {o}, p, q, X, D)
<1>1. Grows(X, X) /\ O \ {o} \subseteq BB
  BY DEF Grows, Graph
<1>2. /\ \A l \in Loc : \A k \in X[l] :
            Done(c2, t2, s2, X, l, k) \/ \E u \in O \ {o} : l \in D[u] /\ k = q[u]
      /\ \A u \in O \ {o} :
            /\ t2[u] = "none" /\ s2[u] = << >>
            /\ Waits(c2, t2, s2, X, D[u], u, p[u], q[u])
  BY <1>1, Settles
<1> QED  BY <1>1, <1>2 DEF Graph

(* It jumps to a block that is still open.                                 *)
LEMMA Joins ==
    ASSUME NEW c, NEW t, NEW s, NEW c2, NEW t2, NEW s2, NEW O, NEW p, NEW q, NEW X, NEW D,
           Graph(c, t, s, O, p, q, X, D), NEW o \in O,
           Extends(c, t, s, c2, t2, s2, o),
           NEW u \in O, u # o, q[u] = q[o], p[u] = 1,
           JumpAt(c2, t2, s2, <<o, p[o]>>), s2[o][1] = u
    PROVE  Graph(c2, t2, s2, O \ {o}, p, q, X, With(D, u, D[u] \cup D[o]))
<1> DEFINE D2 == With(D, u, D[u] \cup D[o])
<1>1. /\ O \subseteq BB /\ D2[u] = D[u] \cup D[o] /\ \A b \in O : b # u => D2[b] = D[b]
      /\ Grows(X, X)
  BY DEF With, Graph, Grows
<1> HIDE DEF D2
<1>2. \A b \in O : Waits(c2, t2, s2, X, D[b], b, p[b], q[b])
  <2>1. \A b \in O : Waits(c, t, s, X, D[b], b, p[b], q[b])
    BY DEF Graph
  <2> QED  BY <1>1, <2>1, WaitsOn
<1>3. ASSUME NEW b \in O \ {o}
      PROVE  t2[b] = "none" /\ s2[b] = << >> /\ Waits(c2, t2, s2, X, D2[b], b, p[b], q[b])
  <2>1. t2[b] = "none" /\ s2[b] = << >>
    BY DEF Graph, Extends
  <2>2. CASE b # u
    BY <1>1, <1>2, <2>1, <2>2
  <2>3. CASE b = u
    <3>1. /\ Waits(c2, t2, s2, X, D[u], u, p[u], q[u])
          /\ Waits(c2, t2, s2, X, D[o], o, p[o], q[o])
      BY <1>2
    <3>2. <<u, 1>> \in D[u]
      BY <3>1 DEF Waits
    <3>3. D2[u] \subseteq Loc /\ <<u, p[u]>> \in D2[u]
      BY <1>1, <3>1 DEF Waits
    <3>4. ASSUME NEW l \in D2[u]
          PROVE  /\ q[u] \in X[l]
                 /\ l = <<u, p[u]>> \/ (JumpAt(c2, t2, s2, l) /\ <<s2[l[1]][1], 1>> \in D2[u])
      <4>1. CASE l \in D[u]
        BY <1>1, <3>1, <4>1 DEF Waits
      <4>2. CASE l \in D[o]
        <5>1. q[u] \in X[l]
          BY <3>1, <4>2 DEF Waits
        <5>2. CASE l = <<o, p[o]>>
          BY <1>1, <3>2, <5>1, <5>2
        <5>3. CASE l # <<o, p[o]>>
          BY <1>1, <3>1, <4>2, <5>1, <5>3 DEF Waits
        <5> QED  BY <5>2, <5>3
      <4> QED  BY <1>1, <4>1, <4>2
    <3> QED  BY <2>1, <2>3, <3>3, <3>4 DEF Waits
  <2> QED  BY <2>2, <2>3
<1>4. ASSUME NEW l \in Loc, NEW k \in X[l]
      PROVE  Done(c2, t2, s2, X, l, k) \/ \E b \in O \ {o} : l \in D2[b] /\ k = q[b]
  <2>1. CASE Done(c, t, s, X, l, k)
    BY <1>1, <2>1, DoneOn
  <2>2. CASE \E b \in O : l \in D[b] /\ k = q[b]
    <3>1. PICK b \in O : l \in D[b] /\ k = q[b]
      BY <2>2
    <3>2. CASE b = o \/ b = u
      BY <1>1, <3>1, <3>2
    <3>3. CASE b # o /\ b # u
      BY <1>1, <3>1, <3>3
    <3> QED  BY <3>2, <3>3
  <2> QED  BY <2>1, <2>2 DEF Graph
<1>5. Graph(c2, t2, s2, O \ {o}, p, q, X, D2)
  BY <1>1, <1>3, <1>4 DEF Graph
<1> QED  BY <1>5 DEF D2

(* An atom is added, and the next one of the block is to come.             *)
LEMMA Acts ==
    ASSUME NEW c, NEW t, NEW s, NEW c2, NEW O, NEW p, NEW q, NEW X, NEW D,
           Graph(c, t, s, O, p, q, X, D), NEW o \in O,
           Extends(c, t, s, c2, t, s, o),
           p[o] = Len(c[o]) + 1, Len(c2[o]) = Len(c[o]) + 1,
           q[o] # << >>, Head(q[o]).k = "act", c2[o][p[o]] = Head(q[o]).id
    PROVE  Graph(c2, t, s, O, With(p, o, p[o] + 1), With(q, o, Tail(q[o])),
                 Add(X, {<<o, p[o] + 1>>}, Tail(q[o])), With(D, o, {<<o, p[o] + 1>>}))
<1> DEFINE n == p[o] + 1
           k2 == Tail(q[o])
           p2 == With(p, o, n)
           q2 == With(q, o, k2)
           D2 == With(D, o, {<<o, n>>})
           X2 == Add(X, {<<o, n>>}, k2)
<1>1. /\ Grows(X, X2)
      /\ \A l \in Loc : l \in {<<o, n>>} => k2 \in X2[l]
      /\ \A l \in Loc : \A j \in X2[l] : j \in X[l] \/ (l \in {<<o, n>>} /\ j = k2)
  BY DEF Add, Grows
<1>2. /\ O \subseteq BB /\ o \in BB /\ q2[o] = k2 /\ p2[o] = n /\ D2[o] = {<<o, n>>}
      /\ \A u \in O : u # o => q2[u] = q[u] /\ p2[u] = p[u] /\ D2[u] = D[u]
  BY DEF With, Graph
<1> HIDE DEF X2, q2, p2, D2
<1>3. /\ Len(c[o]) \in Nat /\ DOMAIN c2[o] = 1 .. Len(c[o]) + 1
      /\ p[o] \in 1 .. Len(c[o]) + 1 /\ n \in Nat \ {0}
  <2>1. IsList(c[o]) /\ IsList(c2[o])
    BY DEF Extends
  <2>2. Len(c[o]) \in Nat /\ DOMAIN c2[o] = 1 .. Len(c[o]) + 1
    BY <2>1, ListLen
  <2> QED  BY <2>2
<1>4. <<o, n>> \in Loc /\ <<o, p[o]>> \in Loc
  BY <1>2, <1>3 DEF Loc
<1>5. Ripe(q[o])
  BY DEF Ripe, Atomic
<1>6. Done(c2, t, s, X2, <<o, p[o]>>, q[o])
  <2>1. ~JumpAt(c2, t, s, <<o, p[o]>>)
    BY DEF JumpAt, Extends
  <2>2. Fits(c2, t, s, <<o, p[o]>>, q[o])
    BY <1>3 DEF Fits
  <2>3. Leads(X2, <<o, n>>, k2)
    BY <1>1, <1>4 DEF Leads
  <2>4. Follows(s, X2, <<o, p[o]>>, q[o])
    BY <2>3 DEF Follows
  <2> QED  BY <1>5, <2>1, <2>2, <2>4 DEF Done
<1>7. /\ \A l \in Loc : \A k \in X[l] :
            Done(c2, t, s, X2, l, k) \/ \E u \in O \ {o} : l \in D[u] /\ k = q[u]
      /\ \A u \in O \ {o} :
            /\ t[u] = "none" /\ s[u] = << >>
            /\ Waits(c2, t, s, X2, D[u], u, p[u], q[u])
  BY <1>1, <1>5, <1>6, Settles
<1>8. ASSUME NEW l \in Loc, NEW k \in X2[l]
      PROVE  Done(c2, t, s, X2, l, k) \/ \E u \in O : l \in D2[u] /\ k = q2[u]
  <2>1. CASE l = <<o, n>> /\ k = k2
    BY <1>2, <2>1
  <2>2. CASE k \in X[l]
    <3>1. Done(c2, t, s, X2, l, k) \/ \E u \in O \ {o} : l \in D[u] /\ k = q[u]
      BY <1>7, <2>2
    <3> QED  BY <1>2, <3>1
  <2> QED  BY <1>1, <2>1, <2>2
<1>9. Waits(c2, t, s, X2, D2[o], o, p2[o], q2[o])
  BY <1>1, <1>2, <1>4 DEF Waits
<1>10. \A u \in O : t[u] = "none" /\ s[u] = << >> /\ Waits(c2, t, s, X2, D2[u], u, p2[u], q2[u])
  <2>1. t[o] = "none" /\ s[o] = << >>
    BY DEF Extends
  <2> QED  BY <1>2, <1>7, <1>9, <2>1
<1>11. Graph(c2, t, s, O, p2, q2, X2, D2)
  BY <1>2, <1>8, <1>10 DEF Graph
<1> QED  BY <1>11 DEF p2, q2, X2, D2

(* The value returned is added, and nothing is left to do.                 *)
LEMMA Returns ==
    ASSUME NEW c, NEW t, NEW s, NEW c2, NEW t2, NEW s2, NEW O, NEW p, NEW q, NEW X, NEW D,
           Graph(c, t, s, O, p, q, X, D), NEW o \in O,
           Extends(c, t, s, c2, t2, s2, o), t2[o] = "ret",
           p[o] = Len(c[o]) + 1, Len(c2[o]) = Len(c[o]) + 1,
           q[o] # << >>, Head(q[o]).k = "ret", c2[o][p[o]] = Head(q[o]).id
    PROVE  Graph(c2, t2, s2, O \ {o}, p, q, Add(X, {<<o, p[o] + 1>>}, << >>), D)
<1> DEFINE n == p[o] + 1
           X2 == Add(X, {<<o, n>>}, << >>)
<1>1. /\ Grows(X, X2)
      /\ \A l \in Loc : l \in {<<o, n>>} => << >> \in X2[l]
      /\ \A l \in Loc : \A j \in X2[l] : j \in X[l] \/ (l \in {<<o, n>>} /\ j = << >>)
  BY Added
<1>2. O \subseteq BB /\ o \in BB
  BY DEF Graph
<1> HIDE DEF X2
<1>3. /\ Len(c[o]) \in Nat /\ DOMAIN c2[o] = 1 .. Len(c[o]) + 1
      /\ p[o] \in 1 .. Len(c[o]) + 1 /\ n \in Nat \ {0} /\ n > Len(c2[o])
  <2>1. IsList(c[o]) /\ IsList(c2[o])
    BY DEF Extends
  <2>2. Len(c[o]) \in Nat /\ DOMAIN c2[o] = 1 .. Len(c[o]) + 1
    BY <2>1, ListLen
  <2> QED  BY <2>2
<1>4. <<o, n>> \in Loc
  BY <1>2, <1>3 DEF Loc
<1>5. Ripe(q[o])
  BY DEF Ripe, Atomic
<1>6. Done(c2, t2, s2, X2, <<o, p[o]>>, q[o])
  <2>1. ~JumpAt(c2, t2, s2, <<o, p[o]>>)
    BY DEF JumpAt
  <2>2. Fits(c2, t2, s2, <<o, p[o]>>, q[o])
    BY <1>3 DEF Fits
  <2>3. Leads(X2, <<o, n>>, << >>)
    BY <1>1, <1>4 DEF Leads
  <2>4. Follows(s2, X2, <<o, p[o]>>, q[o])
    BY <2>3 DEF Follows
  <2> QED  BY <1>5, <2>1, <2>2, <2>4 DEF Done
<1>7. Done(c2, t2, s2, X2, <<o, n>>, << >>)
  <2>1. ~JumpAt(c2, t2, s2, <<o, n>>)
    BY DEF JumpAt
  <2>2. Fits(c2, t2, s2, <<o, n>>, << >>)
    BY <1>3 DEF Fits
  <2> QED  BY <2>1, <2>2 DEF Done, Ripe
<1>8. /\ \A l \in Loc : \A k \in X[l] :
            Done(c2, t2, s2, X2, l, k) \/ \E u \in O \ {o} : l \in D[u] /\ k = q[u]
      /\ \A u \in O \ {o} :
            /\ t2[u] = "none" /\ s2[u] = << >>
            /\ Waits(c2, t2, s2, X2, D[u], u, p[u], q[u])
  BY <1>1, <1>5, <1>6, Settles
<1>9. \A l \in Loc : \A k \in X2[l] :
         Done(c2, t2, s2, X2, l, k) \/ \E u \in O \ {o} : l \in D[u] /\ k = q[u]
  BY <1>1, <1>7, <1>8
<1>10. Graph(c2, t2, s2, O \ {o}, p, q, X2, D)
  BY <1>2, <1>8, <1>9 DEF Graph
<1> QED  BY <1>10 DEF X2

(* The atom of a condition is added, its branch is to come.                *)
LEMMA Tried ==
    ASSUME NEW c, NEW t, NEW s, NEW c2, NEW O, NEW p, NEW q, NEW X, NEW D,
           Graph(c, t, s, O, p, q, X, D), NEW o \in O,
           Extends(c, t, s, c2, t, s, o)
    PROVE  Graph(c2, t, s, O, p, q, X, D)
<1>1. Grows(X, X) /\ O \subseteq BB
  BY DEF Grows, Graph
<1>2. ASSUME NEW u \in O
      PROVE  t[u] = "none" /\ s[u] = << >> /\ Waits(c2, t, s, X, D[u], u, p[u], q[u])
  <2>1. t[u] = "none" /\ s[u] = << >> /\ Waits(c, t, s, X, D[u], u, p[u], q[u])
    BY DEF Graph
  <2> QED  BY <1>1, <2>1, WaitsOn
<1>3. ASSUME NEW l \in Loc, NEW k \in X[l]
      PROVE  Done(c2, t, s, X, l, k) \/ \E u \in O : l \in D[u] /\ k = q[u]
  <2>1. CASE Done(c, t, s, X, l, k)
    BY <1>1, <2>1, DoneOn
  <2> QED  BY <2>1 DEF Graph
<1> QED  BY <1>1, <1>2, <1>3 DEF Graph

(* A block is made.                                                        *)
LEMMA Opens ==
    ASSUME NEW c, NEW t, NEW s, NEW O, NEW p, NEW q, NEW X, NEW D,
           Graph(c, t, s, O, p, q, X, D), NEW b \in BB, b \notin O, NEW k2,
           t[b] = "none", s[b] = << >>
    PROVE  Graph(c, t, s, O \cup {b}, With(p, b, 1), With(q, b, k2),
                 Add(X, {<<b, 1>>}, k2), With(D, b, {<<b, 1>>}))
<1> DEFINE p2 == With(p, b, 1)
           q2 == With(q, b, k2)
           D2 == With(D, b, {<<b, 1>>})
           X2 == Add(X, {<<b, 1>>}, k2)
<1>1. /\ Grows(X, X2)
      /\ \A l \in Loc : l \in {<<b, 1>>} => k2 \in X2[l]
      /\ \A l \in Loc : \A j \in X2[l] : j \in X[l] \/ (l \in {<<b, 1>>} /\ j = k2)
  BY Added
<1>2. /\ O \subseteq BB /\ q2[b] = k2 /\ p2[b] = 1 /\ D2[b] = {<<b, 1>>}
      /\ \A u \in O : u # b /\ q2[u] = q[u] /\ p2[u] = p[u] /\ D2[u] = D[u]
  BY DEF With, Graph
<1>3. <<b, 1>> \in Loc
  BY DEF Loc
<1> HIDE DEF X2, q2, p2, D2
<1>4. Waits(c, t, s, X2, D2[b], b, p2[b], q2[b])
  BY <1>1, <1>2, <1>3 DEF Waits
<1>5. ASSUME NEW u \in O
      PROVE  t[u] = "none" /\ s[u] = << >> /\ Waits(c, t, s, X2, D2[u], u, p2[u], q2[u])
  <2>1. t[u] = "none" /\ s[u] = << >> /\ Waits(c, t, s, X, D[u], u, p[u], q[u])
    BY DEF Graph
  <2>2. Waits(c, t, s, X2, D[u], u, p[u], q[u])
    BY <1>1, <2>1 DEF Waits, Grows
  <2> QED  BY <1>2, <2>1, <2>2
<1>6. ASSUME NEW l \in Loc, NEW k \in X2[l]
      PROVE  Done(c, t, s, X2, l, k) \/ \E u \in O \cup {b} : l \in D2[u] /\ k = q2[u]
  <2>1. CASE l = <<b, 1>> /\ k = k2
    BY <1>2, <2>1
  <2>2. CASE k \in X[l] /\ Done(c, t, s, X, l, k)
    <3>1. CASE ~Ripe(k)
      BY <1>1, <2>2, <3>1 DEF Done, Grows
    <3>2. CASE Ripe(k)
      BY <1>1, <2>2, <3>2, LeadsOn, FollowsOn DEF Done
    <3> QED  BY <3>1, <3>2
  <2>3. CASE \E u \in O : l \in D[u] /\ k = q[u]
    BY <1>2, <2>3
  <2> QED  BY <1>1, <2>1, <2>2, <2>3 DEF Graph
<1>7. Graph(c, t, s, O \cup {b}, p2, q2, X2, D2)
  BY <1>2, <1>4, <1>5, <1>6 DEF Graph
<1> QED  BY <1>7 DEF p2, q2, X2, D2

(* Only the open blocks count.                                             *)
LEMMA SameGraph ==
    ASSUME NEW c, NEW t, NEW s, NEW O, NEW p, NEW q, NEW p2, NEW q2, NEW X, NEW D,
           Graph(c, t, s, O, p, q, X, D), \A o \in O : p2[o] = p[o] /\ q2[o] = q[o]
    PROVE  Graph(c, t, s, O, p2, q2, X, D)
BY DEF Graph

-----------------------------------------------------------------------------
(* Lists put together.                                                     *)
LEMMA Cat ==
    ASSUME NEW a, IsList(a), NEW b, IsList(b)
    PROVE  /\ IsList(a \o b) /\ Len(a \o b) = Len(a) + Len(b)
           /\ \A i \in 1 .. Len(a) + Len(b) :
                 (a \o b)[i] = IF i <= Len(a) THEN a[i] ELSE b[i - Len(a)]
<1>1. PICK S : a \in Seq(S)
  BY DEF IsList
<1>2. PICK T : b \in Seq(T)
  BY DEF IsList
<1>3. a \in Seq(S \cup T) /\ b \in Seq(S \cup T)
  BY <1>1, <1>2, SeqMonotonic
<1> QED  BY <1>3, ConcatProperties DEF IsList

(* Nothing comes before or behind.                                         *)
LEMMA CatNone ==
    ASSUME NEW a, IsList(a)
    PROVE  << >> \o a = a /\ a \o << >> = a /\ IsList(<< >>)
<1>1. PICK S : a \in Seq(S)
  BY DEF IsList
<1> QED  BY <1>1, ConcatEmptySeq, EmptySeq DEF IsList

(* Lists can be put together in any order.                                 *)
LEMMA CatAssoc ==
    ASSUME NEW a, IsList(a), NEW b, IsList(b), NEW d, IsList(d)
    PROVE  (a \o b) \o d = a \o (b \o d)
<1>1. PICK S : a \in Seq(S)
  BY DEF IsList
<1>2. PICK T : b \in Seq(T)
  BY DEF IsList
<1>3. PICK U : d \in Seq(U)
  BY DEF IsList
<1> DEFINE V == (S \cup T) \cup U
<1>4. a \in Seq(V) /\ b \in Seq(V) /\ d \in Seq(V)
  BY <1>1, <1>2, <1>3, SeqMonotonic
<1> QED  BY <1>4, ConcatAssociative

(* A list of one element.                                                  *)
LEMMA OneList ==
    ASSUME NEW x
    PROVE  IsList(<<x>>) /\ Len(<<x>>) = 1 /\ <<x>>[1] = x /\ <<x>> # << >>
<1>1. <<x>> \in Seq({x})
  OBVIOUS
<1> QED  BY <1>1 DEF IsList

(* What comes before a list.                                               *)
LEMMA Before ==
    ASSUME NEW x, NEW r, IsList(r)
    PROVE  /\ IsList(<<x>> \o r) /\ <<x>> \o r # << >>
           /\ Head(<<x>> \o r) = x /\ Tail(<<x>> \o r) = r
<1> DEFINE q == <<x>> \o r
<1>1. /\ IsList(q) /\ Len(r) \in Nat /\ Len(q) = Len(r) + 1
      /\ q[1] = x /\ \A j \in 1 .. Len(r) : q[j + 1] = r[j]
  <2>1. IsCons(q, x, r)
    BY DEF IsCons
  <2> QED  BY <2>1, Consed
<1> HIDE DEF q
<1>2. PICK S : q \in Seq(S)
  BY <1>1 DEF IsList
<1>3. PICK T : r \in Seq(T)
  BY DEF IsList
<1>4. q # << >>
  BY <1>1, EmptySeq
<1>5. /\ Head(q) = q[1] /\ Tail(q) \in Seq(S) /\ Len(Tail(q)) = Len(q) - 1
      /\ \A i \in 1 .. Len(Tail(q)) : Tail(q)[i] = q[i + 1]
  BY <1>2, <1>4, HeadTailProperties
<1>6. Len(Tail(q)) = Len(r) /\ \A i \in 1 .. Len(Tail(q)) : Tail(q)[i] = r[i]
  BY <1>1, <1>5
<1>7. Tail(q) \in Seq(S \cup T) /\ r \in Seq(S \cup T)
  BY <1>3, <1>5, SeqMonotonic
<1>8. Tail(q) = r
  BY <1>6, <1>7, SeqEqual
<1> QED  BY <1>1, <1>4, <1>5, <1>8 DEF q

(* The loop around: what is left to do, k, comes to the end of a loop body *)
(* with `back` to do.                                                      *)
Again(w) == [k |-> "again", w |-> w]
Reaches(k, w, r) ==
    \E a : /\ IsList(a) /\ IsList(r) /\ k = a \o (<<Again(w)>> \o r)
           /\ \A i \in 1 .. Len(a) : a[i].k # "again"

(* The end of the loop body is then what break and continue look for.      *)
LEMMA LoopAround ==
    ASSUME NEW k, NEW w, NEW r, Reaches(k, w, r)
    PROVE  FromAgain(k) = <<Again(w)>> \o r
<1>1. PICK a : /\ IsList(a) /\ IsList(r) /\ k = a \o (<<Again(w)>> \o r)
               /\ \A i \in 1 .. Len(a) : a[i].k # "again"
  BY DEF Reaches
<1> DEFINE b == <<Again(w)>> \o r
           n == Len(a)
           m == Len(b)
<1>2. IsList(b) /\ m \in Nat \ {0} /\ n \in Nat /\ b[1].k = "again"
  <2>1. /\ IsList(b) /\ Len(r) \in Nat /\ Len(b) = Len(r) + 1 /\ b[1] = Again(w)
    <3>1. IsCons(b, Again(w), r)
      BY <1>1 DEF IsCons
    <3> QED  BY <3>1, Consed
  <2>2. n \in Nat
    BY <1>1, ListLen
  <2> QED  BY <2>1, <2>2 DEF Again
<1>3. /\ IsList(k) /\ Len(k) = n + m
      /\ \A i \in 1 .. n + m : k[i] = IF i <= n THEN a[i] ELSE b[i - n]
  BY <1>1, <1>2, Cat
<1> HIDE DEF b, n, m
<1>4. n + 1 \in 1 .. Len(k) /\ k[n + 1].k = "again" /\ \A i \in 1 .. n : k[i].k # "again"
  <2>1. n + 1 \in 1 .. n + m /\ ~(n + 1 <= n) /\ (n + 1) - n = 1
    BY <1>2
  <2>2. k[n + 1].k = "again"
    BY <1>2, <1>3, <2>1
  <2>3. ASSUME NEW i \in 1 .. n
        PROVE  k[i].k # "again"
    <3>1. i \in 1 .. n + m /\ i <= n
      BY <1>2
    <3>2. i \in 1 .. Len(a)
      BY DEF n
    <3> QED  BY <1>1, <1>3, <3>1, <3>2
  <2> QED  BY <1>3, <2>1, <2>2, <2>3
<1>5. SelectInSeq(k, LAMBDA x : x.k = "again") = n + 1
  <2> DEFINE I == {i \in 1 .. Len(k) : k[i].k = "again"}
  <2>1. n + 1 \in I /\ \A i \in I : n + 1 <= i
    BY <1>2, <1>3, <1>4
  <2>2. SelectInSeq(k, LAMBDA x : x.k = "again") = IF I # {} THEN Min(I) ELSE 0
    BY DEF SelectInSeq
  <2>3. I \subseteq Nat
    BY <1>2, <1>3
  <2> HIDE DEF I
  <2>4. \A i \in I : (\A j \in I : i <= j) => i = n + 1
    BY <1>2, <2>1, <2>3
  <2>5. Min(I) = n + 1
    BY <2>1, <2>4 DEF Min
  <2> QED  BY <2>1, <2>2, <2>5
<1>6. FromAgain(k) = SubSeq(k, n + 1, n + m)
  BY <1>3, <1>5 DEF FromAgain
<1>7. PICK S : k \in Seq(S)
  BY <1>3 DEF IsList
<1>8. PICK T : b \in Seq(T)
  BY <1>2 DEF IsList
<1> DEFINE d == SubSeq(k, n + 1, n + m)
<1>9. /\ d \in Seq(S) /\ Len(d) = m
      /\ \A i \in 1 .. m : d[i] = k[(n + 1) + i - 1]
  <2>1. \A i \in n + 1 .. n + m : k[i] \in S
    <3>1. \A i \in n + 1 .. n + m : i \in 1 .. Len(k)
      BY <1>2, <1>3
    <3> QED  BY <1>7, <3>1, ElementOfSeq
  <2>2. /\ n + 1 \in Int /\ n + m \in Int /\ n + 1 <= n + m /\ (n + m) - (n + 1) + 1 = m
    BY <1>2
  <2>3. /\ d \in Seq(S)
        /\ Len(d) = IF n + 1 <= n + m THEN (n + m) - (n + 1) + 1 ELSE 0
        /\ \A i \in 1 .. (n + m) - (n + 1) + 1 : d[i] = k[(n + 1) + i - 1]
    BY <2>1, <2>2, SubSeqProperties
  <2> QED  BY <2>2, <2>3
<1>10. \A i \in 1 .. m : d[i] = b[i]
  <2> SUFFICES ASSUME NEW i \in 1 .. m PROVE d[i] = b[i]
    OBVIOUS
  <2>1. /\ (n + 1) + i - 1 = n + i /\ n + i \in 1 .. n + m /\ ~(n + i <= n) /\ (n + i) - n = i
    BY <1>2
  <2>2. k[n + i] = b[i]
    BY <1>3, <2>1
  <2> QED  BY <1>9, <2>1, <2>2
<1> HIDE DEF d
<1>11. d \in Seq(S \cup T) /\ b \in Seq(S \cup T) /\ Len(d) = Len(b)
  BY <1>8, <1>9, SeqMonotonic DEF m
<1>12. d = b
  BY <1>9, <1>10, <1>11, SeqEqual
<1> QED  BY <1>6, <1>12 DEF d, b

(* A list without the mark comes before.                                   *)
LEMMA ReachesOn ==
    ASSUME NEW k, NEW w, NEW r, Reaches(k, w, r), NEW a, IsList(a),
           \A i \in 1 .. Len(a) : a[i].k # "again"
    PROVE  Reaches(a \o k, w, r)
<1>1. PICK b : /\ IsList(b) /\ IsList(r) /\ k = b \o (<<Again(w)>> \o r)
               /\ \A i \in 1 .. Len(b) : b[i].k # "again"
  BY DEF Reaches
<1>2. IsList(<<Again(w)>> \o r)
  BY <1>1, Before
<1>3. a \o k = (a \o b) \o (<<Again(w)>> \o r)
  BY <1>1, <1>2, CatAssoc
<1>4. /\ IsList(a \o b) /\ Len(a \o b) = Len(a) + Len(b)
      /\ \A i \in 1 .. Len(a) + Len(b) : (a \o b)[i] = IF i <= Len(a) THEN a[i] ELSE b[i - Len(a)]
  BY <1>1, Cat
<1>5. \A i \in 1 .. Len(a \o b) : (a \o b)[i].k # "again"
  <2>1. Len(a) \in Nat /\ Len(b) \in Nat
    BY <1>1, ListLen
  <2> SUFFICES ASSUME NEW i \in 1 .. Len(a) + Len(b) PROVE (a \o b)[i].k # "again"
    BY <1>4
  <2>2. CASE i <= Len(a)
    <3>1. i \in 1 .. Len(a)
      BY <2>1, <2>2
    <3> QED  BY <1>4, <2>2, <3>1
  <2>3. CASE ~(i <= Len(a))
    <3>1. i - Len(a) \in 1 .. Len(b)
      BY <2>1, <2>3
    <3> QED  BY <1>1, <1>4, <2>3, <3>1
  <2> QED  BY <2>2, <2>3
<1> QED  BY <1>1, <1>3, <1>4, <1>5 DEF Reaches

(* What the interpreter makes of the first thing to do.                    *)
LEMMA Unfolding ==
    ASSUME NEW x, NEW r, IsList(r)
    PROVE  /\ Ripe(<<x>> \o r) <=> x.k \in {"act", "ret", "test"}
           /\ x.k = "block" => Unfold(<<x>> \o r) = x.items \o r
           /\ x.k = "none" => Unfold(<<x>> \o r) = r
           /\ x.k = "if" => Unfold(<<x>> \o r) = <<Test(x.c, <<x.s>>, <<x.e>>)>> \o r
           /\ x.k = "while" => Unfold(<<x>> \o r) = <<TestLoop(x)>> \o r
           /\ x.k = "again" => Unfold(<<x>> \o r) = <<TestLoop(x.w)>> \o r
           /\ x.k = "cnt" => Unfold(<<x>> \o r) = FromAgain(<<x>> \o r)
           /\ x.k = "brk" => Unfold(<<x>> \o r) = Tail(FromAgain(<<x>> \o r))
<1> DEFINE q == <<x>> \o r
<1>1. q # << >> /\ Head(q) = x /\ Tail(q) = r
  BY Before
<1> HIDE DEF q
<1>2. Ripe(q) <=> x.k \in {"act", "ret", "test"}
  BY <1>1 DEF Ripe, Atomic
<1>3. /\ x.k = "block" => Unfold(q) = x.items \o r
      /\ x.k = "none" => Unfold(q) = r
      /\ x.k = "if" => Unfold(q) = <<Test(x.c, <<x.s>>, <<x.e>>)>> \o r
      /\ x.k = "while" => Unfold(q) = <<TestLoop(x)>> \o r
      /\ x.k = "again" => Unfold(q) = <<TestLoop(x.w)>> \o r
      /\ x.k = "cnt" => Unfold(q) = FromAgain(q)
      /\ x.k = "brk" => Unfold(q) = Tail(FromAgain(q))
  BY <1>1 DEF Unfold
<1> QED  BY <1>2, <1>3 DEF q

-----------------------------------------------------------------------------
(* Conditions.  k tests the disjuncts n, or the conjuncts a, and others    *)
(* behind them; kt and kf are to be done when n or a has come out true or  *)
(* false.                                                                  *)
Else(m, y, z, r) == IF m = << >> THEN z \o r ELSE <<Test(m, y, z)>> \o r

LorAt(k, n, kt, kf) ==
    \E m, y, z, r : /\ IsList(m) /\ IsList(r) /\ k = <<Test(n \o m, y, z)>> \o r
                    /\ kt = y \o r /\ kf = Else(m, y, z, r)

LandAt(k, a, kt, kf) ==
    \E q, m, y, z, r :
        /\ IsList(q) /\ IsList(m) /\ IsList(r) /\ k = <<Test(<<a \o q>> \o m, y, z)>> \o r
        /\ kt = (IF q = << >> THEN y \o r ELSE <<Test(<<q>> \o m, y, z)>> \o r)
        /\ kf = Else(m, y, z, r)

Chains(n) == IsList(n) /\ Len(n) # 0 /\ \A i \in 1 .. Len(n) : IsList(n[i]) /\ Len(n[i]) # 0

(* A list is what comes before its last element, and that.                 *)
LEMMA Ended ==
    ASSUME NEW n, IsList(n), Len(n) # 0
    PROVE  n = Front(n) \o <<Last(n)>> /\ IsList(Front(n)) /\ Len(n) \in Nat \ {0}
<1>1. Append(Front(n), Last(n)) = n /\ IsList(Front(n)) /\ Len(n) \in Nat \ {0}
  <2>1. IsList(Front(n)) /\ Len(n) \in Nat \ {0}
    BY Fronted
  <2> QED  BY <2>1, PutBack
<1>2. PICK S : Front(n) \in Seq(S)
  BY <1>1 DEF IsList
<1> DEFINE l == Last(n)
           T == S \cup {l}
<1>3. Front(n) \in Seq(T) /\ l \in T
  BY <1>2, SeqMonotonic
<1> HIDE DEF l, T
<1>4. Append(Front(n), l) = Front(n) \o <<l>>
  BY <1>3, AppendIsConcat
<1> QED  BY <1>1, <1>4 DEF l

(* A list of one element is that element in brackets.                      *)
LEMMA Single ==
    ASSUME NEW n, IsList(n), Len(n) = 1
    PROVE  n = <<n[1]>>
<1>1. PICK S : n \in Seq(S)
  BY DEF IsList
<1> DEFINE x == n[1]
           T == S \cup {x}
<1>2. n \in Seq(T) /\ <<x>> \in Seq(T) /\ Len(<<x>>) = 1 /\ <<x>>[1] = x
  BY <1>1, SeqMonotonic
<1>3. \A i \in 1 .. Len(n) : i = 1
  OBVIOUS
<1> QED  BY <1>2, <1>3, SeqEqual

(* One disjunct.                                                           *)
LEMMA OneDisjunct ==
    ASSUME NEW k, NEW n, NEW kt, NEW kf, LorAt(k, n, kt, kf), Chains(n), Len(n) = 1
    PROVE  LandAt(k, n[1], kt, kf) /\ IsList(n[1]) /\ Len(n[1]) # 0
<1>1. PICK m, y, z, r : /\ IsList(m) /\ IsList(r) /\ k = <<Test(n \o m, y, z)>> \o r
                        /\ kt = y \o r /\ kf = Else(m, y, z, r)
  BY DEF LorAt
<1>2. IsList(n) /\ n = <<n[1]>> /\ IsList(n[1]) /\ Len(n[1]) # 0
  <2>1. IsList(n) /\ 1 \in 1 .. Len(n)
    BY DEF Chains
  <2> QED  BY <2>1, Single DEF Chains
<1> DEFINE a == n[1]
           q == << >>
<1>3. a \o q = a /\ IsList(q)
  BY <1>2, CatNone
<1>4. n = <<a \o q>>
  BY <1>2, <1>3
<1> HIDE DEF a
<1>5. k = <<Test(<<a \o q>> \o m, y, z)>> \o r
  BY <1>1, <1>4
<1>6. LandAt(k, a, kt, kf)
  BY <1>1, <1>3, <1>5 DEF LandAt
<1> QED  BY <1>2, <1>6 DEF a

(* The last disjunct and those before it.                                  *)
LEMMA LastDisjunct ==
    ASSUME NEW k, NEW n, NEW kt, NEW kf, LorAt(k, n, kt, kf), Chains(n), Len(n) # 1
    PROVE  /\ \E kb : LorAt(k, Front(n), kt, kb) /\ LandAt(kb, Last(n), kt, kf)
           /\ Chains(Front(n)) /\ IsList(Last(n)) /\ Len(Last(n)) # 0
<1>1. PICK m, y, z, r : /\ IsList(m) /\ IsList(r) /\ k = <<Test(n \o m, y, z)>> \o r
                        /\ kt = y \o r /\ kf = Else(m, y, z, r)
  BY DEF LorAt
<1> DEFINE f == Front(n)
           l == Last(n)
           m2 == <<l>> \o m
           kb == <<Test(m2, y, z)>> \o r
           q == << >>
<1>2. /\ IsList(n) /\ n = f \o <<l>> /\ IsList(f) /\ Len(n) \in Nat \ {0} /\ l = n[Len(n)]
      /\ Len(f) = Len(n) - 1 /\ \A i \in 1 .. Len(n) - 1 : f[i] = n[i]
  <2>1. IsList(n) /\ Len(n) # 0
    BY DEF Chains
  <2> QED  BY <2>1, Ended, Fronted
<1>3. IsList(l) /\ Len(l) # 0
  <2>1. Len(n) \in 1 .. Len(n)
    BY <1>2
  <2> QED  BY <1>2, <2>1 DEF Chains
<1>4. Chains(f)
  <2>1. Len(f) # 0 /\ \A i \in 1 .. Len(f) : i \in 1 .. Len(n) /\ f[i] = n[i]
    BY <1>2
  <2> QED  BY <1>2, <2>1 DEF Chains
<1>5. l \o q = l /\ IsList(q)
  BY <1>3, CatNone
<1> HIDE DEF f, l
<1>6. IsList(<<l>>) /\ IsList(m2) /\ m2 # << >>
  BY <1>1, OneList, Before
<1>7. n \o m = f \o m2
  BY <1>1, <1>2, <1>6, CatAssoc
<1>8. LorAt(k, f, kt, kb)
  <2>1. kb = Else(m2, y, z, r)
    BY <1>6 DEF Else
  <2>2. k = <<Test(f \o m2, y, z)>> \o r
    BY <1>1, <1>7
  <2> HIDE DEF m2, kb
  <2> QED  BY <1>1, <1>6, <2>1, <2>2 DEF LorAt
<1>9. LandAt(kb, l, kt, kf)
  <2>1. kb = <<Test(<<l \o q>> \o m, y, z)>> \o r
    BY <1>5
  <2> HIDE DEF kb
  <2> QED  BY <1>1, <1>5, <2>1 DEF LandAt
<1> QED  BY <1>3, <1>4, <1>8, <1>9 DEF f, l

(* The last conjunct and those before it.                                  *)
LEMMA LastConjunct ==
    ASSUME NEW k, NEW a, NEW kt, NEW kf, LandAt(k, a, kt, kf), IsList(a), Len(a) # 0
    PROVE  /\ \E kb : LandAt(k, Front(a), kb, kf) /\ LandAt(kb, <<Last(a)>>, kt, kf)
           /\ IsList(Front(a)) /\ Len(Front(a)) = Len(a) - 1
<1>1. PICK q, m, y, z, r :
        /\ IsList(q) /\ IsList(m) /\ IsList(r) /\ k = <<Test(<<a \o q>> \o m, y, z)>> \o r
        /\ kt = (IF q = << >> THEN y \o r ELSE <<Test(<<q>> \o m, y, z)>> \o r)
        /\ kf = Else(m, y, z, r)
  BY DEF LandAt
<1> DEFINE f == Front(a)
           l == Last(a)
           q2 == <<l>> \o q
           kb == <<Test(<<q2>> \o m, y, z)>> \o r
<1>2. a = f \o <<l>> /\ IsList(f) /\ Len(f) = Len(a) - 1
  BY Ended, Fronted
<1> HIDE DEF f, l
<1>3. IsList(<<l>>) /\ IsList(q2) /\ q2 # << >>
  BY <1>1, OneList, Before
<1>4. a \o q = f \o q2
  <2> DEFINE e == <<l>>
  <2>1. IsList(f) /\ IsList(e) /\ IsList(q)
    BY <1>1, <1>2, <1>3
  <2> HIDE DEF e
  <2>2. (f \o e) \o q = f \o (e \o q)
    BY <2>1, CatAssoc
  <2> QED  BY <1>2, <2>2 DEF e
<1>5. LandAt(k, f, kb, kf)
  <2>1. k = <<Test(<<f \o q2>> \o m, y, z)>> \o r
    BY <1>1, <1>4
  <2>2. kb = IF q2 = << >> THEN y \o r ELSE <<Test(<<q2>> \o m, y, z)>> \o r
    BY <1>3
  <2> HIDE DEF q2, kb
  <2> QED  BY <1>1, <1>3, <2>1, <2>2 DEF LandAt
<1>6. LandAt(kb, <<l>>, kt, kf)
  <2>1. kb = <<Test(<<<<l>> \o q>> \o m, y, z)>> \o r
    OBVIOUS
  <2> HIDE DEF kb
  <2> QED  BY <1>1, <2>1 DEF LandAt
<1> QED  BY <1>2, <1>5, <1>6 DEF f, l

(* k tests the atom a and goes on with kt or kf.                           *)
Asks(k, a, kt, kf) ==
    /\ k # << >> /\ Head(k).k = "test" /\ Head(k).c[1][1] = a
    /\ After(k, TRUE) = kt /\ After(k, FALSE) = kf

(* One conjunct.                                                           *)
LEMMA OneConjunct ==
    ASSUME NEW k, NEW a, NEW kt, NEW kf, LandAt(k, a, kt, kf), IsList(a), Len(a) = 1
    PROVE  Asks(k, a[1], kt, kf)
<1>1. PICK q, m, y, z, r :
        /\ IsList(q) /\ IsList(m) /\ IsList(r) /\ k = <<Test(<<a \o q>> \o m, y, z)>> \o r
        /\ kt = (IF q = << >> THEN y \o r ELSE <<Test(<<q>> \o m, y, z)>> \o r)
        /\ kf = Else(m, y, z, r)
  BY DEF LandAt
<1> DEFINE i == a[1]
           h == <<i>> \o q
           c == <<h>> \o m
           x == Test(c, y, z)
<1>2. a = <<i>>
  BY Single
<1> HIDE DEF i
<1>3. /\ IsList(h) /\ Len(h) = Len(q) + 1 /\ h[1] = i /\ Head(h) = i /\ Tail(h) = q
      /\ Len(q) \in Nat /\ (Len(q) = 0 <=> q = << >>)
  <2>1. IsCons(h, i, q)
    BY <1>1 DEF IsCons
  <2>2. Len(q) = 0 <=> q = << >>
    BY <1>1, EmptySeq DEF IsList
  <2> QED  BY <1>1, <2>1, <2>2, Consed, Before
<1> HIDE DEF h
<1>4. /\ c[1] = h /\ Head(c) = h /\ Tail(c) = m /\ Len(c) = Len(m) + 1
      /\ Len(m) \in Nat /\ (Len(m) = 0 <=> m = << >>)
  <2>1. IsCons(c, h, m)
    BY <1>1 DEF IsCons
  <2>2. Len(m) = 0 <=> m = << >>
    BY <1>1, EmptySeq DEF IsList
  <2> QED  BY <1>1, <2>1, <2>2, Consed, Before
<1> HIDE DEF c
<1>5. k = <<x>> \o r
  BY <1>1, <1>2 DEF c, h
<1>6. x.k = "test" /\ x.c = c /\ x.yes = y /\ x.no = z
  BY DEF Test
<1>7. \A b : [x EXCEPT !.c = b] = Test(b, y, z)
  BY DEF Test
<1> HIDE DEF x
<1>8. k # << >> /\ Head(k) = x /\ Tail(k) = r
  BY <1>1, <1>5, Before
<1>9. After(k, TRUE) = kt
  <2>1. CASE q = << >>
    <3>1. Decide(x, TRUE) = y
      BY <1>3, <1>4, <1>6, <2>1 DEF Decide
    <3> QED  BY <1>1, <1>8, <2>1, <3>1 DEF After
  <2>2. CASE q # << >>
    <3>1. Len(h) # 1
      BY <1>3, <2>2
    <3>2. Decide(x, TRUE) = <<Test(<<q>> \o m, y, z)>>
      BY <1>3, <1>4, <1>6, <1>7, <3>1 DEF Decide
    <3> QED  BY <1>1, <1>8, <2>2, <3>2 DEF After
  <2> QED  BY <2>1, <2>2
<1>10. After(k, FALSE) = kf
  <2>1. CASE m = << >>
    <3>1. Decide(x, FALSE) = z
      BY <1>4, <1>6, <2>1 DEF Decide
    <3> QED  BY <1>1, <1>8, <2>1, <3>1 DEF After, Else
  <2>2. CASE m # << >>
    <3>1. Len(c) # 1
      BY <1>4, <2>2
    <3>2. Decide(x, FALSE) = <<Test(m, y, z)>>
      BY <1>4, <1>6, <1>7, <3>1 DEF Decide
    <3> QED  BY <1>1, <1>8, <2>2, <3>2 DEF After, Else
  <2> QED  BY <2>1, <2>2
<1> QED  BY <1>3, <1>4, <1>6, <1>8, <1>9, <1>10 DEF Asks, i

(* The condition of a statement, on its own.                               *)
LEMMA WholeCondition ==
    ASSUME NEW c, IsCond(c), NEW y, NEW z, NEW r, IsList(r)
    PROVE  Chains(c) /\ LorAt(<<Test(c, y, z)>> \o r, c, y \o r, z \o r)
<1>1. c \in Seq(Seq(Atoms)) /\ c # << >> /\ \A i \in DOMAIN c : c[i] # << >>
  BY DEF IsCond
<1>2. IsList(c) /\ Len(c) \in Nat \ {0} /\ DOMAIN c = 1 .. Len(c)
  BY <1>1, EmptySeq, LenProperties DEF IsList
<1>3. \A i \in 1 .. Len(c) : c[i] \in Seq(Atoms) /\ c[i] # << >>
  BY <1>1, <1>2, ElementOfSeq
<1>4. \A i \in 1 .. Len(c) : IsList(c[i]) /\ Len(c[i]) # 0
  BY <1>3, EmptySeq DEF IsList
<1> DEFINE m == << >>
<1>5. IsList(m) /\ c \o m = c
  BY <1>2, CatNone
<1>6. z \o r = Else(m, y, z, r)
  BY DEF Else
<1>7. <<Test(c, y, z)>> \o r = <<Test(c \o m, y, z)>> \o r
  BY <1>5
<1> HIDE DEF m
<1>8. LorAt(<<Test(c, y, z)>> \o r, c, y \o r, z \o r)
  BY <1>5, <1>6, <1>7 DEF LorAt
<1> QED  BY <1>2, <1>4, <1>8 DEF Chains

-----------------------------------------------------------------------------
(* Frames.  Every pending visit has one: what is to be done when the visit *)
(* is the current one (k), or when the condition it waits for has come out *)
(* true or false (yes, no), the three stacks (ts, fs, ls), and the         *)
(* innermost loop (w) with what is to be done behind it (r).               *)
Inside(f) == f.ls # << >>
Around(g) == g.mode = "run" /\ IsList(g.k) /\ (Inside(g) => Reaches(g.k, g.w, g.r))

(* P is what the blocks are for.                                           *)
Promise(P, X, b, k) == b \in DOMAIN P /\ P[b] = k /\ Leads(X, <<b, 1>>, k)

SameLoop(f, g) == f.ls = g.ls /\ f.w = g.w /\ f.r = g.r
SameFrame(f, g) == f.ts = g.ts /\ f.fs = g.fs /\ SameLoop(f, g)

IfTrue(g, X) == g.ts # << >> /\ Leads(X, <<Last(g.ts), 1>>, g.yes)
IfFalse(g, X) == g.fs # << >> /\ Leads(X, <<Last(g.fs), 1>>, g.no)

StmtLink(w, f, g) ==
    /\ w.op = "stmt" /\ f.mode = "run" /\ SameFrame(f, g) /\ Around(g) /\ IsStmt(w.n, Inside(g))
    /\ f.k = <<w.n>> \o g.k \/ (w.n.k = "block" /\ f.k = w.n.items \o g.k)

ItemsLink(w, f, g) ==
    /\ w.op = "items" /\ f.mode = "run" /\ SameFrame(f, g) /\ Around(g) /\ w.n \in Seq(Stmts[Inside(g)])
    /\ f.k = w.n \o g.k

IsIf(w, g) ==
    Around(g) /\ w.n.k = "if" /\ w.n.s \in Stmts[Inside(g)] /\ w.n.e \in Stmts[Inside(g)] \cup {None}

IfBranchLink(w, f, g, P, X) ==
    /\ w.op = "ifBranch" /\ f.mode = "test" /\ IsIf(w, g) /\ SameLoop(f, g)
    /\ w.bbs = <<w.bbs[1], w.bbs[2], w.bbs[3]>>
    /\ f.ts = Append(g.ts, w.bbs[1]) /\ f.fs = Append(g.fs, w.bbs[2])
    /\ f.yes = <<w.n.s>> \o g.k /\ f.no = <<w.n.e>> \o g.k
    /\ Promise(P, X, w.bbs[1], f.yes) /\ Promise(P, X, w.bbs[2], f.no)
    /\ Promise(P, X, w.bbs[3], g.k)

IfElseLink(w, f, g, P, X) ==
    /\ w.op = "ifElse" /\ f.mode = "run" /\ IsIf(w, g) /\ SameFrame(f, g) /\ f.k = g.k
    /\ Promise(P, X, w.bbs[2], <<w.n.e>> \o g.k) /\ Promise(P, X, w.bbs[3], g.k)

IfMergeLink(w, f, g, P, X) ==
    /\ w.op = "ifMerge" /\ f.mode = "run" /\ Around(g) /\ SameFrame(f, g) /\ f.k = g.k
    /\ Promise(P, X, w.bbs[3], g.k)

LoopLink(w, f, g, P, X) ==
    /\ Around(g) /\ w.n.k = "while" /\ w.n.s \in Stmts[TRUE]
    /\ f.ls = Append(g.ls, LoopOf(w)) /\ f.w = w.n /\ f.r = g.k
    /\ Leads(X, <<w.bbs[1], 1>>, <<TestLoop(w.n)>> \o g.k)
    /\ Promise(P, X, w.bbs[3], g.k)

WhileBranchLink(w, f, g, P, X) ==
    /\ w.op = "whileBranch" /\ f.mode = "test" /\ LoopLink(w, f, g, P, X)
    /\ w.bbs = <<w.bbs[1], w.bbs[2], w.bbs[3]>>
    /\ f.ts = Append(g.ts, w.bbs[2]) /\ f.fs = Append(g.fs, w.bbs[3])
    /\ f.yes = <<w.n.s>> \o (<<Again(w.n)>> \o g.k) /\ f.no = g.k
    /\ Promise(P, X, w.bbs[2], f.yes)

WhileEndLink(w, f, g, P, X) ==
    /\ w.op = "whileEnd" /\ f.mode = "run" /\ LoopLink(w, f, g, P, X)
    /\ f.ts = g.ts /\ f.fs = g.fs /\ f.k = <<Again(w.n)>> \o g.k

LOrLink(w, f, g, X) ==
    /\ w.op = "lor" /\ f.mode = "run" /\ g.mode = "test" /\ SameFrame(f, g)
    /\ Chains(w.n) /\ LorAt(f.k, w.n, g.yes, g.no)
    /\ IfTrue(g, X) /\ IfFalse(g, X)

LOrRightLink(w, f, g, P, X) ==
    /\ w.op = "lorRight" /\ f.mode = "test" /\ g.mode = "test" /\ SameLoop(f, g)
    /\ IsList(w.n) /\ Len(w.n) # 0
    /\ f.ts = g.ts /\ f.fs = Append(g.fs, w.bbs[1]) /\ f.yes = g.yes
    /\ LandAt(f.no, w.n, g.yes, g.no) /\ Promise(P, X, w.bbs[1], f.no)
    /\ IfTrue(g, X) /\ IfFalse(g, X)

LAndLink(w, f, g, X) ==
    /\ w.op = "land" /\ f.mode = "run" /\ g.mode = "test" /\ SameFrame(f, g)
    /\ IsList(w.n) /\ Len(w.n) # 0
    /\ LandAt(f.k, w.n, g.yes, g.no) /\ IfFalse(g, X)

LAndRightLink(w, f, g, P, X) ==
    /\ w.op = "landRight" /\ f.mode = "test" /\ g.mode = "test" /\ SameFrame(f, g)
    /\ IsList(w.n) /\ Len(w.n) # 0
    /\ f.no = g.no /\ LandAt(f.yes, w.n, g.yes, g.no) /\ Promise(P, X, w.bbs[1], f.yes)
    /\ IfFalse(g, X)

(* How the frame f of the visit w depends on the one behind it.            *)
Link(w, f, g, P, X) ==
    \/ StmtLink(w, f, g) \/ ItemsLink(w, f, g)
    \/ IfBranchLink(w, f, g, P, X) \/ IfElseLink(w, f, g, P, X) \/ IfMergeLink(w, f, g, P, X)
    \/ WhileBranchLink(w, f, g, P, X) \/ WhileEndLink(w, f, g, P, X)
    \/ LOrLink(w, f, g, X) \/ LOrRightLink(w, f, g, P, X)
    \/ LAndLink(w, f, g, X) \/ LAndRightLink(w, f, g, P, X)

(* The blocks of the innermost loop.                                       *)
InLoop(f, P, X) ==
    /\ IsList(f.ts) /\ IsList(f.fs) /\ IsList(f.ls)
    /\ Inside(f) => /\ Leads(X, <<Last(f.ls).trueBB, 1>>, <<TestLoop(f.w)>> \o f.r)
                    /\ Promise(P, X, Last(f.ls).falseBB, f.r)

Behind(f, s, i) == \E j \in i .. Len(s) : Last(f.ls).falseBB \in Future(s[j])

(* One frame for each visit of s, and one for the end of the function.     *)
Framed(s, F, P, X) ==
    /\ IsList(s) /\ IsList(F) /\ Len(F) = Len(s) + 1
    /\ LET f == F[Len(s) + 1] IN
          f.mode = "run" /\ f.k = << >> /\ f.ts = << >> /\ f.fs = << >> /\ f.ls = << >>
    /\ \A i \in 1 .. Len(s) + 1 : InLoop(F[i], P, X)
    /\ \A i \in 1 .. Len(s) : Link(s[i], F[i], F[i + 1], P, X)
    /\ \A i \in 1 .. Len(s) : Inside(F[i]) => Behind(F[i], s, i)

(* P is continued.                                                         *)
Keeps(P, P2) == DOMAIN P \subseteq DOMAIN P2 /\ \A b \in DOMAIN P : P2[b] = P[b]

(* Promises are kept when more blocks and more places come.                *)
LEMMA PromiseOn ==
    ASSUME NEW P, NEW P2, Keeps(P, P2), NEW X, NEW X2, Grows(X, X2), NEW b, NEW k, Promise(P, X, b, k)
    PROVE  Promise(P2, X2, b, k)
BY LeadsOn DEF Promise, Keeps

(* So is what is known of a loop ...                                       *)
LEMMA LoopLinkOn ==
    ASSUME NEW P, NEW P2, Keeps(P, P2), NEW X, NEW X2, Grows(X, X2), NEW w, NEW f, NEW g,
           LoopLink(w, f, g, P, X)
    PROVE  LoopLink(w, f, g, P2, X2)
BY LeadsOn, PromiseOn DEF LoopLink

(* ... of the targets of a condition ...                                   *)
LEMMA IfOn ==
    ASSUME NEW X, NEW X2, Grows(X, X2), NEW g
    PROVE  (IfTrue(g, X) => IfTrue(g, X2)) /\ (IfFalse(g, X) => IfFalse(g, X2))
BY LeadsOn DEF IfTrue, IfFalse

(* ... of any two frames ...                                               *)
LEMMA LinkOn ==
    ASSUME NEW P, NEW P2, Keeps(P, P2), NEW X, NEW X2, Grows(X, X2), NEW w, NEW f, NEW g,
           Link(w, f, g, P, X)
    PROVE  Link(w, f, g, P2, X2)
<1>1. CASE StmtLink(w, f, g) \/ ItemsLink(w, f, g)
  BY <1>1 DEF Link
<1>2. CASE IfBranchLink(w, f, g, P, X)
  <2>1. IfBranchLink(w, f, g, P2, X2)
    BY <1>2, PromiseOn DEF IfBranchLink
  <2> QED  BY <2>1 DEF Link
<1>3. CASE IfElseLink(w, f, g, P, X)
  <2>1. IfElseLink(w, f, g, P2, X2)
    BY <1>3, PromiseOn DEF IfElseLink
  <2> QED  BY <2>1 DEF Link
<1>4. CASE IfMergeLink(w, f, g, P, X)
  <2>1. IfMergeLink(w, f, g, P2, X2)
    BY <1>4, PromiseOn DEF IfMergeLink
  <2> QED  BY <2>1 DEF Link
<1>5. CASE WhileBranchLink(w, f, g, P, X)
  <2>1. WhileBranchLink(w, f, g, P2, X2)
    BY <1>5, PromiseOn, LoopLinkOn DEF WhileBranchLink
  <2> QED  BY <2>1 DEF Link
<1>6. CASE WhileEndLink(w, f, g, P, X)
  <2>1. WhileEndLink(w, f, g, P2, X2)
    BY <1>6, LoopLinkOn DEF WhileEndLink
  <2> QED  BY <2>1 DEF Link
<1>7. CASE LOrLink(w, f, g, X)
  <2>1. LOrLink(w, f, g, X2)
    BY <1>7, IfOn DEF LOrLink
  <2> QED  BY <2>1 DEF Link
<1>8. CASE LOrRightLink(w, f, g, P, X)
  <2>1. LOrRightLink(w, f, g, P2, X2)
    BY <1>8, IfOn, PromiseOn DEF LOrRightLink
  <2> QED  BY <2>1 DEF Link
<1>9. CASE LAndLink(w, f, g, X)
  <2>1. LAndLink(w, f, g, X2)
    BY <1>9, IfOn DEF LAndLink
  <2> QED  BY <2>1 DEF Link
<1>10. CASE LAndRightLink(w, f, g, P, X)
  <2>1. LAndRightLink(w, f, g, P2, X2)
    BY <1>10, IfOn, PromiseOn DEF LAndRightLink
  <2> QED  BY <2>1 DEF Link
<1> QED  BY <1>1, <1>2, <1>3, <1>4, <1>5, <1>6, <1>7, <1>8, <1>9, <1>10 DEF Link

(* ... and of all.                                                         *)
LEMMA FramedOn ==
    ASSUME NEW P, NEW P2, Keeps(P, P2), NEW X, NEW X2, Grows(X, X2), NEW s, NEW F,
           Framed(s, F, P, X)
    PROVE  Framed(s, F, P2, X2)
<1>1. \A i \in 1 .. Len(s) + 1 : InLoop(F[i], P2, X2)
  <2>1. \A f : InLoop(f, P, X) => InLoop(f, P2, X2)
    BY LeadsOn, PromiseOn DEF InLoop
  <2> QED  BY <2>1 DEF Framed
<1>2. \A i \in 1 .. Len(s) : Link(s[i], F[i], F[i + 1], P2, X2)
  BY LinkOn DEF Framed
<1> QED  BY <1>1, <1>2 DEF Framed

(* The frames keep the stacks and the loop of the one behind, but for the  *)
(* visits that put something on a stack.                                   *)
LEMMA LinkShape ==
    ASSUME NEW P, NEW X, NEW w, NEW f, NEW g, Link(w, f, g, P, X)
    PROVE  /\ f.ts = g.ts \/ \E b : f.ts = Append(g.ts, b)
           /\ f.fs = g.fs \/ \E b : f.fs = Append(g.fs, b)
           /\ SameLoop(f, g) \/ (w.op \in Loops /\ LoopLink(w, f, g, P, X))
<1>1. CASE StmtLink(w, f, g) \/ ItemsLink(w, f, g)
  BY <1>1 DEF StmtLink, ItemsLink, SameFrame
<1>2. CASE IfBranchLink(w, f, g, P, X) \/ IfElseLink(w, f, g, P, X) \/ IfMergeLink(w, f, g, P, X)
  BY <1>2 DEF IfBranchLink, IfElseLink, IfMergeLink, SameFrame
<1>3. CASE WhileBranchLink(w, f, g, P, X) \/ WhileEndLink(w, f, g, P, X)
  BY <1>3 DEF WhileBranchLink, WhileEndLink, Loops
<1>4. CASE LOrLink(w, f, g, X) \/ LAndLink(w, f, g, X)
  BY <1>4 DEF LOrLink, LAndLink, SameFrame
<1>5. CASE LOrRightLink(w, f, g, P, X) \/ LAndRightLink(w, f, g, P, X)
  BY <1>5 DEF LOrRightLink, LAndRightLink, SameFrame
<1> QED  BY <1>1, <1>2, <1>3, <1>4, <1>5 DEF Link

(* What has been put on a stack is on top, what was there is below.        *)
LEMMA LastAppended ==
    ASSUME NEW q, IsList(q), NEW x
    PROVE  /\ IsList(Append(q, x)) /\ Append(q, x) # << >>
           /\ Last(Append(q, x)) = x /\ Front(Append(q, x)) = q
<1> DEFINE a == Append(q, x)
<1>1. /\ IsList(a) /\ Len(q) \in Nat /\ Len(a) = Len(q) + 1 /\ a[Len(q) + 1] = x
      /\ \A i \in 1 .. Len(q) : a[i] = q[i]
  BY Appended
<1> HIDE DEF a
<1>2. a # << >>
  BY <1>1, EmptySeq
<1>3. /\ IsList(Front(a)) /\ Len(Front(a)) = Len(a) - 1 /\ Last(a) = a[Len(a)]
      /\ \A i \in 1 .. Len(a) - 1 : Front(a)[i] = a[i]
  <2>1. Len(a) # 0
    BY <1>1
  <2> QED  BY <1>1, <2>1, Fronted
<1>4. PICK S : Front(a) \in Seq(S)
  BY <1>3 DEF IsList
<1>5. PICK T : q \in Seq(T)
  BY DEF IsList
<1>6. Front(a) \in Seq(S \cup T) /\ q \in Seq(S \cup T)
  BY <1>4, <1>5, SeqMonotonic
<1>7. Len(Front(a)) = Len(q) /\ \A i \in 1 .. Len(Front(a)) : Front(a)[i] = q[i]
  BY <1>1, <1>3
<1>8. Front(a) = q
  BY <1>6, <1>7, SeqEqual
<1> QED  BY <1>1, <1>2, <1>3, <1>8 DEF a

(* A visit with its frame comes before the others.                         *)
LEMMA Push ==
    ASSUME NEW s, NEW F, NEW P, NEW X, Framed(s, F, P, X), NEW a, NEW f, Link(a, f, F[1], P, X)
    PROVE  Framed(<<a>> \o s, <<f>> \o F, P, X)
<1> DEFINE s2 == <<a>> \o s
           F2 == <<f>> \o F
           n == Len(s)
<1>1. IsList(s) /\ IsList(F) /\ Len(F) = n + 1
  BY DEF Framed
<1>2. /\ IsList(s2) /\ n \in Nat /\ Len(s2) = n + 1 /\ s2[1] = a
      /\ \A j \in 1 .. n : s2[j + 1] = s[j]
  <2>1. IsCons(s2, a, s)
    BY <1>1 DEF IsCons
  <2> QED  BY <2>1, Consed
<1>3. /\ IsList(F2) /\ Len(F2) = (n + 1) + 1 /\ F2[1] = f
      /\ \A j \in 1 .. n + 1 : F2[j + 1] = F[j]
  <2>1. IsCons(F2, f, F)
    BY <1>1 DEF IsCons
  <2> QED  BY <1>1, <2>1, Consed
<1>4. /\ \A i \in 1 .. n + 1 : InLoop(F[i], P, X)
      /\ \A i \in 1 .. n : Link(s[i], F[i], F[i + 1], P, X)
      /\ \A i \in 1 .. n : Inside(F[i]) => Behind(F[i], s, i)
      /\ F[n + 1].mode = "run" /\ F[n + 1].k = << >> /\ F[n + 1].ts = << >> /\ F[n + 1].fs = << >> /\ F[n + 1].ls = << >>
  BY DEF Framed
<1>5. /\ f.ts = F[1].ts \/ \E b : f.ts = Append(F[1].ts, b)
      /\ f.fs = F[1].fs \/ \E b : f.fs = Append(F[1].fs, b)
      /\ SameLoop(f, F[1]) \/ (a.op \in Loops /\ LoopLink(a, f, F[1], P, X))
  BY LinkShape
<1>6. 1 \in 1 .. n + 1
  BY <1>2
<1>7. IsList(F[1].ts) /\ IsList(F[1].fs) /\ IsList(F[1].ls)
  BY <1>4, <1>6 DEF InLoop
<1>8. IsList(f.ts) /\ IsList(f.fs) /\ IsList(f.ls)
  BY <1>5, <1>7, LastAppended DEF SameLoop, LoopLink
<1>9. ASSUME NEW g, NEW j \in 1 .. n, Behind(g, s, j)
      PROVE  Behind(g, s2, j + 1)
  <2>1. PICK m \in j .. n : Last(g.ls).falseBB \in Future(s[m])
    BY <1>9 DEF Behind
  <2>2. m \in 1 .. n /\ m + 1 \in (j + 1) .. (n + 1)
    BY <1>2
  <2>3. m + 1 \in (j + 1) .. Len(s2) /\ s2[m + 1] = s[m]
    BY <1>2, <2>2
  <2> HIDE DEF s2, F2, n
  <2> QED  BY <2>1, <2>3 DEF Behind
<1>10. InLoop(f, P, X) /\ (Inside(f) => Behind(f, s2, 1))
  <2>1. CASE a.op \in Loops /\ LoopLink(a, f, F[1], P, X)
    <3>1. Last(f.ls) = LoopOf(a) /\ f.w = a.n /\ f.r = F[1].k
      BY <1>7, <2>1, LastAppended DEF LoopLink
    <3>2. InLoop(f, P, X)
      BY <1>8, <2>1, <3>1 DEF InLoop, LoopLink, LoopOf
    <3>3. Last(f.ls).falseBB \in Future(a)
      BY <2>1, <3>1 DEF LoopOf, Loops, Future, Turns
    <3>4. 1 \in 1 .. Len(s2)
      BY <1>2
    <3> HIDE DEF s2, F2, n
    <3> QED  BY <1>2, <3>2, <3>3, <3>4 DEF Behind
  <2>2. CASE SameLoop(f, F[1])
    <3>1. f.ls = F[1].ls /\ f.w = F[1].w /\ f.r = F[1].r
      BY <2>2 DEF SameLoop
    <3>2. InLoop(f, P, X)
      BY <1>4, <1>6, <1>8, <3>1 DEF InLoop, Inside
    <3>3. CASE Inside(f)
      <4>1. n # 0
        BY <1>4, <3>1, <3>3 DEF Inside
      <4>2. 1 \in 1 .. n /\ Inside(F[1])
        BY <1>2, <3>1, <3>3, <4>1 DEF Inside
      <4>3. Behind(F[1], s, 1)
        BY <1>4, <4>2
      <4>4. PICK m \in 1 .. n : Last(F[1].ls).falseBB \in Future(s[m])
        BY <4>3 DEF Behind
      <4>5. m + 1 \in 1 .. Len(s2) /\ s2[m + 1] = s[m]
        BY <1>2, <4>4
      <4> HIDE DEF s2, F2, n
      <4>6. Behind(f, s2, 1)
        BY <3>1, <4>4, <4>5 DEF Behind
      <4> QED  BY <3>2, <4>6
    <3> QED  BY <3>2, <3>3
  <2> QED  BY <1>5, <2>1, <2>2
<1> HIDE DEF s2, F2, n
<1>11. ASSUME NEW i \in 1 .. Len(s2) + 1
       PROVE  InLoop(F2[i], P, X)
  <2>1. CASE i = 1
    BY <1>3, <1>10, <2>1
  <2>2. CASE i # 1
    <3>1. i - 1 \in 1 .. n + 1 /\ i = (i - 1) + 1
      BY <1>2, <2>2
    <3> QED  BY <1>3, <1>4, <3>1
  <2> QED  BY <2>1, <2>2
<1>12. ASSUME NEW i \in 1 .. Len(s2)
       PROVE  /\ Link(s2[i], F2[i], F2[i + 1], P, X)
              /\ Inside(F2[i]) => Behind(F2[i], s2, i)
  <2>1. CASE i = 1
    <3>1. F2[i + 1] = F[1]
      BY <1>3, <1>6, <2>1
    <3> QED  BY <1>2, <1>3, <1>10, <2>1, <3>1
  <2>2. CASE i # 1
    <3>1. PICK j \in 1 .. n : i = j + 1
      <4>1. i - 1 \in 1 .. n /\ i = (i - 1) + 1
        BY <1>2, <2>2
      <4> QED  BY <4>1
    <3>2. j \in 1 .. n + 1 /\ j + 1 \in 1 .. n + 1
      BY <1>2
    <3>3. s2[i] = s[j] /\ F2[i] = F[j] /\ F2[i + 1] = F[j + 1]
      BY <1>2, <1>3, <3>1, <3>2
    <3> QED  BY <1>4, <1>9, <3>1, <3>3
  <2> QED  BY <2>1, <2>2
<1>13. F2[Len(s2) + 1] = F[n + 1]
  <2>1. n + 1 \in 1 .. n + 1
    BY <1>2
  <2> QED  BY <1>2, <1>3, <2>1
<1>14. Len(F2) = Len(s2) + 1
  BY <1>2, <1>3
<1>15. Framed(s2, F2, P, X)
  BY <1>2, <1>3, <1>4, <1>11, <1>12, <1>13, <1>14 DEF Framed
<1> QED  BY <1>15 DEF s2, F2

(* The current visit leaves with its frame.                                *)
LEMMA Pop ==
    ASSUME NEW s, s # << >>, NEW F, NEW P, NEW X, Framed(s, F, P, X)
    PROVE  /\ Framed(Tail(s), Tail(F), P, X) /\ Tail(F)[1] = F[2]
           /\ Link(Head(s), F[1], F[2], P, X) /\ InLoop(F[1], P, X) /\ InLoop(F[2], P, X)
<1> DEFINE s2 == Tail(s)
           F2 == Tail(F)
<1>1. PICK S : s \in Seq(S)
  BY DEF Framed, IsList
<1>2. PICK T : F \in Seq(T)
  BY DEF Framed, IsList
<1>3. PICK n \in Nat : Len(s) = n + 1
  <2>1. Len(s) \in Nat /\ Len(s) # 0
    BY <1>1, EmptySeq, LenProperties
  <2>2. Len(s) - 1 \in Nat /\ Len(s) = (Len(s) - 1) + 1
    BY <2>1
  <2> QED  BY <2>2
<1>4. Len(F) = (n + 1) + 1
  BY <1>3 DEF Framed
<1>5. F # << >>
  BY <1>2, <1>3, <1>4, EmptySeq
<1>6. /\ Head(s) = s[1] /\ IsList(s2) /\ Len(s2) = n /\ \A i \in 1 .. n : s2[i] = s[i + 1]
  <2>1. /\ Head(s) = s[1] /\ s2 \in Seq(S) /\ Len(s2) = Len(s) - 1
        /\ \A i \in 1 .. Len(s2) : s2[i] = s[i + 1]
    BY <1>1, HeadTailProperties
  <2>2. Len(s2) = n
    BY <1>3, <2>1
  <2> QED  BY <2>1, <2>2 DEF IsList
<1>7. IsList(F2) /\ Len(F2) = n + 1 /\ \A i \in 1 .. n + 1 : F2[i] = F[i + 1]
  <2>1. /\ F2 \in Seq(T) /\ Len(F2) = Len(F) - 1
        /\ \A i \in 1 .. Len(F2) : F2[i] = F[i + 1]
    BY <1>2, <1>5, HeadTailProperties
  <2>2. Len(F2) = n + 1
    BY <1>4, <2>1
  <2> QED  BY <2>1, <2>2 DEF IsList
<1> HIDE DEF s2, F2
<1>8. /\ \A i \in 1 .. (n + 1) + 1 : InLoop(F[i], P, X)
      /\ \A i \in 1 .. n + 1 : Link(s[i], F[i], F[i + 1], P, X)
      /\ \A i \in 1 .. n + 1 : Inside(F[i]) => Behind(F[i], s, i)
      /\ F[(n + 1) + 1].mode = "run" /\ F[(n + 1) + 1].k = << >> /\ F[(n + 1) + 1].ts = << >>
      /\ F[(n + 1) + 1].fs = << >> /\ F[(n + 1) + 1].ls = << >>
  BY <1>3 DEF Framed
<1>9. F2[1] = F[2] /\ F2[n + 1] = F[(n + 1) + 1]
  <2>1. 1 \in 1 .. n + 1 /\ n + 1 \in 1 .. n + 1
    BY <1>3
  <2> QED  BY <1>7, <2>1
<1>10. \A i \in 1 .. n + 1 : InLoop(F2[i], P, X)
  BY <1>7, <1>8
<1>11. ASSUME NEW i \in 1 .. n
       PROVE  Link(s2[i], F2[i], F2[i + 1], P, X) /\ (Inside(F2[i]) => Behind(F2[i], s2, i))
  <2>1. i \in 1 .. n + 1 /\ i + 1 \in 1 .. n + 1 /\ i \in Nat
    BY <1>3
  <2>2. s2[i] = s[i + 1] /\ F2[i] = F[i + 1] /\ F2[i + 1] = F[(i + 1) + 1]
    BY <1>6, <1>7, <2>1
  <2>3. ASSUME Inside(F2[i]) PROVE Behind(F2[i], s2, i)
    <3>1. Behind(F[i + 1], s, i + 1)
      BY <1>8, <2>1, <2>2, <2>3
    <3>2. PICK m \in i + 1 .. n + 1 : Last(F2[i].ls).falseBB \in Future(s[m])
      BY <1>3, <2>2, <3>1 DEF Behind
    <3>3. m - 1 \in i .. n /\ m - 1 \in 1 .. n /\ m = (m - 1) + 1
      BY <1>3, <2>1
    <3>4. s2[m - 1] = s[m]
      BY <1>6, <3>3
    <3> QED  BY <1>6, <3>2, <3>3, <3>4 DEF Behind
  <2> QED  BY <1>8, <2>1, <2>2, <2>3
<1>12. Framed(s2, F2, P, X)
  BY <1>6, <1>7, <1>8, <1>9, <1>10, <1>11 DEF Framed
<1>13. 1 \in 1 .. n + 1 /\ 1 \in 1 .. (n + 1) + 1 /\ 2 \in 1 .. (n + 1) + 1 /\ 1 + 1 = 2
  BY <1>3
<1>14. Link(s[1], F[1], F[2], P, X) /\ InLoop(F[1], P, X) /\ InLoop(F[2], P, X)
  BY <1>8, <1>13
<1> QED  BY <1>6, <1>9, <1>12, <1>14 DEF s2, F2

-----------------------------------------------------------------------------
(* The graph under construction.  n blocks are made; when the current      *)
(* visit waits for a condition (m is "test") the last atom of the insert   *)
(* block is still to be branched on, and cur is what is to be done there.  *)
Open(n) == {b \in 1 .. n : term[b] = "none"}
Spots(m) == [b \in BB |-> IF b = insert /\ m = "test" THEN Len(code[b]) ELSE Len(code[b]) + 1]

Typed ==
    /\ DOMAIN code = BB /\ DOMAIN term = BB /\ DOMAIN succs = BB
    /\ \A b \in BB : /\ IsList(code[b])
                     /\ term[b] = "none" => succs[b] = << >> /\ (b # insert => code[b] = << >>)

Built(m, n, P, X, D, cur) ==
    /\ n \in 1 .. MaxBlocks /\ insert \in 1 .. n /\ Typed
    /\ \A b \in BB : b > n => term[b] = "none"
    /\ DOMAIN P = 1 .. n
    /\ Graph(code, term, succs, Open(n), Spots(m), With(P, insert, cur), X, D)

(* What is to be done at the insert block is written otherwise.            *)
LEMMA BuiltUnfolds ==
    ASSUME NEW n, NEW P, NEW X, NEW D, NEW cur, Built("run", n, P, X, D, cur),
           term[insert] = "none", ~Ripe(cur)
    PROVE  \E X2 : Grows(X, X2) /\ Built("run", n, P, X2, D, Unfold(cur))
<1>1. /\ insert \in BB /\ insert \in Open(n) /\ Open(n) \subseteq BB
      /\ Graph(code, term, succs, Open(n), Spots("run"), With(P, insert, cur), X, D)
  BY BlocksAssumption DEF Built, Open, BB
<1> DEFINE q == With(P, insert, cur)
           q2 == With(q, insert, Unfold(cur))
           X2 == Add(X, D[insert], Unfold(cur))
<1>2. q[insert] = cur
  BY <1>1 DEF With
<1>3. \A b \in Open(n) : With(P, insert, Unfold(cur))[b] = q2[b]
  BY <1>1 DEF With
<1> HIDE DEF q
<1>4. Graph(code, term, succs, Open(n), Spots("run"), q2, X2, D)
  <2>1. Graph(code, term, succs, Open(n), Spots("run"), q, X, D) /\ ~Ripe(q[insert])
    BY <1>1, <1>2 DEF q
  <2>2. Graph(code, term, succs, Open(n), Spots("run"), With(q, insert, Unfold(q[insert])),
              Add(X, D[insert], Unfold(q[insert])), D)
    BY <1>1, <2>1, Unfolds
  <2> QED  BY <1>2, <2>2
<1>5. Graph(code, term, succs, Open(n), Spots("run"), With(P, insert, Unfold(cur)), X2, D)
  <2> HIDE DEF q2, X2
  <2> QED  BY <1>3, <1>4, SameGraph
<1>6. Grows(X, X2)
  BY DEF Grows, Add
<1> HIDE DEF X2
<1>7. Built("run", n, P, X2, D, Unfold(cur))
  BY <1>5 DEF Built
<1> QED  BY <1>6, <1>7

(* A block is made, and what it is for.                                    *)
LEMMA BuiltOpens ==
    ASSUME NEW m, NEW n, NEW P, NEW X, NEW D, NEW cur, Built(m, n, P, X, D, cur),
           n < MaxBlocks, NEW k
    PROVE  \E P2, X2, D2 : /\ Keeps(P, P2) /\ Grows(X, X2) /\ Promise(P2, X2, n + 1, k)
                           /\ Built(m, n + 1, P2, X2, D2, cur)
<1> DEFINE b == n + 1
           P2 == [a \in 1 .. n + 1 |-> IF a = n + 1 THEN k ELSE P[a]]
           X2 == Add(X, {<<b, 1>>}, k)
           D2 == With(D, b, {<<b, 1>>})
<1>1. /\ n \in Nat /\ MaxBlocks \in Nat /\ b \in BB /\ b \notin Open(n) /\ b > n
      /\ n + 1 \in 1 .. MaxBlocks /\ insert \in 1 .. n /\ insert \in 1 .. n + 1 /\ insert # b
      /\ DOMAIN P = 1 .. n /\ Typed /\ insert \in BB
      /\ \A a \in BB : a > n => term[a] = "none"
  BY BlocksAssumption DEF Built, Open, BB
<1>2. term[b] = "none" /\ succs[b] = << >> /\ code[b] = << >>
  BY <1>1 DEF Typed
<1>3. Open(n + 1) = Open(n) \cup {b} /\ Open(n) \subseteq 1 .. n
  BY <1>1, <1>2 DEF Open
<1>4. \A a \in BB : a > n + 1 => term[a] = "none"
  BY <1>1 DEF BB
<1>5. Keeps(P, P2) /\ DOMAIN P2 = 1 .. n + 1 /\ P2[b] = k /\ b \in DOMAIN P2
  BY <1>1 DEF Keeps
<1>6. Grows(X, X2) /\ Leads(X2, <<b, 1>>, k)
  <2>1. <<b, 1>> \in Loc
    BY <1>1 DEF Loc
  <2> QED  BY <2>1 DEF Grows, Add, Leads
<1>7. Graph(code, term, succs, Open(n) \cup {b}, With(Spots(m), b, 1),
            With(With(P, insert, cur), b, k), X2, D2)
  BY <1>1, <1>2, Opens DEF Built
<1>8. \A a \in Open(n) \cup {b} :
         /\ Spots(m)[a] = With(Spots(m), b, 1)[a]
         /\ With(P2, insert, cur)[a] = With(With(P, insert, cur), b, k)[a]
  <2> SUFFICES ASSUME NEW a \in Open(n) \cup {b}
               PROVE  /\ Spots(m)[a] = With(Spots(m), b, 1)[a]
                      /\ With(P2, insert, cur)[a] = With(With(P, insert, cur), b, k)[a]
    OBVIOUS
  <2>1. a \in BB /\ (a # b => a \in 1 .. n)
    BY <1>1, <1>3 DEF BB
  <2>2. Len(<< >>) + 1 = 1
    OBVIOUS
  <2>3. CASE a = b
    BY <1>1, <1>2, <1>5, <2>1, <2>2, <2>3 DEF Spots, With
  <2>4. CASE a # b
    <3>1. P2[a] = P[a]
      BY <1>1, <2>1, <2>4
    <3> HIDE DEF P2, b
    <3> QED  BY <2>1, <2>4, <3>1 DEF With
  <2> QED  BY <2>3, <2>4
<1> HIDE DEF P2, X2, D2, b
<1>9. Graph(code, term, succs, Open(n + 1), Spots(m), With(P2, insert, cur), X2, D2)
  BY <1>3, <1>7, <1>8, SameGraph
<1>10. Built(m, n + 1, P2, X2, D2, cur)
  BY <1>1, <1>4, <1>5, <1>9 DEF Built
<1>11. Promise(P2, X2, n + 1, k)
  BY <1>5, <1>6 DEF Promise, b
<1> QED  BY <1>5, <1>6, <1>10, <1>11

(* The insert block gets its terminator, and another becomes the insert    *)
(* block: the block P meant it for.                                        *)
BuiltEnded(c, t, s) ==
    /\ DOMAIN c = BB /\ DOMAIN t = BB /\ DOMAIN s = BB
    /\ t[insert] # "none" /\ Extends(code, term, succs, c, t, s, insert)

(* The graph of the next state, once the blocks still open wait as before. *)
LEMMA Rebuilt ==
    ASSUME NEW m, NEW n, NEW P, NEW X, NEW D, NEW cur, Built(m, n, P, X, D, cur),
           BuiltEnded(code', term', succs'), NEW X2, NEW D2,
           Graph(code', term', succs', Open(n) \ {insert}, Spots(m), With(P, insert, cur), X2, D2),
           NEW cur2, insert' = insert \/ (insert' \in Open(n) /\ cur2 = P[insert'])
    PROVE  Built("run", n, P, X2, D2, cur2)'
<1>1. /\ n \in 1 .. MaxBlocks /\ insert \in 1 .. n /\ Typed /\ DOMAIN P = 1 .. n
      /\ \A b \in BB : b > n => term[b] = "none"
  BY DEF Built
<1>2. insert \in BB /\ 1 .. n \subseteq BB /\ \A b \in BB : b > n => b # insert
  BY <1>1, BlocksAssumption DEF BB
<1>3. /\ DOMAIN code' = BB /\ DOMAIN term' = BB /\ DOMAIN succs' = BB /\ term'[insert] # "none"
      /\ \A b \in BB : b # insert => code'[b] = code[b] /\ term'[b] = term[b] /\ succs'[b] = succs[b]
      /\ IsList(code'[insert])
  BY DEF BuiltEnded, Extends
<1>4. Typed'
  BY <1>1, <1>2, <1>3 DEF Typed
<1>5. \A b \in BB : b > n => term'[b] = "none"
  BY <1>1, <1>2, <1>3
<1>6. insert' \in 1 .. n
  BY <1>1 DEF Open
<1>7. Open(n)' = Open(n) \ {insert}
  BY <1>2, <1>3 DEF Open
<1>8. \A b \in Open(n) \ {insert} :
         Spots("run")'[b] = Spots(m)[b] /\ With(P, insert', cur2)[b] = With(P, insert, cur)[b]
  <2> SUFFICES ASSUME NEW b \in Open(n) \ {insert}
               PROVE  /\ Spots("run")'[b] = Spots(m)[b]
                      /\ With(P, insert', cur2)[b] = With(P, insert, cur)[b]
    OBVIOUS
  <2>1. b \in BB /\ b # insert /\ code'[b] = code[b]
    BY <1>2, <1>3 DEF Open
  <2>2. Spots("run")'[b] = Spots(m)[b]
    BY <2>1 DEF Spots
  <2>3. With(P, insert', cur2)[b] = With(P, insert, cur)[b]
    BY <2>1 DEF With
  <2> QED  BY <2>2, <2>3
<1>9. Graph(code', term', succs', Open(n) \ {insert}, Spots("run")', With(P, insert', cur2), X2, D2)
  <2> PICK p2 : p2 = Spots("run")'
    OBVIOUS
  <2> PICK q2 : q2 = With(P, insert', cur2)
    OBVIOUS
  <2> PICK c, t, s : c = code' /\ t = term' /\ s = succs'
    OBVIOUS
  <2>1. Graph(c, t, s, Open(n) \ {insert}, p2, q2, X2, D2)
    BY <1>8, SameGraph
  <2> QED  BY <2>1
<1> QED  BY <1>1, <1>4, <1>5, <1>6, <1>7, <1>9 DEF Built

(* A terminator without an atom.                                           *)
Closing(m, n, P, X, D, cur, kind, targets) ==
    /\ BuiltEnded(code', term', succs') /\ code' = code
    /\ term'[insert] = kind /\ succs'[insert] = targets
    /\ insert \in BB /\ insert \in Open(n) /\ Open(n) \subseteq BB
    /\ IsList(code[insert]) /\ Len(code[insert]) \in Nat
    /\ Spots(m)[insert] = (IF m = "test" THEN Len(code[insert]) ELSE Len(code[insert]) + 1)
    /\ With(P, insert, cur)[insert] = cur
    /\ Graph(code, term, succs, Open(n), Spots(m), With(P, insert, cur), X, D)

(* What the terminator changes and what it leaves.                         *)
LEMMA BuiltEnds ==
    ASSUME NEW m, NEW n, NEW P, NEW X, NEW D, NEW cur, Built(m, n, P, X, D, cur),
           term[insert] = "none", NEW kind, kind # "none", NEW targets, IsList(targets),
           Terminate(insert, kind, targets)
    PROVE  Closing(m, n, P, X, D, cur, kind, targets)
<1>1. /\ n \in 1 .. MaxBlocks /\ insert \in 1 .. n /\ Typed
      /\ Graph(code, term, succs, Open(n), Spots(m), With(P, insert, cur), X, D)
  BY DEF Built
<1>2. insert \in BB /\ insert \in Open(n) /\ Open(n) \subseteq BB
  BY <1>1, BlocksAssumption DEF BB, Open
<1>3. /\ DOMAIN code = BB /\ DOMAIN term = BB /\ DOMAIN succs = BB
      /\ IsList(code[insert]) /\ succs[insert] = << >>
  BY <1>1, <1>2 DEF Typed
<1>4. << >> \o targets = targets
  BY CatNone
<1>5. /\ code' = code /\ DOMAIN term' = BB /\ DOMAIN succs' = BB
      /\ term'[insert] = kind /\ succs'[insert] = targets
      /\ \A b \in BB : b # insert => term'[b] = term[b] /\ succs'[b] = succs[b]
  BY <1>2, <1>3, <1>4 DEF Terminate
<1>6. Len(code[insert]) \in Nat
  BY <1>3, ListLen
<1>7. Extends(code, term, succs, code', term', succs', insert)
  BY <1>2, <1>3, <1>5, <1>6 DEF Extends
<1>8. Spots(m)[insert] = IF m = "test" THEN Len(code[insert]) ELSE Len(code[insert]) + 1
  BY <1>2 DEF Spots
<1>9. With(P, insert, cur)[insert] = cur
  BY <1>2 DEF With
<1> QED  BY <1>1, <1>2, <1>3, <1>5, <1>6, <1>7, <1>8, <1>9 DEF BuiltEnded, Closing

(* It branches to a block that is still open and meant for the same.       *)
LEMMA BuiltJoins ==
    ASSUME NEW n, NEW P, NEW X, NEW D, NEW cur, Built("run", n, P, X, D, cur),
           term[insert] = "none", NEW u \in Open(n), u # insert, P[u] = cur,
           Terminate(insert, "br", <<u>>),
           NEW cur2, insert' = insert \/ (insert' \in Open(n) /\ cur2 = P[insert'])
    PROVE  \E D2 : Built("run", n, P, X, D2, cur2)'
<1>1. IsList(<<u>>) /\ <<u>>[1] = u /\ Len(<<u>>) = 1
  BY OneList
<1>2. /\ BuiltEnded(code', term', succs') /\ code' = code
      /\ term'[insert] = "br" /\ succs'[insert] = <<u>>
      /\ insert \in BB /\ insert \in Open(n) /\ Open(n) \subseteq BB
      /\ Len(code[insert]) \in Nat
      /\ Spots("run")[insert] = Len(code[insert]) + 1
      /\ With(P, insert, cur)[insert] = cur
      /\ Graph(code, term, succs, Open(n), Spots("run"), With(P, insert, cur), X, D)
  <2>1. Closing("run", n, P, X, D, cur, "br", <<u>>)
    BY <1>1, BuiltEnds
  <2> QED  BY <2>1 DEF Closing
<1>3. Extends(code, term, succs, code', term', succs', insert)
  BY <1>2 DEF BuiltEnded
<1>4. With(P, insert, cur)[u] = cur /\ Spots("run")[u] = 1
  <2>1. u \in BB /\ term[u] = "none" /\ Typed
    BY <1>2 DEF Open, Built
  <2>2. code[u] = << >>
    BY <2>1 DEF Typed
  <2> QED  BY <2>1, <2>2 DEF With, Spots
<1>5. JumpAt(code', term', succs', <<insert, Spots("run")[insert]>>) /\ succs'[insert][1] = u
  BY <1>1, <1>2 DEF JumpAt
<1> PICK D2 : D2 = With(D, u, D[u] \cup D[insert])
  OBVIOUS
<1>6. Graph(code', term', succs', Open(n) \ {insert}, Spots("run"), With(P, insert, cur), X, D2)
  <2> PICK p : p = Spots("run")
    OBVIOUS
  <2> PICK q : q = With(P, insert, cur)
    OBVIOUS
  <2>1. Graph(code', term', succs', Open(n) \ {insert}, p, q, X, D2)
    BY <1>2, <1>3, <1>4, <1>5, Joins
  <2> QED  BY <2>1
<1>7. Built("run", n, P, X, D2, cur2)'
  BY <1>2, <1>6, Rebuilt
<1> QED  BY <1>7

(* It gets a terminator that leads on.                                     *)
LEMMA BuiltCloses ==
    ASSUME NEW m, NEW n, NEW P, NEW X, NEW D, NEW cur, Built(m, n, P, X, D, cur),
           term[insert] = "none", NEW kind, kind # "none", NEW targets, IsList(targets),
           Terminate(insert, kind, targets), Ripe(cur),
           Done(code', term', succs', X, <<insert, Spots(m)[insert]>>, cur),
           NEW cur2, insert' = insert \/ (insert' \in Open(n) /\ cur2 = P[insert'])
    PROVE  Built("run", n, P, X, D, cur2)'
<1>1. /\ BuiltEnded(code', term', succs')
      /\ insert \in Open(n)
      /\ With(P, insert, cur)[insert] = cur
      /\ Graph(code, term, succs, Open(n), Spots(m), With(P, insert, cur), X, D)
  <2>1. Closing(m, n, P, X, D, cur, kind, targets)
    BY BuiltEnds
  <2> QED  BY <2>1 DEF Closing
<1>2. Extends(code, term, succs, code', term', succs', insert)
  BY <1>1 DEF BuiltEnded
<1>3. Graph(code', term', succs', Open(n) \ {insert}, Spots(m), With(P, insert, cur), X, D)
  <2> PICK p : p = Spots(m)
    OBVIOUS
  <2> PICK q : q = With(P, insert, cur)
    OBVIOUS
  <2>1. Graph(code', term', succs', Open(n) \ {insert}, p, q, X, D)
    BY <1>1, <1>2, Closes
  <2> QED  BY <2>1
<1> QED  BY <1>1, <1>3, Rebuilt

(* It branches to a place that leads on, back to a loop for one.           *)
LEMMA BuiltJumps ==
    ASSUME NEW n, NEW P, NEW X, NEW D, NEW cur, Built("run", n, P, X, D, cur),
           term[insert] = "none", NEW u, Terminate(insert, "br", <<u>>),
           Ripe(cur), Leads(X, <<u, 1>>, cur),
           NEW cur2, insert' = insert \/ (insert' \in Open(n) /\ cur2 = P[insert'])
    PROVE  Built("run", n, P, X, D, cur2)'
<1>1. IsList(<<u>>) /\ <<u>>[1] = u /\ Len(<<u>>) = 1
  BY OneList
<1>2. /\ code' = code /\ term'[insert] = "br" /\ succs'[insert] = <<u>>
      /\ Len(code[insert]) \in Nat /\ Spots("run")[insert] = Len(code[insert]) + 1
  <2>1. Closing("run", n, P, X, D, cur, "br", <<u>>)
    BY <1>1, BuiltEnds
  <2> QED  BY <2>1 DEF Closing
<1>3. JumpAt(code', term', succs', <<insert, Spots("run")[insert]>>) /\ succs'[insert][1] = u
  BY <1>1, <1>2 DEF JumpAt
<1>4. Done(code', term', succs', X, <<insert, Spots("run")[insert]>>, cur)
  BY <1>3 DEF Done
<1> QED  BY <1>1, <1>4, BuiltCloses

(* It branches on the atom it ends in.                                     *)
LEMMA BuiltBranches ==
    ASSUME NEW n, NEW P, NEW X, NEW D, NEW cur, Built("test", n, P, X, D, cur),
           term[insert] = "none", NEW u, NEW v, Terminate(insert, "br", <<u, v>>),
           Len(code[insert]) # 0, NEW y, NEW z, Asks(cur, code[insert][Len(code[insert])], y, z),
           Leads(X, <<u, 1>>, y), Leads(X, <<v, 1>>, z),
           NEW cur2, insert' = insert \/ (insert' \in Open(n) /\ cur2 = P[insert'])
    PROVE  Built("run", n, P, X, D, cur2)'
<1>1. IsList(<<u, v>>) /\ <<u, v>>[1] = u /\ <<u, v>>[2] = v /\ Len(<<u, v>>) = 2
  <2>1. <<u, v>> \in Seq({u, v})
    OBVIOUS
  <2> QED  BY <2>1 DEF IsList
<1> DEFINE l == <<insert, Len(code[insert])>>
<1>2. /\ code' = code /\ term'[insert] = "br" /\ succs'[insert] = <<u, v>>
      /\ IsList(code[insert]) /\ Len(code[insert]) \in Nat
      /\ Spots("test")[insert] = Len(code[insert])
  <2>1. Closing("test", n, P, X, D, cur, "br", <<u, v>>)
    BY <1>1, BuiltEnds
  <2> QED  BY <2>1 DEF Closing
<1>3. Len(code[insert]) \in DOMAIN code[insert]
  BY <1>2, ListLen
<1>4. /\ cur # << >> /\ Head(cur).k = "test" /\ Head(cur).c[1][1] = code[insert][Len(code[insert])]
      /\ After(cur, TRUE) = y /\ After(cur, FALSE) = z
  BY DEF Asks
<1>5. Ripe(cur)
  BY <1>4 DEF Ripe, Atomic
<1>6. ~JumpAt(code', term', succs', l)
  BY <1>2 DEF JumpAt
<1>7. Fits(code', term', succs', l, cur)
  BY <1>1, <1>2, <1>3, <1>4 DEF Fits
<1>8. Follows(succs', X, l, cur)
  <2>1. \A o \in BOOLEAN : o = TRUE \/ o = FALSE
    OBVIOUS
  <2>2. Leads(X, <<succs'[l[1]][1], 1>>, After(cur, TRUE))
    BY <1>1, <1>2, <1>4
  <2>3. Leads(X, <<succs'[l[1]][2], 1>>, After(cur, FALSE))
    BY <1>1, <1>2, <1>4
  <2>4. ASSUME NEW o \in BOOLEAN
        PROVE  Leads(X, <<succs'[l[1]][IF o THEN 1 ELSE 2], 1>>, After(cur, o))
    <3>1. CASE o = TRUE
      BY <2>2, <3>1
    <3>2. CASE o = FALSE
      BY <2>3, <3>2
    <3> QED  BY <3>1, <3>2
  <2> HIDE DEF l
  <2> QED  BY <1>4, <2>4 DEF Follows
<1>9. Done(code', term', succs', X, <<insert, Spots("test")[insert]>>, cur)
  BY <1>2, <1>5, <1>6, <1>7, <1>8 DEF Done
<1> QED  BY <1>1, <1>5, <1>9, BuiltCloses

(* The function is over.                                                   *)
LEMMA BuiltLeaves ==
    ASSUME NEW n, NEW P, NEW X, NEW D, Built("run", n, P, X, D, << >>),
           term[insert] = "none", Terminate(insert, "ret", << >>), insert' = insert
    PROVE  Built("run", n, P, X, D, << >>)'
<1> DEFINE e == << >>
<1>1. IsList(e)
  <2>1. e \in Seq({})
    OBVIOUS
  <2> QED  BY <2>1 DEF IsList
<1>2. /\ code' = code /\ term'[insert] = "ret"
      /\ Len(code[insert]) \in Nat /\ Spots("run")[insert] = Len(code[insert]) + 1
  <2> HIDE DEF e
  <2>1. Built("run", n, P, X, D, e) /\ Terminate(insert, "ret", e)
    BY DEF e
  <2> QED  BY <1>1, <2>1, BuiltEnds DEF Closing
<1>3. Ripe(e) /\ Done(code', term', succs', X, <<insert, Spots("run")[insert]>>, e)
  BY <1>2 DEF Ripe, Done, JumpAt, Fits
<1>4. Built("run", n, P, X, D, e)'
  <2> HIDE DEF e
  <2>1. Built("run", n, P, X, D, e) /\ Terminate(insert, "ret", e)
    BY DEF e
  <2> QED  BY <1>1, <1>3, <2>1, BuiltCloses
<1> QED  BY <1>4

(* Nothing is added, and the insert block is left only when it is closed.  *)
LEMMA BuiltMoves ==
    ASSUME NEW m, NEW n, NEW P, NEW X, NEW D, NEW cur, Built(m, n, P, X, D, cur),
           UNCHANGED <<code, term, succs>>,
           NEW m2, NEW cur2,
           \/ insert' = insert /\ ((m2 = m /\ cur2 = cur) \/ term[insert] # "none")
           \/ term[insert] # "none" /\ insert' \in Open(n) /\ cur2 = P[insert'] /\ m2 = "run"
    PROVE  Built(m2, n, P, X, D, cur2)'
<1>1. /\ n \in 1 .. MaxBlocks /\ insert \in 1 .. n /\ Typed /\ DOMAIN P = 1 .. n
      /\ \A b \in BB : b > n => term[b] = "none"
      /\ Graph(code, term, succs, Open(n), Spots(m), With(P, insert, cur), X, D)
  BY DEF Built
<1>2. insert \in BB /\ 1 .. n \subseteq BB
  BY <1>1, BlocksAssumption DEF BB
<1>3. code' = code /\ term' = term /\ succs' = succs
  OBVIOUS
<1>4. insert' \in 1 .. n
  BY <1>1 DEF Open
<1>5. Typed'
  BY <1>1, <1>3 DEF Typed
<1>6. Open(n)' = Open(n)
  BY <1>3 DEF Open
<1>7. \A b \in Open(n) :
         Spots(m2)'[b] = Spots(m)[b] /\ With(P, insert', cur2)[b] = With(P, insert, cur)[b]
  <2> SUFFICES ASSUME NEW b \in Open(n)
               PROVE  /\ Spots(m2)'[b] = Spots(m)[b]
                      /\ With(P, insert', cur2)[b] = With(P, insert, cur)[b]
    OBVIOUS
  <2>1. b \in BB /\ term[b] = "none"
    BY <1>2 DEF Open
  <2>2. CASE insert' = insert
    BY <1>3, <2>1, <2>2 DEF Spots, With
  <2>3. CASE insert' # insert
    BY <1>3, <2>1, <2>3 DEF Spots, With
  <2> QED  BY <2>2, <2>3
<1>8. Graph(code', term', succs', Open(n), Spots(m2)', With(P, insert', cur2), X, D)
  <2> PICK p2 : p2 = Spots(m2)'
    OBVIOUS
  <2> PICK q2 : q2 = With(P, insert', cur2)
    OBVIOUS
  <2>1. Graph(code, term, succs, Open(n), p2, q2, X, D)
    BY <1>1, <1>7, SameGraph
  <2> QED  BY <1>3, <2>1
<1> QED  BY <1>1, <1>3, <1>4, <1>5, <1>6, <1>8 DEF Built

(* An atom is added to the insert block.                                   *)
Written(a, c) ==
    /\ DOMAIN c = BB /\ Extends(code, term, succs, c, term, succs, insert)
    /\ Len(c[insert]) = Len(code[insert]) + 1 /\ c[insert][Len(code[insert]) + 1] = a

Emitting(n, P, cur, a) ==
    /\ Written(a, code')
    /\ insert \in BB /\ insert \in Open(n) /\ Open(n) \subseteq BB
    /\ IsList(code[insert]) /\ Len(code[insert]) \in Nat
    /\ Spots("run")[insert] = Len(code[insert]) + 1
    /\ With(P, insert, cur)[insert] = cur

(* What the atom changes and what it leaves.                               *)
LEMMA BuiltEmits ==
    ASSUME NEW m, NEW n, NEW P, NEW X, NEW D, NEW cur, Built(m, n, P, X, D, cur),
           term[insert] = "none", NEW a, code' = [code EXCEPT ![insert] = Append(@, a)]
    PROVE  Emitting(n, P, cur, a)
<1>1. n \in 1 .. MaxBlocks /\ insert \in 1 .. n /\ Typed
  BY DEF Built
<1>2. insert \in BB /\ insert \in Open(n) /\ Open(n) \subseteq BB
  BY <1>1, BlocksAssumption DEF BB, Open
<1>3. DOMAIN code = BB /\ IsList(code[insert]) /\ succs[insert] = << >>
  BY <1>1, <1>2 DEF Typed
<1> DEFINE e == code[insert]
<1>4. /\ IsList(Append(e, a)) /\ Len(e) \in Nat /\ Len(Append(e, a)) = Len(e) + 1
      /\ Append(e, a)[Len(e) + 1] = a /\ \A i \in 1 .. Len(e) : Append(e, a)[i] = e[i]
  <2> HIDE DEF e
  <2>1. IsList(e)
    BY <1>3 DEF e
  <2> QED  BY <2>1, Appended
<1>5. /\ DOMAIN code' = BB /\ code'[insert] = Append(e, a)
      /\ \A b \in BB : b # insert => code'[b] = code[b]
  BY <1>2, <1>3
<1>6. Len(e) <= Len(Append(e, a))
  BY <1>4
<1> HIDE DEF e
<1>7. Extends(code, term, succs, code', term, succs, insert)
  BY <1>3, <1>4, <1>5, <1>6 DEF Extends, e
<1>8. Written(a, code')
  BY <1>4, <1>5, <1>7 DEF Written, e
<1>9. Spots("run")[insert] = Len(code[insert]) + 1 /\ With(P, insert, cur)[insert] = cur
  BY <1>2 DEF Spots, With
<1> QED  BY <1>2, <1>3, <1>4, <1>8, <1>9 DEF Emitting, e

(* What is kept when nothing but an atom is added.                         *)
LEMMA BuiltWritten ==
    ASSUME NEW m, NEW n, NEW P, NEW X, NEW D, NEW cur, Built(m, n, P, X, D, cur),
           NEW a, Written(a, code'), UNCHANGED <<term, succs, insert>>,
           NEW m2, NEW X2, NEW D2, NEW cur2,
           Graph(code', term, succs, Open(n), Spots(m2)', With(P, insert, cur2), X2, D2)
    PROVE  Built(m2, n, P, X2, D2, cur2)'
<1>1. /\ n \in 1 .. MaxBlocks /\ insert \in 1 .. n /\ Typed /\ DOMAIN P = 1 .. n
      /\ \A b \in BB : b > n => term[b] = "none"
  BY DEF Built
<1>2. term' = term /\ succs' = succs /\ insert' = insert
  OBVIOUS
<1>3. /\ DOMAIN code' = BB /\ IsList(code'[insert])
      /\ \A b \in BB : b # insert => code'[b] = code[b]
  BY DEF Written, Extends
<1>4. Typed'
  BY <1>1, <1>2, <1>3 DEF Typed
<1>5. Open(n)' = Open(n)
  BY <1>2 DEF Open
<1> QED  BY <1>1, <1>2, <1>4, <1>5 DEF Built

(* A statement is written.                                                 *)
LEMMA BuiltActs ==
    ASSUME NEW n, NEW P, NEW X, NEW D, NEW cur, Built("run", n, P, X, D, cur),
           term[insert] = "none", cur # << >>, Head(cur).k = "act",
           code' = [code EXCEPT ![insert] = Append(@, Head(cur).id)],
           UNCHANGED <<term, succs, insert>>
    PROVE  \E X2, D2 : Grows(X, X2) /\ Built("run", n, P, X2, D2, Tail(cur))'
<1> DEFINE a == Head(cur).id
<1>1. /\ Written(a, code') /\ insert \in BB /\ insert \in Open(n) /\ Open(n) \subseteq BB
      /\ IsList(code[insert]) /\ Len(code[insert]) \in Nat
      /\ Spots("run")[insert] = Len(code[insert]) + 1
      /\ With(P, insert, cur)[insert] = cur
  <2>1. Emitting(n, P, cur, a)
    BY BuiltEmits
  <2> QED  BY <2>1 DEF Emitting
<1>2. /\ Extends(code, term, succs, code', term, succs, insert)
      /\ Len(code'[insert]) = Len(code[insert]) + 1 /\ code'[insert][Len(code[insert]) + 1] = a
      /\ \A b \in BB : b # insert => code'[b] = code[b]
  BY <1>1 DEF Written, Extends
<1>3. Graph(code, term, succs, Open(n), Spots("run"), With(P, insert, cur), X, D)
  BY DEF Built
<1> PICK p : p = Spots("run")
  OBVIOUS
<1> PICK q : q = With(P, insert, cur)
  OBVIOUS
<1> PICK o : o = insert
  OBVIOUS
<1> PICK X2 : X2 = Add(X, {<<o, p[o] + 1>>}, Tail(cur))
  OBVIOUS
<1> PICK D2 : D2 = With(D, o, {<<o, p[o] + 1>>})
  OBVIOUS
<1>4. Graph(code', term, succs, Open(n), With(p, o, p[o] + 1), With(q, o, Tail(cur)), X2, D2)
  <2>1. /\ Graph(code, term, succs, Open(n), p, q, X, D) /\ o \in Open(n)
        /\ Extends(code, term, succs, code', term, succs, o)
        /\ p[o] = Len(code[o]) + 1 /\ Len(code'[o]) = Len(code[o]) + 1
        /\ q[o] = cur /\ q[o] # << >> /\ Head(q[o]).k = "act" /\ code'[o][p[o]] = Head(q[o]).id
    BY <1>1, <1>2, <1>3
  <2>2. Graph(code', term, succs, Open(n), With(p, o, p[o] + 1), With(q, o, Tail(q[o])),
              Add(X, {<<o, p[o] + 1>>}, Tail(q[o])), With(D, o, {<<o, p[o] + 1>>}))
    <3> PICK c, t, s, c2 : c = code /\ t = term /\ s = succs /\ c2 = code'
      OBVIOUS
    <3> PICK O : O = Open(n)
      OBVIOUS
    <3>1. /\ Graph(c, t, s, O, p, q, X, D) /\ o \in O
          /\ Extends(c, t, s, c2, t, s, o)
          /\ p[o] = Len(c[o]) + 1 /\ Len(c2[o]) = Len(c[o]) + 1
          /\ q[o] # << >> /\ Head(q[o]).k = "act" /\ c2[o][p[o]] = Head(q[o]).id
      BY <2>1
    <3>2. Graph(c2, t, s, O, With(p, o, p[o] + 1), With(q, o, Tail(q[o])),
                Add(X, {<<o, p[o] + 1>>}, Tail(q[o])), With(D, o, {<<o, p[o] + 1>>}))
      BY ONLY <3>1, Acts
    <3> QED  BY <3>2
  <2> QED  BY <2>1, <2>2
<1>5. \A b \in Open(n) :
         /\ Spots("run")'[b] = With(p, o, p[o] + 1)[b]
         /\ With(P, insert, Tail(cur))[b] = With(q, o, Tail(cur))[b]
  <2> SUFFICES ASSUME NEW b \in Open(n)
               PROVE  /\ Spots("run")'[b] = With(p, o, p[o] + 1)[b]
                      /\ With(P, insert, Tail(cur))[b] = With(q, o, Tail(cur))[b]
    OBVIOUS
  <2>1. b \in BB
    BY <1>1
  <2>2. Spots("run")'[b] = Len(code'[b]) + 1 /\ p[b] = Len(code[b]) + 1
    BY <2>1 DEF Spots
  <2>3. Spots("run")'[b] = With(p, o, p[o] + 1)[b]
    BY <1>1, <1>2, <2>1, <2>2 DEF With
  <2>4. With(P, insert, Tail(cur))[b] = With(q, o, Tail(cur))[b]
    BY <2>1 DEF With
  <2> QED  BY <2>3, <2>4
<1>6. Graph(code', term, succs, Open(n), Spots("run")', With(P, insert, Tail(cur)), X2, D2)
  <2> PICK p2 : p2 = Spots("run")'
    OBVIOUS
  <2> PICK p3 : p3 = With(p, o, p[o] + 1)
    OBVIOUS
  <2> PICK q2 : q2 = With(P, insert, Tail(cur))
    OBVIOUS
  <2> PICK q3 : q3 = With(q, o, Tail(cur))
    OBVIOUS
  <2>1. Graph(code', term, succs, Open(n), p3, q3, X2, D2) /\ \A b \in Open(n) : p2[b] = p3[b] /\ q2[b] = q3[b]
    BY <1>4, <1>5
  <2>2. Graph(code', term, succs, Open(n), p2, q2, X2, D2)
    BY <2>1, SameGraph
  <2> QED  BY <2>2
<1>7. Built("run", n, P, X2, D2, Tail(cur))'
  BY <1>1, <1>6, BuiltWritten
<1>8. Grows(X, X2)
  BY DEF Add, Grows
<1> QED  BY <1>7, <1>8

(* A value is returned.                                                    *)
LEMMA BuiltReturns ==
    ASSUME NEW n, NEW P, NEW X, NEW D, NEW cur, Built("run", n, P, X, D, cur),
           term[insert] = "none", cur # << >>, Head(cur).k = "ret",
           code' = [code EXCEPT ![insert] = Append(@, Head(cur).id)],
           term' = [term EXCEPT ![insert] = "ret"], UNCHANGED <<succs, insert>>
    PROVE  \E X2 : Grows(X, X2) /\ Built("run", n, P, X2, D, cur)'
<1> DEFINE a == Head(cur).id
<1>1. /\ Written(a, code') /\ insert \in BB /\ insert \in Open(n) /\ Open(n) \subseteq BB
      /\ IsList(code[insert]) /\ Len(code[insert]) \in Nat
      /\ Spots("run")[insert] = Len(code[insert]) + 1
      /\ With(P, insert, cur)[insert] = cur
  <2>1. Emitting(n, P, cur, a)
    BY BuiltEmits
  <2> QED  BY <2>1 DEF Emitting
<1>2. /\ DOMAIN code' = BB /\ Extends(code, term, succs, code', term, succs, insert)
      /\ Len(code'[insert]) = Len(code[insert]) + 1 /\ code'[insert][Len(code[insert]) + 1] = a
  BY <1>1 DEF Written
<1>3. DOMAIN term = BB /\ DOMAIN succs = BB
  BY DEF Built, Typed
<1>4. DOMAIN term' = BB /\ term'[insert] = "ret" /\ \A b \in BB : b # insert => term'[b] = term[b]
  BY <1>1, <1>3
<1>5. Extends(code, term, succs, code', term', succs', insert)
  BY <1>2, <1>4 DEF Extends
<1>6. BuiltEnded(code', term', succs')
  BY <1>2, <1>3, <1>4, <1>5 DEF BuiltEnded
<1>7. Graph(code, term, succs, Open(n), Spots("run"), With(P, insert, cur), X, D)
  BY DEF Built
<1> PICK p : p = Spots("run")
  OBVIOUS
<1> PICK q : q = With(P, insert, cur)
  OBVIOUS
<1> PICK o : o = insert
  OBVIOUS
<1> PICK X2 : X2 = Add(X, {<<o, p[o] + 1>>}, << >>)
  OBVIOUS
<1>8. Graph(code', term', succs', Open(n) \ {o}, p, q, X2, D)
  <2>1. /\ Graph(code, term, succs, Open(n), p, q, X, D) /\ o \in Open(n)
        /\ Extends(code, term, succs, code', term', succs', o) /\ term'[o] = "ret"
        /\ p[o] = Len(code[o]) + 1 /\ Len(code'[o]) = Len(code[o]) + 1
        /\ q[o] # << >> /\ Head(q[o]).k = "ret" /\ code'[o][p[o]] = Head(q[o]).id
    BY <1>1, <1>2, <1>4, <1>5, <1>7
  <2> QED  BY <2>1, Returns
<1>9. Graph(code', term', succs', Open(n) \ {insert}, Spots("run"), With(P, insert, cur), X2, D)
  BY <1>8
<1>10. Built("run", n, P, X2, D, cur)'
  BY <1>6, <1>9, Rebuilt
<1>11. Grows(X, X2)
  BY DEF Add, Grows
<1> QED  BY <1>10, <1>11

(* An operand of a condition is written, to be branched on next.           *)
LEMMA BuiltTries ==
    ASSUME NEW n, NEW P, NEW X, NEW D, NEW cur, Built("run", n, P, X, D, cur),
           term[insert] = "none", NEW a, code' = [code EXCEPT ![insert] = Append(@, a)],
           UNCHANGED <<term, succs, insert>>
    PROVE  /\ Built("test", n, P, X, D, cur)'
           /\ Len(code'[insert]) # 0 /\ code'[insert][Len(code'[insert])] = a
<1>1. /\ Written(a, code') /\ insert \in BB /\ insert \in Open(n) /\ Open(n) \subseteq BB
      /\ IsList(code[insert]) /\ Len(code[insert]) \in Nat
      /\ Spots("run")[insert] = Len(code[insert]) + 1
      /\ With(P, insert, cur)[insert] = cur
  <2>1. Emitting(n, P, cur, a)
    BY BuiltEmits
  <2> QED  BY <2>1 DEF Emitting
<1>2. /\ Extends(code, term, succs, code', term, succs, insert)
      /\ Len(code'[insert]) = Len(code[insert]) + 1 /\ code'[insert][Len(code[insert]) + 1] = a
      /\ \A b \in BB : b # insert => code'[b] = code[b]
  BY <1>1 DEF Written, Extends
<1>3. Graph(code, term, succs, Open(n), Spots("run"), With(P, insert, cur), X, D)
  BY DEF Built
<1>4. Graph(code', term, succs, Open(n), Spots("run"), With(P, insert, cur), X, D)
  <2> PICK p : p = Spots("run")
    OBVIOUS
  <2> PICK q : q = With(P, insert, cur)
    OBVIOUS
  <2>1. Graph(code', term, succs, Open(n), p, q, X, D)
    BY <1>1, <1>2, <1>3, Tried
  <2> QED  BY <2>1
<1>5. \A b \in Open(n) : Spots("test")'[b] = Spots("run")[b]
  <2> SUFFICES ASSUME NEW b \in Open(n) PROVE Spots("test")'[b] = Spots("run")[b]
    OBVIOUS
  <2>1. b \in BB
    BY <1>1
  <2>2. Spots("test")'[b] = (IF b = insert THEN Len(code'[b]) ELSE Len(code'[b]) + 1)
        /\ Spots("run")[b] = Len(code[b]) + 1
    BY <2>1 DEF Spots
  <2> QED  BY <1>2, <2>1, <2>2
<1>6. Graph(code', term, succs, Open(n), Spots("test")', With(P, insert, cur), X, D)
  <2> PICK p : p = Spots("run")
    OBVIOUS
  <2> PICK p2 : p2 = Spots("test")'
    OBVIOUS
  <2> PICK q : q = With(P, insert, cur)
    OBVIOUS
  <2>1. Graph(code', term, succs, Open(n), p, q, X, D) /\ \A b \in Open(n) : p2[b] = p[b] /\ q[b] = q[b]
    BY <1>4, <1>5
  <2>2. Graph(code', term, succs, Open(n), p2, q, X, D)
    BY <2>1, SameGraph
  <2> QED  BY <2>2
<1>7. Built("test", n, P, X, D, cur)'
  BY <1>1, <1>6, BuiltWritten
<1> QED  BY <1>1, <1>2, <1>7

-----------------------------------------------------------------------------
(* The simulation: frames for the pending visits, a graph for the blocks.  *)
(* The frame of the current visit has the stacks and says what is to be    *)
(* done at the insert block.                                               *)
Stacks(f) == f.ts = trueStack /\ f.fs = falseStack /\ f.ls = loopStack

Ready(f, cur) ==
    term[insert] = "none" =>
        IF f.mode = "test"
        THEN Len(code[insert]) # 0 /\ Asks(cur, code[insert][Len(code[insert])], f.yes, f.no)
        ELSE cur = f.k

Sim(F, P, X, D, cur) ==
    /\ Framed(work, F, P, X) /\ Stacks(F[1]) /\ Ready(F[1], cur)
    /\ Built(F[1].mode, count, P, X, D, cur)
    /\ at = 1 /\ pos = 1 /\ Leads(X, <<1, 1>>, cont)

Simulated == \E F, P, X, D, cur : Sim(F, P, X, D, cur)

(* The link of a visit is that of its operation.                           *)
Linked(w, f, g, P, X) ==
    /\ w.op = "stmt" => StmtLink(w, f, g)
    /\ w.op = "items" => ItemsLink(w, f, g)
    /\ w.op = "ifBranch" => IfBranchLink(w, f, g, P, X)
    /\ w.op = "ifElse" => IfElseLink(w, f, g, P, X)
    /\ w.op = "ifMerge" => IfMergeLink(w, f, g, P, X)
    /\ w.op = "whileBranch" => WhileBranchLink(w, f, g, P, X)
    /\ w.op = "whileEnd" => WhileEndLink(w, f, g, P, X)
    /\ w.op = "lor" => LOrLink(w, f, g, X)
    /\ w.op = "lorRight" => LOrRightLink(w, f, g, P, X)
    /\ w.op = "land" => LAndLink(w, f, g, X)
    /\ w.op = "landRight" => LAndRightLink(w, f, g, P, X)

(* The operation says which of the links it is.                            *)
LEMMA LinkedBy ==
    ASSUME NEW w, NEW f, NEW g, NEW P, NEW X, Link(w, f, g, P, X)
    PROVE  Linked(w, f, g, P, X)
<1>1. CASE StmtLink(w, f, g)
  BY <1>1 DEF Linked, StmtLink
<1>2. CASE ItemsLink(w, f, g)
  BY <1>2 DEF Linked, ItemsLink
<1>3. CASE IfBranchLink(w, f, g, P, X)
  BY <1>3 DEF Linked, IfBranchLink
<1>4. CASE IfElseLink(w, f, g, P, X)
  BY <1>4 DEF Linked, IfElseLink
<1>5. CASE IfMergeLink(w, f, g, P, X)
  BY <1>5 DEF Linked, IfMergeLink
<1>6. CASE WhileBranchLink(w, f, g, P, X)
  BY <1>6 DEF Linked, WhileBranchLink
<1>7. CASE WhileEndLink(w, f, g, P, X)
  BY <1>7 DEF Linked, WhileEndLink
<1>8. CASE LOrLink(w, f, g, X)
  BY <1>8 DEF Linked, LOrLink
<1>9. CASE LOrRightLink(w, f, g, P, X)
  BY <1>9 DEF Linked, LOrRightLink
<1>10. CASE LAndLink(w, f, g, X)
  BY <1>10 DEF Linked, LAndLink
<1>11. CASE LAndRightLink(w, f, g, P, X)
  BY <1>11 DEF Linked, LAndRightLink
<1> QED  BY <1>1, <1>2, <1>3, <1>4, <1>5, <1>6, <1>7, <1>8, <1>9, <1>10, <1>11 DEF Link

(* What is known when a visit goes on.                                     *)
Known(F, P, X, D, cur) ==
    /\ Linked(Now, F[1], F[2], P, X) /\ InLoop(F[1], P, X) /\ InLoop(F[2], P, X)
    /\ Inside(F[1]) => Behind(F[1], work, 1)
    /\ Stacks(F[1]) /\ Ready(F[1], cur) /\ Built(F[1].mode, count, P, X, D, cur)
    /\ IsList(work) /\ Framed(Tail(work), Tail(F), P, X) /\ Tail(F)[1] = F[2]
    /\ term[insert] = "none" \/ Tolerates(Now)
    /\ \A j \in 1 .. Len(work) : \A b \in Future(work[j]) : b \in Open(count) /\ b # insert
    /\ \A b \in Future(Now) : b \in Open(count) /\ b # insert
    /\ at = 1 /\ pos = 1 /\ Leads(X, <<1, 1>>, cont)

(* The simulation, seen from the current visit.                            *)
LEMMA SimKnown ==
    ASSUME BlockInv, status = "lower", work # << >>,
           NEW F, NEW P, NEW X, NEW D, NEW cur, Sim(F, P, X, D, cur)
    PROVE  Known(F, P, X, D, cur)
<1>1. /\ Framed(work, F, P, X) /\ Stacks(F[1]) /\ Ready(F[1], cur)
      /\ Built(F[1].mode, count, P, X, D, cur)
      /\ at = 1 /\ pos = 1 /\ Leads(X, <<1, 1>>, cont)
  BY DEF Sim
<1>2. /\ Framed(Tail(work), Tail(F), P, X) /\ Tail(F)[1] = F[2]
      /\ Link(Now, F[1], F[2], P, X) /\ InLoop(F[1], P, X) /\ InLoop(F[2], P, X)
  BY <1>1, Pop DEF Now
<1>3. Linked(Now, F[1], F[2], P, X)
  BY <1>2, LinkedBy
<1>4. /\ Blocks /\ IsList(work) /\ (term[insert] = "none" \/ Tolerates(Now))
  BY Current
<1>5. Len(work) \in Nat /\ DOMAIN work = 1 .. Len(work) /\ Len(work) # 0
  BY <1>4, ListLen, EmptySeq DEF IsList
<1>6. \A j \in 1 .. Len(work) : \A b \in Future(work[j]) : b \in Open(count) /\ b # insert
  BY <1>4, <1>5 DEF Blocks, Open, Terminated
<1>7. 1 \in 1 .. Len(work) /\ Now = work[1]
  <2>1. PICK S : work \in Seq(S)
    BY <1>4 DEF IsList
  <2> QED  BY <1>5, <2>1, HeadTailProperties DEF Now
<1>8. \A b \in Future(Now) : b \in Open(count) /\ b # insert
  BY <1>6, <1>7
<1>9. Inside(F[1]) => Behind(F[1], work, 1)
  BY <1>1, <1>7 DEF Framed
<1> QED  BY <1>1, <1>2, <1>3, <1>4, <1>6, <1>8, <1>9 DEF Known

(* The visits that replace the current one, with their frames.             *)
Replaced(F, P, X, f) ==
    \/ Then(<< >>) /\ f = F[2]
    \/ \E a : Then(<<a>>) /\ Link(a, f, F[2], P, X)
    \/ \E a, c, g : Then(<<a, c>>) /\ Link(c, g, F[2], P, X) /\ Link(a, f, g, P, X)

(* What is put before a list is its first element.                         *)
LEMMA FirstOf ==
    ASSUME NEW x, NEW r, IsList(r)
    PROVE  (<<x>> \o r)[1] = x
<1> DEFINE q == <<x>> \o r
<1>1. IsCons(q, x, r)
  BY DEF IsCons
<1> HIDE DEF q
<1>2. q[1] = x
  BY <1>1, Consed
<1> QED  BY <1>2 DEF q

(* Once the visits are replaced, the graph goes on and the first frame     *)
(* fits, the simulation holds again.                                       *)
LEMMA SimTurn ==
    ASSUME NEW F, NEW P, NEW X, NEW D, NEW cur, Known(F, P, X, D, cur),
           NEW P2, NEW X2, Keeps(P, P2), Grows(X, X2),
           NEW f, Replaced(F, P2, X2, f), Stacks(f)', NEW cur2, Ready(f, cur2)',
           NEW n, n = count', NEW D2, Built(f.mode, n, P2, X2, D2, cur2)', UNCHANGED runVars
    PROVE  Simulated'
<1>1. /\ Framed(Tail(work), Tail(F), P, X) /\ Tail(F)[1] = F[2] /\ IsList(work)
      /\ at = 1 /\ pos = 1 /\ Leads(X, <<1, 1>>, cont)
  BY DEF Known
<1>2. /\ Framed(Tail(work), Tail(F), P2, X2) /\ IsList(Tail(work)) /\ IsList(Tail(F))
  <2>1. Framed(Tail(work), Tail(F), P2, X2)
    BY <1>1, FramedOn
  <2> QED  BY <2>1 DEF Framed
<1>3. \E F2 : Framed(work', F2, P2, X2) /\ F2[1] = f
  <2>1. CASE Then(<< >>) /\ f = F[2]
    <3>1. << >> \o Tail(work) = Tail(work)
      BY <1>2, CatNone
    <3>2. work' = Tail(work)
      BY <2>1, <3>1 DEF Then
    <3> QED  BY <1>1, <1>2, <2>1, <3>2
  <2>2. CASE \E a : Then(<<a>>) /\ Link(a, f, F[2], P2, X2)
    <3>1. PICK a : Then(<<a>>) /\ Link(a, f, F[2], P2, X2)
      BY <2>2
    <3>2. Framed(<<a>> \o Tail(work), <<f>> \o Tail(F), P2, X2)
      BY <1>1, <1>2, <3>1, Push
    <3>3. work' = <<a>> \o Tail(work)
      BY <3>1 DEF Then
    <3>4. (<<f>> \o Tail(F))[1] = f
      BY <1>2, FirstOf
    <3> QED  BY <3>2, <3>3, <3>4
  <2>3. CASE \E a, c, g : Then(<<a, c>>) /\ Link(c, g, F[2], P2, X2) /\ Link(a, f, g, P2, X2)
    <3>1. PICK a, c, g : Then(<<a, c>>) /\ Link(c, g, F[2], P2, X2) /\ Link(a, f, g, P2, X2)
      BY <2>3
    <3>2. PICK t : t = Tail(work)
      OBVIOUS
    <3>3. PICK s : s = <<c>> \o t
      OBVIOUS
    <3>4. PICK G : G = <<g>> \o Tail(F)
      OBVIOUS
    <3>5. Framed(s, G, P2, X2) /\ G[1] = g
      <4>1. Framed(<<c>> \o t, <<g>> \o Tail(F), P2, X2)
        BY <1>1, <1>2, <3>1, <3>2, Push
      <4> QED  BY <1>2, <3>3, <3>4, <4>1, FirstOf
    <3>6. Framed(<<a>> \o s, <<f>> \o G, P2, X2)
      BY <3>1, <3>5, Push
    <3>7. (<<f>> \o G)[1] = f
      BY <3>5, FirstOf DEF Framed
    <3>8. work' = <<a>> \o s
      <4>1. IsCons(work', a, <<c>> \o Tail(work))
        BY <1>2, <3>1, Thens
      <4> QED  BY <3>2, <3>3, <4>1 DEF IsCons
    <3> QED  BY <3>6, <3>7, <3>8
  <2> QED  BY <2>1, <2>2, <2>3 DEF Replaced
<1>4. PICK F2 : Framed(work', F2, P2, X2) /\ F2[1] = f
  BY <1>3
<1>5. at' = 1 /\ pos' = 1 /\ cont' = cont /\ Leads(X2, <<1, 1>>, cont)
  BY <1>1, LeadsOn DEF runVars
<1>6. Sim(F2, P2, X2, D2, cur2)'
  BY <1>4, <1>5 DEF Sim
<1> QED  BY <1>6 DEF Simulated

-----------------------------------------------------------------------------
(* The statements that branch nowhere and those that leave.                *)
LEMMA SameParts ==
    ASSUME NEW P, NEW X
    PROVE  Keeps(P, P) /\ Grows(X, X)
BY DEF Keeps, Grows

(* A simple statement is what is to be done first.                         *)
Simple(F, P, X, D, cur) ==
    /\ Around(F[2]) /\ SameFrame(F[1], F[2]) /\ IsStmt(Now.n, Inside(F[2]))
    /\ cur = <<Now.n>> \o F[2].k /\ IsList(F[2].k)
    /\ cur # << >> /\ Head(cur) = Now.n /\ Tail(cur) = F[2].k
    /\ term[insert] = "none" /\ Built("run", count, P, X, D, cur)
    /\ F[2].mode = "run" /\ Stacks(F[2])

(* That is so for every statement but a block.                             *)
LEMMA SimpleStmt ==
    ASSUME NEW F, NEW P, NEW X, NEW D, NEW cur, Known(F, P, X, D, cur),
           Now.op = "stmt", Now.n.k # "block"
    PROVE  Simple(F, P, X, D, cur)
<1>1. /\ StmtLink(Now, F[1], F[2]) /\ Stacks(F[1]) /\ Ready(F[1], cur)
      /\ Built(F[1].mode, count, P, X, D, cur)
      /\ term[insert] = "none" \/ Tolerates(Now)
  BY DEF Known, Linked
<1>2. /\ F[1].mode = "run" /\ SameFrame(F[1], F[2]) /\ Around(F[2])
      /\ IsStmt(Now.n, Inside(F[2])) /\ F[1].k = <<Now.n>> \o F[2].k
  BY <1>1 DEF StmtLink
<1>3. term[insert] = "none"
  BY <1>1 DEF Tolerates
<1>4. cur = F[1].k
  BY <1>1, <1>2, <1>3 DEF Ready
<1>5. IsList(F[2].k) /\ F[2].mode = "run"
  BY <1>2 DEF Around
<1>6. cur # << >> /\ Head(cur) = Now.n /\ Tail(cur) = F[2].k
  <2> PICK x : x = Now.n
    OBVIOUS
  <2> PICK r : r = F[2].k
    OBVIOUS
  <2>1. <<x>> \o r # << >> /\ Head(<<x>> \o r) = x /\ Tail(<<x>> \o r) = r
    BY <1>5, Before
  <2> QED  BY <1>2, <1>4, <2>1
<1>7. Stacks(F[2])
  BY <1>1, <1>2 DEF Stacks, SameFrame, SameLoop
<1> QED  BY <1>1, <1>2, <1>3, <1>4, <1>5, <1>6, <1>7 DEF Simple

(* AssignStmt writes its atom.                                             *)
LEMMA SimAct ==
    ASSUME BlockInv, NEW F, NEW P, NEW X, NEW D, NEW cur, Sim(F, P, X, D, cur), VisitAct
    PROVE  Simulated'
<1>1. status = "lower" /\ work # << >> /\ Now.op = "stmt" /\ Now.n.k = "act"
  BY DEF VisitAct, AtStmt, At
<1>2. Known(F, P, X, D, cur) /\ Simple(F, P, X, D, cur)
  BY <1>1, SimKnown, SimpleStmt
<1>3. /\ code' = [code EXCEPT ![insert] = Append(@, Now.n.id)] /\ UNCHANGED <<term, succs>>
      /\ Then(<< >>) /\ UNCHANGED <<status, count, insert, stackVars, runVars>>
  BY DEF VisitAct, Emit
<1>4. /\ cur # << >> /\ Head(cur) = Now.n /\ Tail(cur) = F[2].k
      /\ term[insert] = "none" /\ Built("run", count, P, X, D, cur)
      /\ F[2].mode = "run" /\ Stacks(F[2])
  BY <1>2 DEF Simple
<1> PICK n : n = count
  OBVIOUS
<1> PICK f : f = F[2]
  OBVIOUS
<1>5. PICK X2, D2 : Grows(X, X2) /\ Built("run", n, P, X2, D2, Tail(cur))'
  BY <1>1, <1>3, <1>4, BuiltActs
<1>6. Stacks(f)' /\ Ready(f, f.k)'
  BY <1>3, <1>4 DEF Stacks, stackVars, Ready
<1>7. Replaced(F, P, X2, f)
  BY <1>3 DEF Replaced
<1>8. Built(f.mode, n, P, X2, D2, f.k)'
  BY <1>4, <1>5
<1>9. n = count' /\ Keeps(P, P) /\ UNCHANGED runVars
  BY <1>3, SameParts
<1> QED  BY <1>2, <1>5, <1>6, <1>7, <1>8, <1>9, SimTurn

(* ReturnStmt writes the value and ends the block.                         *)
LEMMA SimReturn ==
    ASSUME BlockInv, NEW F, NEW P, NEW X, NEW D, NEW cur, Sim(F, P, X, D, cur), VisitReturn
    PROVE  Simulated'
<1>1. status = "lower" /\ work # << >> /\ Now.op = "stmt" /\ Now.n.k = "ret"
  BY DEF VisitReturn, AtStmt, At
<1>2. Known(F, P, X, D, cur) /\ Simple(F, P, X, D, cur)
  BY <1>1, SimKnown, SimpleStmt
<1>3. /\ code' = [code EXCEPT ![insert] = Append(@, Now.n.id)]
      /\ term' = [term EXCEPT ![insert] = "ret"]
      /\ Then(<< >>) /\ UNCHANGED <<status, count, insert, succs, stackVars, runVars>>
  BY DEF VisitReturn
<1>4. /\ cur # << >> /\ Head(cur) = Now.n
      /\ term[insert] = "none" /\ Built("run", count, P, X, D, cur)
      /\ F[2].mode = "run" /\ Stacks(F[2])
  BY <1>2 DEF Simple
<1> PICK n : n = count
  OBVIOUS
<1> PICK f : f = F[2]
  OBVIOUS
<1>5. PICK X2 : Grows(X, X2) /\ Built("run", n, P, X2, D, cur)'
  BY <1>1, <1>3, <1>4, BuiltReturns
<1>6. term'[insert] = "ret"
  <2>1. insert \in DOMAIN term
    BY <1>4, BlocksAssumption DEF Built, Typed, BB
  <2> QED  BY <1>3, <2>1
<1>7. Stacks(f)' /\ Ready(f, cur)'
  BY <1>3, <1>4, <1>6 DEF Stacks, stackVars, Ready
<1>8. Replaced(F, P, X2, f)
  BY <1>3 DEF Replaced
<1>9. Built(f.mode, n, P, X2, D, cur)'
  BY <1>4, <1>5
<1>10. n = count' /\ Keeps(P, P) /\ UNCHANGED runVars
  BY <1>3, SameParts
<1> QED  BY <1>2, <1>5, <1>7, <1>8, <1>9, <1>10, SimTurn

(* After a terminator nothing is to be done at the insert block.           *)
LEMMA ReadyClosed ==
    ASSUME NEW m, NEW n, NEW P, NEW X, NEW D, NEW cur, Built(m, n, P, X, D, cur),
           NEW kind, kind # "none", NEW targets, Terminate(insert, kind, targets),
           insert' = insert, NEW f, NEW cur2
    PROVE  Ready(f, cur2)'
<1>1. insert \in DOMAIN term
  BY BlocksAssumption DEF Built, Typed, BB
<1>2. term'[insert'] = kind
  BY <1>1 DEF Terminate
<1> QED  BY <1>2 DEF Ready

(* What break and continue come to.                                        *)
LEMMA ToLoopEnd ==
    ASSUME NEW F, NEW P, NEW X, NEW D, NEW cur, Known(F, P, X, D, cur),
           Simple(F, P, X, D, cur), Now.n.k \in {"brk", "cnt"}
    PROVE  /\ Inside(F[1]) /\ IsList(F[1].r) /\ ~Ripe(cur)
           /\ Now.n.k = "brk" => Unfold(cur) = F[1].r
           /\ Now.n.k = "cnt" => /\ Unfold(cur) = <<Again(F[1].w)>> \o F[1].r
                                 /\ ~Ripe(<<Again(F[1].w)>> \o F[1].r)
                                 /\ Unfold(<<Again(F[1].w)>> \o F[1].r) = <<TestLoop(F[1].w)>> \o F[1].r
                                 /\ Ripe(<<TestLoop(F[1].w)>> \o F[1].r)
<1>1. /\ Around(F[2]) /\ SameFrame(F[1], F[2]) /\ IsStmt(Now.n, Inside(F[2]))
      /\ cur = <<Now.n>> \o F[2].k /\ IsList(F[2].k)
  BY DEF Simple
<1> PICK x : x = Now.n
  OBVIOUS
<1> PICK g : g = F[2]
  OBVIOUS
<1>2. Inside(g)
  BY <1>1 DEF IsStmt
<1>3. F[1].ls = g.ls /\ F[1].w = g.w /\ F[1].r = g.r
  BY <1>1 DEF SameFrame, SameLoop
<1>4. Reaches(g.k, g.w, g.r)
  BY <1>1, <1>2 DEF Around
<1>5. IsList(g.r)
  BY <1>4 DEF Reaches
<1>6. Reaches(<<x>> \o g.k, g.w, g.r)
  <2> PICK a : a = <<x>>
    OBVIOUS
  <2>1. IsList(a) /\ Len(a) = 1 /\ a[1] = x
    BY OneList
  <2>2. \A i \in 1 .. Len(a) : a[i].k # "again"
    BY <2>1
  <2>3. Reaches(a \o g.k, g.w, g.r)
    BY <1>4, <2>1, <2>2, ReachesOn
  <2> QED  BY <2>3
<1>7. FromAgain(<<x>> \o g.k) = <<Again(g.w)>> \o g.r
  BY <1>6, LoopAround
<1>8. Tail(<<Again(g.w)>> \o g.r) = g.r
  BY <1>5, Before
<1>9. /\ Ripe(<<x>> \o g.k) <=> x.k \in {"act", "ret", "test"}
      /\ x.k = "cnt" => Unfold(<<x>> \o g.k) = FromAgain(<<x>> \o g.k)
      /\ x.k = "brk" => Unfold(<<x>> \o g.k) = Tail(FromAgain(<<x>> \o g.k))
  BY <1>1, Unfolding
<1>10. /\ ~Ripe(<<Again(g.w)>> \o g.r)
       /\ Unfold(<<Again(g.w)>> \o g.r) = <<TestLoop(g.w)>> \o g.r
       /\ Ripe(<<TestLoop(g.w)>> \o g.r)
  <2> PICK y : y = Again(g.w)
    OBVIOUS
  <2>1. y.k = "again" /\ y.w = g.w
    BY DEF Again
  <2>2. /\ Ripe(<<y>> \o g.r) <=> y.k \in {"act", "ret", "test"}
        /\ y.k = "again" => Unfold(<<y>> \o g.r) = <<TestLoop(y.w)>> \o g.r
    BY <1>5, Unfolding
  <2> PICK z : z = TestLoop(g.w)
    OBVIOUS
  <2>3. z.k = "test"
    BY DEF TestLoop, Test
  <2>4. Ripe(<<z>> \o g.r) <=> z.k \in {"act", "ret", "test"}
    BY <1>5, Unfolding
  <2> QED  BY <2>1, <2>2, <2>3, <2>4
<1> QED  BY <1>1, <1>2, <1>3, <1>5, <1>7, <1>8, <1>9, <1>10 DEF Inside

(* break leads to the block behind the loop.                               *)
LEMMA SimBreak ==
    ASSUME BlockInv, NEW F, NEW P, NEW X, NEW D, NEW cur, Sim(F, P, X, D, cur), VisitBreak
    PROVE  Simulated'
<1>1. status = "lower" /\ work # << >> /\ Now.op = "stmt" /\ Now.n.k = "brk"
  BY DEF VisitBreak, AtStmt, At
<1>2. Known(F, P, X, D, cur) /\ Simple(F, P, X, D, cur)
  BY <1>1, SimKnown, SimpleStmt
<1>3. Inside(F[1]) /\ ~Ripe(cur) /\ Unfold(cur) = F[1].r
  BY <1>1, <1>2, ToLoopEnd
<1>4. /\ Terminate(insert, "br", <<Last(loopStack).falseBB>>)
      /\ Then(<< >>) /\ UNCHANGED <<status, count, insert, stackVars, runVars>>
  BY DEF VisitBreak
<1>5. /\ term[insert] = "none" /\ Built("run", count, P, X, D, cur)
      /\ F[2].mode = "run" /\ Stacks(F[2])
  BY <1>2 DEF Simple
<1> PICK n : n = count
  OBVIOUS
<1> PICK f : f = F[2]
  OBVIOUS
<1> PICK r : r = F[1].r
  OBVIOUS
<1> PICK u : u = Last(loopStack).falseBB
  OBVIOUS
<1>6. PICK X2 : Grows(X, X2) /\ Built("run", n, P, X2, D, r)
  BY <1>3, <1>5, BuiltUnfolds
<1>7. u = Last(F[1].ls).falseBB /\ Promise(P, X, u, r) /\ Behind(F[1], work, 1)
  BY <1>2, <1>3 DEF Known, Stacks, InLoop
<1>8. u \in Open(n) /\ u # insert /\ P[u] = r
  BY <1>2, <1>7 DEF Known, Behind, Promise
<1>9. Terminate(insert, "br", <<u>>) /\ insert' = insert
  BY <1>4
<1>10. PICK D2 : Built("run", n, P, X2, D2, r)'
  BY <1>5, <1>6, <1>8, <1>9, BuiltJoins
<1>11. Stacks(f)' /\ Ready(f, r)'
  <2>1. Stacks(f)'
    BY <1>4, <1>5 DEF Stacks, stackVars
  <2>2. "br" # "none" /\ Built("run", n, P, X2, D, r)
    BY <1>6
  <2> QED  BY <1>9, <2>1, <2>2, ReadyClosed
<1>12. Replaced(F, P, X2, f)
  BY <1>4 DEF Replaced
<1>13. Built(f.mode, n, P, X2, D2, r)'
  BY <1>5, <1>10
<1>14. n = count' /\ Keeps(P, P) /\ UNCHANGED runVars
  BY <1>4, SameParts
<1> QED  BY <1>2, <1>6, <1>11, <1>12, <1>13, <1>14, SimTurn

(* continue leads to the test of the loop.                                 *)
LEMMA SimContinue ==
    ASSUME BlockInv, NEW F, NEW P, NEW X, NEW D, NEW cur, Sim(F, P, X, D, cur), VisitContinue
    PROVE  Simulated'
<1>1. status = "lower" /\ work # << >> /\ Now.op = "stmt" /\ Now.n.k = "cnt"
  BY DEF VisitContinue, AtStmt, At
<1>2. Known(F, P, X, D, cur) /\ Simple(F, P, X, D, cur)
  BY <1>1, SimKnown, SimpleStmt
<1> PICK k1 : k1 = <<Again(F[1].w)>> \o F[1].r
  OBVIOUS
<1> PICK k2 : k2 = <<TestLoop(F[1].w)>> \o F[1].r
  OBVIOUS
<1>3. Inside(F[1]) /\ ~Ripe(cur) /\ Unfold(cur) = k1 /\ ~Ripe(k1) /\ Unfold(k1) = k2 /\ Ripe(k2)
  BY <1>1, <1>2, ToLoopEnd
<1>4. /\ Terminate(insert, "br", <<Last(loopStack).trueBB>>)
      /\ Then(<< >>) /\ UNCHANGED <<status, count, insert, stackVars, runVars>>
  BY DEF VisitContinue
<1>5. /\ term[insert] = "none" /\ Built("run", count, P, X, D, cur)
      /\ F[2].mode = "run" /\ Stacks(F[2])
  BY <1>2 DEF Simple
<1> PICK n : n = count
  OBVIOUS
<1> PICK f : f = F[2]
  OBVIOUS
<1> PICK u : u = Last(loopStack).trueBB
  OBVIOUS
<1>6. PICK X1 : Grows(X, X1) /\ Built("run", n, P, X1, D, k1)
  BY <1>3, <1>5, BuiltUnfolds
<1>7. PICK X2 : Grows(X1, X2) /\ Built("run", n, P, X2, D, k2)
  BY <1>3, <1>5, <1>6, BuiltUnfolds
<1>8. Grows(X, X2)
  BY <1>6, <1>7 DEF Grows
<1>9. Leads(X2, <<u, 1>>, k2)
  <2>1. Leads(X, <<u, 1>>, k2)
    BY <1>2, <1>3 DEF Known, Stacks, InLoop
  <2> QED  BY <1>8, <2>1, LeadsOn
<1>10. Terminate(insert, "br", <<u>>) /\ insert' = insert
  BY <1>4
<1>11. Built("run", n, P, X2, D, k2)'
  BY <1>3, <1>5, <1>7, <1>9, <1>10, BuiltJumps
<1>12. Stacks(f)' /\ Ready(f, k2)'
  <2>1. Stacks(f)'
    BY <1>4, <1>5 DEF Stacks, stackVars
  <2>2. "br" # "none" /\ Built("run", n, P, X2, D, k2)
    BY <1>7
  <2> QED  BY <1>10, <2>1, <2>2, ReadyClosed
<1>13. Replaced(F, P, X2, f)
  BY <1>4 DEF Replaced
<1>14. Built(f.mode, n, P, X2, D, k2)'
  BY <1>5, <1>11
<1>15. n = count' /\ Keeps(P, P) /\ UNCHANGED runVars
  BY <1>4, SameParts
<1> QED  BY <1>2, <1>8, <1>12, <1>13, <1>14, <1>15, SimTurn

-----------------------------------------------------------------------------
(* The items of a block.                                                   *)
Frame(g, k) ==
    [mode |-> "run", k |-> k, ts |-> g.ts, fs |-> g.fs, ls |-> g.ls, w |-> g.w, r |-> g.r]

(* The frame of a visit with the stacks of the one behind.                 *)
LEMMA FrameParts ==
    ASSUME NEW g, NEW k
    PROVE  /\ Frame(g, k).mode = "run" /\ Frame(g, k).k = k /\ SameFrame(Frame(g, k), g)
           /\ Inside(Frame(g, k)) = Inside(g)
BY DEF Frame, SameFrame, SameLoop, Inside

(* A list is its first element before the others.                          *)
LEMMA Rejoined ==
    ASSUME NEW w, IsList(w), w # << >>
    PROVE  w = <<Head(w)>> \o Tail(w) /\ IsList(Tail(w))
<1>1. PICK S : w \in Seq(S)
  BY DEF IsList
<1> PICK x : x = Head(w)
  OBVIOUS
<1> PICK t : t = Tail(w)
  OBVIOUS
<1> PICK v : v = <<x>> \o t
  OBVIOUS
<1>2. /\ x = w[1] /\ t \in Seq(S) /\ Len(t) = Len(w) - 1 /\ Len(w) \in Nat /\ x \in S
      /\ \A i \in 1 .. Len(t) : t[i] = w[i + 1]
  BY <1>1, HeadTailProperties, LenProperties
<1>3. IsList(v) /\ Len(v) = Len(w) /\ v[1] = x /\ \A j \in 1 .. Len(t) : v[j + 1] = t[j]
  <2>1. IsCons(v, x, t)
    BY <1>2 DEF IsCons, IsList
  <2>2. IsList(v) /\ Len(v) = Len(t) + 1 /\ v[1] = x /\ \A j \in 1 .. Len(t) : v[j + 1] = t[j]
    BY <2>1, Consed
  <2> QED  BY <1>2, <2>2
<1>4. \A i \in 1 .. Len(w) : v[i] = w[i]
  <2> SUFFICES ASSUME NEW i \in 1 .. Len(w) PROVE v[i] = w[i]
    OBVIOUS
  <2>1. CASE i = 1
    BY <1>2, <1>3, <2>1
  <2>2. CASE i # 1
    <3>1. i - 1 \in 1 .. Len(t) /\ i = (i - 1) + 1
      BY <1>2, <2>2
    <3> QED  BY <1>2, <1>3, <3>1
  <2> QED  BY <2>1, <2>2
<1>5. PICK T : v \in Seq(T)
  BY <1>3 DEF IsList
<1>6. v \in Seq(S \cup T) /\ w \in Seq(S \cup T)
  BY <1>1, <1>5, SeqMonotonic
<1>7. v = w
  BY <1>3, <1>4, <1>6, SeqEqual
<1> QED  BY <1>2, <1>7 DEF IsList

(* Statements are none of the marks of the interpreter.                    *)
LEMMA StmtMarks ==
    ASSUME NEW b \in BOOLEAN, NEW x \in Stmts[b]
    PROVE  IsStmt(x, b) /\ x.k # "again"
<1>1. IsStmt(x, b)
  BY SyntaxAssumption
<1> QED  BY <1>1 DEF IsStmt

(* Statements before what is to be done do not change the loop around.     *)
LEMMA AroundItems ==
    ASSUME NEW g, Around(g), NEW a, a \in Seq(Stmts[Inside(g)])
    PROVE  IsList(a) /\ Around(Frame(g, a \o g.k))
<1>1. IsList(a) /\ IsList(g.k) /\ g.mode = "run" /\ (Inside(g) => Reaches(g.k, g.w, g.r))
  BY DEF IsList, Around
<1> PICK b \in BOOLEAN : b = Inside(g)
  BY DEF Inside
<1>2. IsList(a \o g.k)
  BY <1>1, Cat
<1>3. \A i \in 1 .. Len(a) : a[i].k # "again"
  <2>1. a \in Seq(Stmts[b])
    OBVIOUS
  <2>2. \A i \in 1 .. Len(a) : a[i] \in Stmts[b]
    BY <2>1, ElementOfSeq
  <2> QED  BY <2>2, StmtMarks
<1>4. Inside(g) => Reaches(a \o g.k, g.w, g.r)
  BY <1>1, <1>3, ReachesOn
<1> PICK h : h = Frame(g, a \o g.k)
  OBVIOUS
<1>5. /\ h.mode = "run" /\ h.k = a \o g.k /\ h.w = g.w /\ h.r = g.r /\ Inside(h) = Inside(g)
  BY DEF Frame, Inside
<1>6. Around(h)
  BY <1>2, <1>4, <1>5 DEF Around
<1> QED  BY <1>1, <1>6

(* The first of the items is visited, then the others.                     *)
LEMMA FirstItem ==
    ASSUME NEW g, Around(g), NEW w, w \in Seq(Stmts[Inside(g)]), w # << >>, NEW P, NEW X
    PROVE  /\ Link(Visit("items", Tail(w)), Frame(g, Tail(w) \o g.k), g, P, X)
           /\ Link(Visit("stmt", Head(w)), Frame(g, w \o g.k), Frame(g, Tail(w) \o g.k), P, X)
<1>1. IsList(w) /\ w = <<Head(w)>> \o Tail(w) /\ IsList(Tail(w))
  <2>1. IsList(w)
    BY DEF IsList
  <2> QED  BY <2>1, Rejoined
<1> PICK b \in BOOLEAN : b = Inside(g)
  BY DEF Inside
<1> PICK x : x = Head(w)
  OBVIOUS
<1> PICK t : t = Tail(w)
  OBVIOUS
<1>2. x \in Stmts[b] /\ t \in Seq(Stmts[b])
  <2>1. w \in Seq(Stmts[b])
    OBVIOUS
  <2> QED  BY <2>1, HeadTailProperties
<1> PICK h : h = Frame(g, t \o g.k)
  OBVIOUS
<1> PICK f : f = Frame(g, w \o g.k)
  OBVIOUS
<1>3. /\ h.mode = "run" /\ h.k = t \o g.k /\ SameFrame(h, g) /\ Inside(h) = Inside(g)
      /\ f.mode = "run" /\ f.k = w \o g.k /\ SameFrame(f, g)
  BY FrameParts
<1>4. Link(Visit("items", t), h, g, P, X)
  <2>1. Visit("items", t).op = "items" /\ Visit("items", t).n = t
    BY DEF Visit
  <2>2. t \in Seq(Stmts[Inside(g)])
    BY <1>2
  <2>3. ItemsLink(Visit("items", t), h, g)
    BY <1>3, <2>1, <2>2 DEF ItemsLink
  <2> QED  BY <2>3 DEF Link
<1>5. Around(h)
  BY <1>2, AroundItems
<1>6. f.k = <<x>> \o h.k
  <2> PICK e : e = <<x>>
    OBVIOUS
  <2>1. IsList(e) /\ IsList(t) /\ IsList(g.k)
    BY <1>1, OneList DEF Around
  <2>2. (e \o t) \o g.k = e \o (t \o g.k)
    BY <2>1, CatAssoc
  <2> QED  BY <1>1, <1>3, <2>2
<1>7. IsStmt(x, Inside(h))
  <2>1. IsStmt(x, b)
    BY <1>2, StmtMarks
  <2> QED  BY <1>3, <2>1
<1>8. SameFrame(f, h)
  BY <1>3 DEF SameFrame, SameLoop
<1>9. Link(Visit("stmt", x), f, h, P, X)
  <2>1. Visit("stmt", x).op = "stmt" /\ Visit("stmt", x).n = x
    BY DEF Visit
  <2>2. StmtLink(Visit("stmt", x), f, h)
    BY <1>3, <1>5, <1>6, <1>7, <1>8, <2>1 DEF StmtLink
  <2> QED  BY <2>2 DEF Link
<1> QED  BY <1>4, <1>9

(* The items w are to be done, then what is behind them.                   *)
LEMMA SimItems ==
    ASSUME NEW F, NEW P, NEW X, NEW D, NEW cur, Known(F, P, X, D, cur),
           Around(F[2]), SameFrame(F[1], F[2]),
           NEW w, w \in Seq(Stmts[Inside(F[2])]),
           NEW X1, Grows(X, X1),
           (term[insert] = "none" /\ Built("run", count, P, X1, D, w \o F[2].k))
           \/ (term[insert] # "none" /\ w = << >> /\ X1 = X /\ F[1].mode = "run"),
           Then(IF w = << >> THEN << >> ELSE <<Visit("stmt", Head(w)), Visit("items", Tail(w))>>),
           UNCHANGED <<count, insert, cfgVars, stackVars, runVars>>
    PROVE  Simulated'
<1>1. /\ Stacks(F[1]) /\ Built(F[1].mode, count, P, X, D, cur)
  BY DEF Known
<1> PICK n : n = count
  OBVIOUS
<1> PICK g : g = F[2]
  OBVIOUS
<1> PICK k : k = w \o g.k
  OBVIOUS
<1>2. IsList(w) /\ IsList(g.k) /\ g.mode = "run"
  BY DEF IsList, Around
<1>3. Stacks(g)
  BY <1>1 DEF Stacks, SameFrame, SameLoop
<1>4. n = count' /\ Keeps(P, P) /\ UNCHANGED runVars /\ UNCHANGED <<code, term, succs>> /\ insert' = insert
  BY SameParts DEF cfgVars
<1>5. CASE w = << >>
  <2>1. k = g.k
    BY <1>2, <1>5, CatNone
  <2>2. Then(<< >>)
    BY <1>5
  <2>3. Replaced(F, P, X1, g)
    BY <2>2 DEF Replaced
  <2>4. Stacks(g)'
    BY <1>3 DEF Stacks, stackVars
  <2>5. \E c2 : Built(g.mode, n, P, X1, D, c2)' /\ Ready(g, c2)'
    <3>1. CASE term[insert] = "none" /\ Built("run", count, P, X1, D, w \o F[2].k)
      <4>1. Built("run", n, P, X1, D, k)
        BY <3>1
      <4>2. Built("run", n, P, X1, D, k)'
        BY <1>4, <4>1, BuiltMoves
      <4>3. Ready(g, k)'
        BY <1>2, <2>1 DEF Ready
      <4> QED  BY <1>2, <4>2, <4>3
    <3>2. CASE term[insert] # "none" /\ X1 = X /\ F[1].mode = "run"
      <4>1. Built("run", n, P, X1, D, cur)
        BY <1>1, <3>2
      <4>2. Built("run", n, P, X1, D, cur)'
        BY <1>4, <4>1, BuiltMoves
      <4>3. Ready(g, cur)'
        BY <1>4, <3>2 DEF Ready
      <4> QED  BY <1>2, <4>2, <4>3
    <3> QED  BY <3>1, <3>2
  <2>6. PICK c2 : Built(g.mode, n, P, X1, D, c2)' /\ Ready(g, c2)'
    BY <2>5
  <2> QED  BY <1>4, <2>3, <2>4, <2>6, SimTurn
<1>6. CASE w # << >>
  <2> PICK h : h = Frame(g, Tail(w) \o g.k)
    OBVIOUS
  <2> PICK f : f = Frame(g, k)
    OBVIOUS
  <2>1. Link(Visit("items", Tail(w)), h, g, P, X1) /\ Link(Visit("stmt", Head(w)), f, h, P, X1)
    BY <1>6, FirstItem
  <2>2. Then(<<Visit("stmt", Head(w)), Visit("items", Tail(w))>>)
    BY <1>6
  <2>3. Replaced(F, P, X1, f)
    BY <2>1, <2>2 DEF Replaced
  <2>4. f.mode = "run" /\ f.k = k /\ SameFrame(f, g)
    BY FrameParts
  <2>5. Stacks(f)'
    BY <1>3, <2>4 DEF Stacks, stackVars, SameFrame, SameLoop
  <2>6. Built("run", n, P, X1, D, k)
    BY <1>6
  <2>7. Built(f.mode, n, P, X1, D, k)'
    BY <1>4, <2>4, <2>6, BuiltMoves
  <2>8. Ready(f, k)'
    BY <2>4 DEF Ready
  <2> QED  BY <1>4, <2>3, <2>5, <2>7, <2>8, SimTurn
<1> QED  BY <1>5, <1>6

(* A block: its items, if any.                                             *)
LEMMA SimBlock ==
    ASSUME BlockInv, NEW F, NEW P, NEW X, NEW D, NEW cur, Sim(F, P, X, D, cur), VisitBlock
    PROVE  Simulated'
<1>1. status = "lower" /\ work # << >> /\ Now.op = "stmt" /\ Now.n.k = "block"
  BY DEF VisitBlock, AtStmt, At
<1>2. Known(F, P, X, D, cur)
  BY <1>1, SimKnown
<1> PICK w : w = Now.n.items
  OBVIOUS
<1>3. /\ StmtLink(Now, F[1], F[2]) /\ Ready(F[1], cur)
      /\ Built(F[1].mode, count, P, X, D, cur)
      /\ term[insert] = "none" \/ Tolerates(Now)
  BY <1>1, <1>2 DEF Known, Linked
<1>4. /\ F[1].mode = "run" /\ SameFrame(F[1], F[2]) /\ Around(F[2])
      /\ IsStmt(Now.n, Inside(F[2]))
      /\ F[1].k = <<Now.n>> \o F[2].k \/ F[1].k = w \o F[2].k
  BY <1>3 DEF StmtLink
<1>5. w \in Seq(Stmts[Inside(F[2])])
  BY <1>1, <1>4 DEF IsStmt
<1>6. term[insert] = "none" /\ cur = F[1].k
  BY <1>1, <1>3, <1>4 DEF Tolerates, Ready
<1>7. PICK X1 : Grows(X, X1) /\ Built("run", count, P, X1, D, w \o F[2].k)
  <2>1. CASE F[1].k = w \o F[2].k
    BY <1>3, <1>4, <1>6, <2>1, SameParts
  <2>2. CASE F[1].k = <<Now.n>> \o F[2].k
    <3> PICK x : x = Now.n
      OBVIOUS
    <3> PICK r : r = F[2].k
      OBVIOUS
    <3>1. IsList(r) /\ x.k = "block" /\ x.items = w
      BY <1>1, <1>4 DEF Around
    <3>2. ~Ripe(<<x>> \o r) /\ Unfold(<<x>> \o r) = w \o r
      <4>1. /\ Ripe(<<x>> \o r) <=> x.k \in {"act", "ret", "test"}
            /\ x.k = "block" => Unfold(<<x>> \o r) = x.items \o r
        BY <3>1, Unfolding
      <4> QED  BY <3>1, <4>1
    <3>3. ~Ripe(cur) /\ Unfold(cur) = w \o F[2].k /\ Built("run", count, P, X, D, cur)
      BY <1>3, <1>4, <1>6, <2>2, <3>2
    <3> QED  BY <1>6, <3>3, BuiltUnfolds
  <2> QED  BY <1>4, <2>1, <2>2
<1>8. /\ Then(IF w = << >> THEN << >> ELSE <<Visit("stmt", Head(w)), Visit("items", Tail(w))>>)
      /\ UNCHANGED <<count, insert, cfgVars, stackVars, runVars>>
  BY DEF VisitBlock
<1> QED  BY <1>2, <1>4, <1>5, <1>6, <1>7, <1>8, SimItems

(* The next item, unless the block is terminated.                          *)
LEMMA SimNextItem ==
    ASSUME BlockInv, NEW F, NEW P, NEW X, NEW D, NEW cur, Sim(F, P, X, D, cur), NextItem
    PROVE  Simulated'
<1>1. status = "lower" /\ work # << >> /\ Now.op = "items"
  BY DEF NextItem, At
<1>2. Known(F, P, X, D, cur)
  BY <1>1, SimKnown
<1>3. /\ ItemsLink(Now, F[1], F[2]) /\ Ready(F[1], cur) /\ Built(F[1].mode, count, P, X, D, cur)
  BY <1>1, <1>2 DEF Known, Linked
<1>4. /\ F[1].mode = "run" /\ SameFrame(F[1], F[2]) /\ Around(F[2])
      /\ Now.n \in Seq(Stmts[Inside(F[2])]) /\ F[1].k = Now.n \o F[2].k
  BY <1>3 DEF ItemsLink
<1> PICK w : w = IF Terminated(insert) THEN << >> ELSE Now.n
  OBVIOUS
<1>5. w \in Seq(Stmts[Inside(F[2])])
  <2>1. << >> \in Seq(Stmts[Inside(F[2])])
    OBVIOUS
  <2> QED  BY <1>4, <2>1
<1>6. \/ term[insert] = "none" /\ Built("run", count, P, X, D, w \o F[2].k)
      \/ term[insert] # "none" /\ w = << >> /\ X = X /\ F[1].mode = "run"
  BY <1>3, <1>4 DEF Terminated, Ready
<1>7. Then(IF w = << >> THEN << >> ELSE <<Visit("stmt", Head(w)), Visit("items", Tail(w))>>)
  <2>1. Then(IF Now.n = << >> \/ Terminated(insert) THEN << >>
             ELSE <<Visit("stmt", Head(Now.n)), Visit("items", Tail(Now.n))>>)
    BY DEF NextItem
  <2>2. CASE Terminated(insert)
    BY <2>1, <2>2
  <2>3. CASE ~Terminated(insert)
    BY <2>1, <2>3
  <2> QED  BY <2>2, <2>3
<1>8. UNCHANGED <<count, insert, cfgVars, stackVars, runVars>>
  BY DEF NextItem
<1>9. Grows(X, X)
  BY SameParts
<1> QED  BY <1>2, <1>4, <1>5, <1>6, <1>7, <1>8, <1>9, SimItems

-----------------------------------------------------------------------------
(* Branching statements.                                                   *)
LEMMA OpensThree ==
    ASSUME NEW m, NEW n, NEW P, NEW X, NEW D, NEW cur, Built(m, n, P, X, D, cur),
           n + 3 <= MaxBlocks, NEW k1, NEW k2, NEW k3
    PROVE  \E P2, X2, D2 :
              /\ Keeps(P, P2) /\ Grows(X, X2) /\ Promise(P2, X2, n + 1, k1)
              /\ Promise(P2, X2, n + 2, k2) /\ Promise(P2, X2, n + 3, k3)
              /\ Built(m, n + 3, P2, X2, D2, cur)
<1>1. n \in Nat /\ MaxBlocks \in Nat
  BY BlocksAssumption DEF Built
<1>2. n < MaxBlocks
  BY <1>1
<1>3. PICK P1, X1, D1 : /\ Keeps(P, P1) /\ Grows(X, X1) /\ Promise(P1, X1, n + 1, k1)
                        /\ Built(m, n + 1, P1, X1, D1, cur)
  BY <1>2, BuiltOpens
<1> PICK n1 : n1 = n + 1
  OBVIOUS
<1>4. n1 < MaxBlocks /\ n1 + 1 = n + 2 /\ Built(m, n1, P1, X1, D1, cur)
  BY <1>1, <1>3
<1>5. PICK P2, X2, D2 : /\ Keeps(P1, P2) /\ Grows(X1, X2) /\ Promise(P2, X2, n1 + 1, k2)
                        /\ Built(m, n1 + 1, P2, X2, D2, cur)
  BY <1>4, BuiltOpens
<1> PICK n2 : n2 = n1 + 1
  OBVIOUS
<1>6. n2 < MaxBlocks /\ n2 + 1 = n + 3 /\ n2 = n + 2 /\ Built(m, n2, P2, X2, D2, cur)
  BY <1>1, <1>4, <1>5
<1>7. PICK P3, X3, D3 : /\ Keeps(P2, P3) /\ Grows(X2, X3) /\ Promise(P3, X3, n2 + 1, k3)
                        /\ Built(m, n2 + 1, P3, X3, D3, cur)
  BY <1>6, BuiltOpens
<1>8. Keeps(P, P3) /\ Grows(X, X3) /\ Keeps(P1, P3) /\ Grows(X1, X3)
  BY <1>3, <1>5, <1>7 DEF Keeps, Grows
<1>9. Promise(P3, X3, n + 1, k1)
  BY <1>3, <1>8, PromiseOn
<1>10. Promise(P3, X3, n + 2, k2)
  BY <1>4, <1>5, <1>7, PromiseOn
<1>11. Promise(P3, X3, n + 3, k3) /\ Built(m, n + 3, P3, X3, D3, cur)
  BY <1>6, <1>7
<1> QED  BY <1>8, <1>9, <1>10, <1>11

(* A statement is visited, a condition is.                                 *)
LEMMA StmtOf ==
    ASSUME NEW h, Around(h), NEW x, IsStmt(x, Inside(h)), NEW P, NEW X
    PROVE  Link(Visit("stmt", x), Frame(h, <<x>> \o h.k), h, P, X)
<1> PICK f : f = Frame(h, <<x>> \o h.k)
  OBVIOUS
<1>1. f.mode = "run" /\ f.k = <<x>> \o h.k /\ SameFrame(f, h)
  BY FrameParts
<1>2. Visit("stmt", x).op = "stmt" /\ Visit("stmt", x).n = x
  BY DEF Visit
<1>3. StmtLink(Visit("stmt", x), f, h)
  BY <1>1, <1>2 DEF StmtLink
<1> QED  BY <1>3 DEF Link

(* The condition is visited for the frame that waits for it.               *)
LEMMA CondOf ==
    ASSUME NEW h, h.mode = "test", NEW c, Chains(c), NEW k, LorAt(k, c, h.yes, h.no),
           NEW P, NEW X, IfTrue(h, X), IfFalse(h, X)
    PROVE  Link(Visit("lor", c), Frame(h, k), h, P, X)
<1> PICK f : f = Frame(h, k)
  OBVIOUS
<1>1. f.mode = "run" /\ f.k = k /\ SameFrame(f, h)
  BY FrameParts
<1>2. Visit("lor", c).op = "lor" /\ Visit("lor", c).n = c
  BY DEF Visit
<1>3. LOrLink(Visit("lor", c), f, h, X)
  BY <1>1, <1>2 DEF LOrLink
<1> QED  BY <1>3 DEF Link

(* The frame of a visit that waits for a condition.                        *)
Asking(ts, fs, ls, w, r, yes, no) ==
    [mode |-> "test", ts |-> ts, fs |-> fs, ls |-> ls, w |-> w, r |-> r, yes |-> yes, no |-> no]

Asker(h, g, a, b, ls, u, r, yes, no) ==
    /\ h.mode = "test" /\ h.ts = Append(g.ts, a) /\ h.fs = Append(g.fs, b)
    /\ h.ls = ls /\ h.w = u /\ h.r = r /\ h.yes = yes /\ h.no = no
    /\ h.ts # << >> /\ Last(h.ts) = a /\ h.fs # << >> /\ Last(h.fs) = b

(* Its parts.                                                              *)
LEMMA AskingParts ==
    ASSUME NEW g, IsList(g.ts), IsList(g.fs), NEW a, NEW b, NEW yes, NEW no, NEW ls, NEW u, NEW r
    PROVE  Asker(Asking(Append(g.ts, a), Append(g.fs, b), ls, u, r, yes, no),
                 g, a, b, ls, u, r, yes, no)
<1> PICK h : h = Asking(Append(g.ts, a), Append(g.fs, b), ls, u, r, yes, no)
  OBVIOUS
<1>1. /\ h.mode = "test" /\ h.ts = Append(g.ts, a) /\ h.fs = Append(g.fs, b)
      /\ h.ls = ls /\ h.w = u /\ h.r = r /\ h.yes = yes /\ h.no = no
  BY DEF Asking
<1>2. Append(g.ts, a) # << >> /\ Last(Append(g.ts, a)) = a
  BY LastAppended
<1>3. Append(g.fs, b) # << >> /\ Last(Append(g.fs, b)) = b
  BY LastAppended
<1>4. Asker(h, g, a, b, ls, u, r, yes, no)
  BY <1>1, <1>2, <1>3 DEF Asker
<1> QED  BY <1>4

(* The two targets of a branch out of the three blocks.                    *)
LEMMA Slices ==
    ASSUME NEW a, NEW b, NEW c
    PROVE  SubSeq(<<a, b, c>>, 1, 2) = <<a, b>> /\ SubSeq(<<a, b, c>>, 2, 3) = <<b, c>>
<1> DEFINE q == <<a, b, c>>
           S == {a, b, c}
<1>1. /\ <<a, b>> \in Seq(S) /\ <<b, c>> \in Seq(S)
      /\ q[1] = a /\ q[2] = b /\ q[3] = c /\ q[1] \in S /\ q[2] \in S /\ q[3] \in S
  OBVIOUS
<1> HIDE DEF q, S
<1>2. SubSeq(q, 1, 2) = <<a, b>>
  <2>1. \A i \in 1 .. 2 : i = 1 \/ i = 2
    OBVIOUS
  <2>2. \A i \in 1 .. 2 : q[i] \in S
    BY <1>1, <2>1
  <2>3. /\ SubSeq(q, 1, 2) \in Seq(S)
        /\ Len(SubSeq(q, 1, 2)) = (IF 1 <= 2 THEN 2 - 1 + 1 ELSE 0)
        /\ \A i \in 1 .. 2 - 1 + 1 : SubSeq(q, 1, 2)[i] = q[1 + i - 1]
    BY <2>2, SubSeqProperties
  <2>4. /\ Len(SubSeq(q, 1, 2)) = 2 /\ Len(<<a, b>>) = 2
        /\ SubSeq(q, 1, 2)[1] = a /\ SubSeq(q, 1, 2)[2] = b
    BY <1>1, <2>3
  <2>5. \A i \in 1 .. 2 : SubSeq(q, 1, 2)[i] = <<a, b>>[i]
    BY <2>1, <2>4
  <2> QED  BY <1>1, <2>3, <2>4, <2>5, SeqEqual
<1>3. SubSeq(q, 2, 3) = <<b, c>>
  <2>1. (\A i \in 2 .. 3 : i = 2 \/ i = 3) /\ (\A i \in 1 .. 2 : i = 1 \/ i = 2)
    OBVIOUS
  <2>2. \A i \in 2 .. 3 : q[i] \in S
    BY <1>1, <2>1
  <2>3. /\ SubSeq(q, 2, 3) \in Seq(S)
        /\ Len(SubSeq(q, 2, 3)) = (IF 2 <= 3 THEN 3 - 2 + 1 ELSE 0)
        /\ \A i \in 1 .. 3 - 2 + 1 : SubSeq(q, 2, 3)[i] = q[2 + i - 1]
    BY <2>2, SubSeqProperties
  <2>4. /\ Len(SubSeq(q, 2, 3)) = 2 /\ Len(<<b, c>>) = 2
        /\ SubSeq(q, 2, 3)[1] = b /\ SubSeq(q, 2, 3)[2] = c
    BY <1>1, <2>3
  <2>5. \A i \in 1 .. 2 : SubSeq(q, 2, 3)[i] = <<b, c>>[i]
    BY <2>1, <2>4
  <2> QED  BY <1>1, <2>3, <2>4, <2>5, SeqEqual
<1> QED  BY <1>2, <1>3 DEF q

(* SelectionStmt makes its blocks and visits the condition.                *)
LEMMA SimIf ==
    ASSUME BlockInv, NEW F, NEW P, NEW X, NEW D, NEW cur, Sim(F, P, X, D, cur), VisitIf
    PROVE  Simulated'
<1>1. status = "lower" /\ work # << >> /\ Now.op = "stmt" /\ Now.n.k = "if"
  BY DEF VisitIf, AtStmt, At
<1>2. Known(F, P, X, D, cur) /\ Simple(F, P, X, D, cur)
  BY <1>1, SimKnown, SimpleStmt
<1> PICK x : x = Now.n
  OBVIOUS
<1> PICK g : g = F[2]
  OBVIOUS
<1> PICK n : n = count
  OBVIOUS
<1> PICK bbs : bbs = <<n + 1, n + 2, n + 3>>
  OBVIOUS
<1>3. /\ n + 3 <= MaxBlocks /\ count' = n + 3
      /\ trueStack' = Append(trueStack, bbs[1]) /\ falseStack' = Append(falseStack, bbs[2])
      /\ loopStack' = loopStack
      /\ Then(<<Visit("lor", x.c), Resume("ifBranch", x, bbs)>>)
      /\ UNCHANGED <<insert, cfgVars, runVars>>
  BY DEF VisitIf
<1>4. /\ Around(g) /\ IsStmt(x, Inside(g)) /\ IsList(g.k)
      /\ cur = <<x>> \o g.k /\ term[insert] = "none" /\ Built("run", n, P, X, D, cur) /\ Stacks(g)
  BY <1>2 DEF Simple
<1>5. /\ IsCond(x.c) /\ x.s \in Stmts[Inside(g)] /\ x.e \in Stmts[Inside(g)] \cup {None}
  BY <1>1, <1>4 DEF IsStmt
<1> PICK yes : yes = <<x.s>> \o g.k
  OBVIOUS
<1> PICK no : no = <<x.e>> \o g.k
  OBVIOUS
<1> PICK kc : kc = <<Test(x.c, <<x.s>>, <<x.e>>)>> \o g.k
  OBVIOUS
<1>6. ~Ripe(cur) /\ Unfold(cur) = kc
  <2>1. /\ Ripe(<<x>> \o g.k) <=> x.k \in {"act", "ret", "test"}
        /\ x.k = "if" => Unfold(<<x>> \o g.k) = <<Test(x.c, <<x.s>>, <<x.e>>)>> \o g.k
    BY <1>4, Unfolding
  <2> QED  BY <1>1, <1>4, <2>1
<1>7. PICK X1 : Grows(X, X1) /\ Built("run", n, P, X1, D, kc)
  BY <1>4, <1>6, BuiltUnfolds
<1>8. PICK P2, X2, D2 :
         /\ Keeps(P, P2) /\ Grows(X1, X2) /\ Promise(P2, X2, n + 1, yes)
         /\ Promise(P2, X2, n + 2, no) /\ Promise(P2, X2, n + 3, g.k)
         /\ Built("run", n + 3, P2, X2, D2, kc)
  BY <1>3, <1>7, OpensThree
<1>9. Grows(X, X2)
  BY <1>7, <1>8 DEF Grows
<1> PICK w : w = Resume("ifBranch", x, bbs)
  OBVIOUS
<1>10. /\ w.op = "ifBranch" /\ w.n = x /\ w.bbs = bbs /\ bbs[1] = n + 1 /\ bbs[2] = n + 2
       /\ bbs[3] = n + 3 /\ w.bbs = <<w.bbs[1], w.bbs[2], w.bbs[3]>>
  BY DEF Resume
<1>11. PICK h : h = Asking(Append(g.ts, bbs[1]), Append(g.fs, bbs[2]), g.ls, g.w, g.r, yes, no)
  OBVIOUS
<1>22. IsList(g.ts) /\ IsList(g.fs)
  BY <1>2 DEF Known, InLoop
<1>23. /\ h.mode = "test" /\ h.ts = Append(g.ts, bbs[1]) /\ h.fs = Append(g.fs, bbs[2])
       /\ SameLoop(h, g) /\ h.yes = yes /\ h.no = no
       /\ h.ts # << >> /\ Last(h.ts) = bbs[1] /\ h.fs # << >> /\ Last(h.fs) = bbs[2]
  <2>1. Asker(h, g, bbs[1], bbs[2], g.ls, g.w, g.r, yes, no)
    BY ONLY <1>11, <1>22, AskingParts
  <2> QED  BY ONLY <2>1 DEF Asker, SameLoop
<1>12. Link(w, h, g, P2, X2)
  <2>1. IsIf(w, g)
    BY <1>1, <1>4, <1>5, <1>10 DEF IsIf
  <2>2. yes = <<w.n.s>> \o g.k /\ no = <<w.n.e>> \o g.k
    BY <1>10
  <2>3. /\ Promise(P2, X2, w.bbs[1], yes) /\ Promise(P2, X2, w.bbs[2], no)
        /\ Promise(P2, X2, w.bbs[3], g.k)
    BY <1>8, <1>10
  <2>4. IfBranchLink(w, h, g, P2, X2)
    BY ONLY <1>10, <1>23, <2>1, <2>2, <2>3 DEF IfBranchLink
  <2> QED  BY <2>4 DEF Link
<1>13. Chains(x.c) /\ LorAt(kc, x.c, yes, no)
  BY <1>4, <1>5, WholeCondition
<1>14. IfTrue(h, X2) /\ IfFalse(h, X2)
  BY <1>8, <1>10, <1>23 DEF IfTrue, IfFalse, Promise
<1>24. PICK f : f = Frame(h, kc)
  OBVIOUS
<1>17. f.mode = "run" /\ f.k = kc /\ SameFrame(f, h)
  BY ONLY <1>24, FrameParts
<1>15. Link(Visit("lor", x.c), f, h, P2, X2)
  BY ONLY <1>13, <1>14, <1>23, <1>24, CondOf
<1>16. Replaced(F, P2, X2, f)
  BY <1>3, <1>12, <1>15 DEF Replaced
<1>18. Stacks(f)'
  <2>1. trueStack = g.ts /\ falseStack = g.fs /\ loopStack = g.ls
    BY <1>4 DEF Stacks
  <2>2. f.ts = Append(g.ts, bbs[1]) /\ f.fs = Append(g.fs, bbs[2]) /\ f.ls = g.ls
    BY ONLY <1>17, <1>23 DEF SameFrame, SameLoop
  <2> QED  BY ONLY <1>3, <2>1, <2>2 DEF Stacks
<1>19. Ready(f, kc)'
  BY <1>17 DEF Ready
<1> PICK m : m = n + 3
  OBVIOUS
<1>20. Built(f.mode, m, P2, X2, D2, kc)'
  <2>1. UNCHANGED <<code, term, succs>> /\ insert' = insert /\ Built("run", m, P2, X2, D2, kc)
    BY <1>3, <1>8 DEF cfgVars
  <2>2. Built("run", m, P2, X2, D2, kc)'
    BY <2>1, BuiltMoves
  <2> QED  BY <1>17, <2>2
<1>21. m = count' /\ UNCHANGED runVars
  BY <1>3
<1> QED  BY <1>2, <1>8, <1>9, <1>16, <1>18, <1>19, <1>20, <1>21, SimTurn

(* The insert block has branched on a condition.                           *)
LEMMA SimIfBranch ==
    ASSUME BlockInv, NEW F, NEW P, NEW X, NEW D, NEW cur, Sim(F, P, X, D, cur), IfBranch
    PROVE  Simulated'
<1>1. status = "lower" /\ work # << >> /\ Now.op = "ifBranch"
  BY DEF IfBranch, At
<1>2. Known(F, P, X, D, cur)
  BY <1>1, SimKnown
<1>3. /\ IfBranchLink(Now, F[1], F[2], P, X) /\ Ready(F[1], cur) /\ Stacks(F[1])
      /\ Built(F[1].mode, count, P, X, D, cur)
      /\ term[insert] = "none" \/ Tolerates(Now)
  BY <1>1, <1>2 DEF Known, Linked
<1> PICK w : w = Now
  OBVIOUS
<1> PICK g : g = F[2]
  OBVIOUS
<1> PICK n : n = count
  OBVIOUS
<1> PICK x : x = w.n
  OBVIOUS
<1> PICK b1, b2, b3 : b1 = w.bbs[1] /\ b2 = w.bbs[2] /\ b3 = w.bbs[3]
  OBVIOUS
<1>4. /\ F[1].mode = "test" /\ IsIf(w, g) /\ SameLoop(F[1], g) /\ w.bbs = <<b1, b2, b3>>
      /\ F[1].ts = Append(g.ts, b1) /\ F[1].fs = Append(g.fs, b2)
      /\ F[1].yes = <<x.s>> \o g.k /\ F[1].no = <<x.e>> \o g.k
      /\ Promise(P, X, b1, F[1].yes) /\ Promise(P, X, b2, F[1].no) /\ Promise(P, X, b3, g.k)
  BY <1>3 DEF IfBranchLink
<1>5. /\ Around(g) /\ x.k = "if" /\ x.s \in Stmts[Inside(g)]
  BY <1>4 DEF IsIf
<1>6. SubSeq(w.bbs, 1, 2) = <<b1, b2>>
  BY <1>4, Slices
<1>7. /\ trueStack' = Front(trueStack) /\ falseStack' = Front(falseStack)
      /\ Terminate(insert, "br", <<b1, b2>>) /\ insert' = b1
      /\ Then(<<Visit("stmt", x.s), Resume("ifElse", x, w.bbs)>>)
      /\ UNCHANGED <<count, loopStack, runVars>>
  BY <1>6 DEF IfBranch
<1>8. b1 \in Open(n)
  <2>1. 1 \in Turns("ifBranch")
    BY DEF Turns
  <2>2. b1 \in Future(Now)
    BY <1>1, <2>1 DEF Future
  <2> QED  BY <1>2, <2>2 DEF Known
<1> PICK y : y = F[1].yes
  OBVIOUS
<1> PICK z : z = F[1].no
  OBVIOUS
<1>9. term[insert] = "none" /\ Built("test", n, P, X, D, cur)
  BY <1>1, <1>3, <1>4 DEF Tolerates
<1>10. Len(code[insert]) # 0 /\ Asks(cur, code[insert][Len(code[insert])], y, z)
  BY <1>3, <1>4, <1>9 DEF Ready
<1>11. Leads(X, <<b1, 1>>, y) /\ Leads(X, <<b2, 1>>, z) /\ y = P[insert'] /\ insert' \in Open(n)
  BY <1>4, <1>7, <1>8 DEF Promise
<1>12. Built("run", n, P, X, D, y)'
  BY <1>7, <1>9, <1>10, <1>11, BuiltBranches
<1> PICK f : f = Frame(g, y)
  OBVIOUS
<1>13. f.mode = "run" /\ f.k = y /\ SameFrame(f, g)
  BY FrameParts
<1>14. Link(Visit("stmt", x.s), f, g, P, X)
  <2>1. IsStmt(x.s, Inside(g))
    <3> PICK b \in BOOLEAN : b = Inside(g)
      BY DEF Inside
    <3> QED  BY <1>5, StmtMarks
  <2>2. y = <<x.s>> \o g.k
    BY <1>4
  <2> QED  BY <1>5, <2>1, <2>2, StmtOf
<1>15. Link(Resume("ifElse", x, w.bbs), g, g, P, X)
  <2> PICK v : v = Resume("ifElse", x, w.bbs)
    OBVIOUS
  <2>1. v.op = "ifElse" /\ v.n = x /\ v.bbs[2] = b2 /\ v.bbs[3] = b3
    BY DEF Resume
  <2>2. IsIf(v, g) /\ g.mode = "run" /\ SameFrame(g, g)
    BY <1>4, <2>1 DEF IsIf, Around, SameFrame, SameLoop
  <2>3. IfElseLink(v, g, g, P, X)
    BY <1>4, <2>1, <2>2 DEF IfElseLink
  <2> QED  BY <2>3 DEF Link
<1>16. Replaced(F, P, X, f)
  BY <1>7, <1>14, <1>15 DEF Replaced
<1>17. Stacks(f)'
  <2>1. IsList(g.ts) /\ IsList(g.fs)
    BY <1>2 DEF Known, InLoop
  <2>2. Front(Append(g.ts, b1)) = g.ts /\ Front(Append(g.fs, b2)) = g.fs
    BY <2>1, LastAppended
  <2>3. trueStack = Append(g.ts, b1) /\ falseStack = Append(g.fs, b2) /\ loopStack = g.ls
    BY <1>3, <1>4 DEF Stacks, SameLoop
  <2>4. trueStack' = g.ts /\ falseStack' = g.fs /\ loopStack' = g.ls
    BY <1>7, <2>2, <2>3
  <2> QED  BY <1>13, <2>4 DEF Stacks, SameFrame, SameLoop
<1>18. Ready(f, y)'
  BY <1>13 DEF Ready
<1>19. Built(f.mode, n, P, X, D, y)'
  BY <1>12, <1>13
<1>20. n = count' /\ Keeps(P, P) /\ Grows(X, X) /\ UNCHANGED runVars
  BY <1>7, SameParts
<1> QED  BY <1>2, <1>16, <1>17, <1>18, <1>19, <1>20, SimTurn

(* The same after a step.                                                  *)
LEMMA BuiltUnfoldsNext ==
    ASSUME NEW n, NEW P, NEW X, NEW D, NEW cur
    PROVE  (Built("run", n, P, X, D, cur) /\ term[insert] = "none" /\ ~Ripe(cur)
               => \E X2 : Grows(X, X2) /\ Built("run", n, P, X2, D, Unfold(cur)))'
<1>1. Built("run", n, P, X, D, cur) /\ term[insert] = "none" /\ ~Ripe(cur)
         => \E X2 : Grows(X, X2) /\ Built("run", n, P, X2, D, Unfold(cur))
  BY BuiltUnfolds
<1> QED  BY <1>1, PTL

(* The branch at the end of a block that may be terminated.                *)
LEMMA BuiltFalls ==
    ASSUME NEW n, NEW P, NEW X, NEW D, NEW cur, Built("run", n, P, X, D, cur),
           NEW u \in Open(n), u # insert, term[insert] = "none" => P[u] = cur,
           BrUnlessTerminated(insert, u),
           NEW cur2, insert' \in Open(n), cur2 = P[insert']
    PROVE  \E D2 : Built("run", n, P, X, D2, cur2)'
<1>1. CASE term[insert] = "none"
  <2>1. Terminate(insert, "br", <<u>>)
    BY <1>1 DEF BrUnlessTerminated, Terminated
  <2> QED  BY <1>1, <2>1, BuiltJoins
<1>2. CASE term[insert] # "none"
  <2>1. UNCHANGED <<code, term, succs>>
    BY <1>2 DEF BrUnlessTerminated, Terminated, cfgVars
  <2>2. Built("run", n, P, X, D, cur2)'
    BY <1>2, <2>1, BuiltMoves
  <2> QED  BY <2>2
<1> QED  BY <1>1, <1>2

(* The next insert block is open.                                          *)
LEMMA OpenNext ==
    ASSUME NEW m, NEW n, NEW P, NEW X, NEW D, NEW cur, Built(m, n, P, X, D, cur),
           NEW b, b # insert, b \in Open(n), insert' = b, NEW t, BrUnlessTerminated(insert, t)
    PROVE  term'[insert'] = "none"
<1>1. term[b] = "none" /\ b \in DOMAIN term
  BY BlocksAssumption DEF Built, Open, Typed, BB
<1> QED  BY <1>1 DEF BrUnlessTerminated, Terminate, cfgVars

(* The then part is done, the else part begins.                            *)
LEMMA SimIfElse ==
    ASSUME BlockInv, NEW F, NEW P, NEW X, NEW D, NEW cur, Sim(F, P, X, D, cur), IfElse
    PROVE  Simulated'
<1>1. status = "lower" /\ work # << >> /\ Now.op = "ifElse"
  BY DEF IfElse, At
<1>2. Known(F, P, X, D, cur)
  BY <1>1, SimKnown
<1>3. /\ IfElseLink(Now, F[1], F[2], P, X) /\ Ready(F[1], cur) /\ Stacks(F[1])
      /\ Built(F[1].mode, count, P, X, D, cur)
  BY <1>1, <1>2 DEF Known, Linked
<1> PICK w : w = Now
  OBVIOUS
<1> PICK g : g = F[2]
  OBVIOUS
<1> PICK n : n = count
  OBVIOUS
<1> PICK x : x = w.n
  OBVIOUS
<1> PICK b2, b3 : b2 = w.bbs[2] /\ b3 = w.bbs[3]
  OBVIOUS
<1> PICK no : no = <<x.e>> \o g.k
  OBVIOUS
<1>4. /\ F[1].mode = "run" /\ IsIf(w, g) /\ SameFrame(F[1], g) /\ F[1].k = g.k
      /\ Promise(P, X, b2, no) /\ Promise(P, X, b3, g.k)
  BY <1>3 DEF IfElseLink
<1>5. /\ Around(g) /\ x.k = "if" /\ x.e \in Stmts[Inside(g)] \cup {None}
  BY <1>4 DEF IsIf
<1>6. /\ BrUnlessTerminated(insert, b3) /\ insert' = b2
      /\ Then(IF x.e = None THEN <<Resume("ifMerge", x, w.bbs)>>
              ELSE <<Visit("stmt", x.e), Resume("ifMerge", x, w.bbs)>>)
      /\ UNCHANGED <<count, stackVars, runVars>>
  BY DEF IfElse
<1>7. b2 \in Open(n) /\ b2 # insert /\ b3 \in Open(n) /\ b3 # insert
  <2>1. 2 \in Turns("ifElse") /\ 3 \in Turns("ifElse")
    BY DEF Turns
  <2>2. b2 \in Future(Now) /\ b3 \in Future(Now)
    BY <1>1, <2>1 DEF Future
  <2> QED  BY <1>2, <2>2 DEF Known
<1>8. PICK D2 : Built("run", n, P, X, D2, no)'
  <2>1. Built("run", n, P, X, D, cur)
    BY <1>3, <1>4
  <2>2. term[insert] = "none" => P[b3] = cur
    BY <1>3, <1>4 DEF Ready, Promise
  <2>3. insert' \in Open(n) /\ no = P[insert']
    BY <1>4, <1>6, <1>7 DEF Promise
  <2> QED  BY ONLY <1>6, <1>7, <2>1, <2>2, <2>3, BuiltFalls
<1>9. Stacks(g)'
  BY <1>3, <1>4, <1>6 DEF Stacks, stackVars, SameFrame, SameLoop
<1>10. Link(Resume("ifMerge", x, w.bbs), g, g, P, X)
  <2> PICK v : v = Resume("ifMerge", x, w.bbs)
    OBVIOUS
  <2>1. v.op = "ifMerge" /\ v.bbs[3] = b3
    BY DEF Resume
  <2>2. g.mode = "run" /\ SameFrame(g, g)
    BY <1>5 DEF Around, SameFrame, SameLoop
  <2>3. IfMergeLink(v, g, g, P, X)
    BY <1>4, <1>5, <2>1, <2>2 DEF IfMergeLink
  <2> QED  BY <2>3 DEF Link
<1>11. n = count' /\ Keeps(P, P) /\ Grows(X, X) /\ UNCHANGED runVars
  BY <1>6, SameParts
<1>12. CASE x.e # None
  <2>1. PICK f : f = Frame(g, no)
    OBVIOUS
  <2>2. f.mode = "run" /\ f.k = no /\ SameFrame(f, g)
    BY ONLY <2>1, FrameParts
  <2>3. Link(Visit("stmt", x.e), f, g, P, X)
    <3> PICK b \in BOOLEAN : b = Inside(g)
      BY DEF Inside
    <3>1. IsStmt(x.e, Inside(g))
      BY <1>5, <1>12, StmtMarks
    <3> QED  BY <1>5, <2>1, <3>1, StmtOf
  <2>4. Replaced(F, P, X, f)
    BY <1>6, <1>10, <1>12, <2>3 DEF Replaced
  <2>5. Stacks(f)'
    BY <1>9, <2>2 DEF Stacks, SameFrame, SameLoop
  <2>6. Ready(f, no)' /\ Built(f.mode, n, P, X, D2, no)'
    BY <1>8, <2>2 DEF Ready
  <2> QED  BY <1>2, <1>11, <2>4, <2>5, <2>6, SimTurn
<1>13. CASE x.e = None
  <2>1. IsList(g.k) /\ g.mode = "run"
    BY <1>5 DEF Around
  <2>2. ~Ripe(no) /\ Unfold(no) = g.k
    <3> PICK e : e = x.e
      OBVIOUS
    <3>1. e.k = "none"
      BY <1>13 DEF None
    <3>2. /\ Ripe(<<e>> \o g.k) <=> e.k \in {"act", "ret", "test"}
          /\ e.k = "none" => Unfold(<<e>> \o g.k) = g.k
      BY <2>1, Unfolding
    <3> QED  BY <3>1, <3>2
  <2>3. term'[insert'] = "none"
    BY <1>3, <1>6, <1>7, OpenNext
  <2>4. PICK X2 : Grows(X, X2) /\ Built("run", n, P, X2, D2, g.k)'
    <3>1. \E X2 : Grows(X, X2) /\ Built("run", n, P, X2, D2, Unfold(no))'
      BY <1>8, <2>2, <2>3, BuiltUnfoldsNext
    <3> QED  BY <2>2, <3>1
  <2>5. Replaced(F, P, X2, g)
    <3>1. Then(<<Resume("ifMerge", x, w.bbs)>>)
      BY <1>6, <1>13
    <3>2. Link(Resume("ifMerge", x, w.bbs), g, g, P, X2)
      BY <1>10, <1>11, <2>4, LinkOn
    <3> QED  BY <3>1, <3>2 DEF Replaced
  <2> PICK k : k = g.k
    OBVIOUS
  <2>6. Ready(g, k)' /\ Built(g.mode, n, P, X2, D2, k)'
    BY <2>1, <2>4 DEF Ready
  <2> QED  BY <1>2, <1>9, <1>11, <2>4, <2>5, <2>6, SimTurn
<1> QED  BY <1>12, <1>13

(* The else part is done, or there is none.                                *)
LEMMA SimIfMerge ==
    ASSUME BlockInv, NEW F, NEW P, NEW X, NEW D, NEW cur, Sim(F, P, X, D, cur), IfMerge
    PROVE  Simulated'
<1>1. status = "lower" /\ work # << >> /\ Now.op = "ifMerge"
  BY DEF IfMerge, At
<1>2. Known(F, P, X, D, cur)
  BY <1>1, SimKnown
<1>3. /\ IfMergeLink(Now, F[1], F[2], P, X) /\ Ready(F[1], cur) /\ Stacks(F[1])
      /\ Built(F[1].mode, count, P, X, D, cur) /\ (term[insert] = "none" \/ Tolerates(Now))
  BY <1>1, <1>2 DEF Known, Linked
<1> PICK g : g = F[2]
  OBVIOUS
<1> PICK n : n = count
  OBVIOUS
<1> PICK b3 : b3 = Now.bbs[3]
  OBVIOUS
<1> PICK k : k = g.k
  OBVIOUS
<1>4. /\ F[1].mode = "run" /\ Around(g) /\ SameFrame(F[1], g) /\ F[1].k = k /\ Promise(P, X, b3, k)
  BY <1>3 DEF IfMergeLink
<1>5. BrUnlessTerminated(insert, b3)
  <2>1. CASE Now.n.e = None
    <3>1. term[insert] = "none"
      BY <1>1, <1>3, <2>1 DEF Tolerates
    <3>2. Terminate(insert, "br", <<b3>>)
      BY <2>1 DEF IfMerge
    <3> QED  BY <3>1, <3>2 DEF BrUnlessTerminated, Terminated
  <2>2. CASE Now.n.e # None
    BY <2>2 DEF IfMerge
  <2> QED  BY <2>1, <2>2
<1>6. /\ insert' = b3 /\ Then(<< >>) /\ UNCHANGED <<count, stackVars, runVars>>
  BY DEF IfMerge
<1>7. b3 \in Open(n) /\ b3 # insert
  <2>1. 3 \in Turns("ifMerge")
    BY DEF Turns
  <2>2. b3 \in Future(Now)
    BY <1>1, <2>1 DEF Future
  <2> QED  BY <1>2, <2>2 DEF Known
<1>8. PICK D2 : Built("run", n, P, X, D2, k)'
  <2>1. Built("run", n, P, X, D, cur)
    BY <1>3, <1>4
  <2>2. term[insert] = "none" => P[b3] = cur
    BY <1>3, <1>4 DEF Ready, Promise
  <2>3. insert' \in Open(n) /\ k = P[insert']
    BY <1>4, <1>6, <1>7 DEF Promise
  <2> QED  BY ONLY <1>5, <1>7, <2>1, <2>2, <2>3, BuiltFalls
<1>9. Stacks(g)'
  BY <1>3, <1>4, <1>6 DEF Stacks, stackVars, SameFrame, SameLoop
<1>10. Replaced(F, P, X, g)
  BY <1>6 DEF Replaced
<1>11. n = count' /\ Keeps(P, P) /\ Grows(X, X) /\ UNCHANGED runVars
  BY <1>6, SameParts
<1>12. Ready(g, k)' /\ Built(g.mode, n, P, X, D2, k)'
  BY <1>4, <1>8 DEF Ready, Around
<1> QED  BY <1>2, <1>9, <1>10, <1>11, <1>12, SimTurn

(* Two lists of one element.                                              *)
LEMMA PairOf ==
    ASSUME NEW a, NEW b
    PROVE  <<a>> \o <<b>> = <<a, b>>
<1> DEFINE p == <<a>>
           q == <<b>>
           y == <<a, b>>
<1>1. /\ IsList(p) /\ Len(p) = 1 /\ p[1] = a /\ IsList(q) /\ Len(q) = 1 /\ q[1] = b
  BY OneList
<1>2. y \in Seq({a, b}) /\ Len(y) = 2 /\ y[1] = a /\ y[2] = b
  OBVIOUS
<1> HIDE DEF p, q, y
<1>3. /\ IsList(p \o q) /\ Len(p \o q) = Len(p) + Len(q)
      /\ \A i \in 1 .. Len(p) + Len(q) :
            (p \o q)[i] = IF i <= Len(p) THEN p[i] ELSE q[i - Len(p)]
  BY <1>1, Cat
<1>4. Len(p \o q) = 2 /\ (p \o q)[1] = a /\ (p \o q)[2] = b
  BY <1>1, <1>3
<1>5. PICK S : p \o q \in Seq(S)
  BY <1>3 DEF IsList
<1>6. p \o q \in Seq(S \cup {a, b}) /\ y \in Seq(S \cup {a, b})
  BY <1>2, <1>5, SeqMonotonic
<1>7. \A i \in 1 .. 2 : (p \o q)[i] = y[i]
  <2>1. \A i \in 1 .. 2 : i = 1 \/ i = 2
    OBVIOUS
  <2> QED  BY <1>2, <1>4, <2>1
<1>8. p \o q = y
  BY <1>2, <1>4, <1>6, <1>7, SeqEqual
<1> QED  BY <1>8 DEF p, q, y

(* What the condition of a loop leads to.                                  *)
LEMMA LoopCondition ==
    ASSUME NEW x, IsCond(x.c), NEW r, IsList(r)
    PROVE  /\ Chains(x.c)
           /\ LorAt(<<TestLoop(x)>> \o r, x.c, <<x.s>> \o (<<Again(x)>> \o r), r)
<1> PICK a : a = x.s
  OBVIOUS
<1> PICK b : b = Again(x)
  OBVIOUS
<1> PICK y : y = <<a, b>>
  OBVIOUS
<1> PICK z : z = << >>
  OBVIOUS
<1> PICK p : p = <<a>>
  OBVIOUS
<1> PICK q : q = <<b>>
  OBVIOUS
<1>1. IsList(p) /\ IsList(q) /\ z \o r = r
  BY OneList, CatNone
<1>2. p \o q = y
  BY PairOf
<1>3. (p \o q) \o r = p \o (q \o r)
  BY <1>1, CatAssoc
<1>4. y \o r = <<x.s>> \o (<<Again(x)>> \o r)
  BY <1>2, <1>3
<1>5. TestLoop(x) = Test(x.c, y, z)
  BY DEF TestLoop, Again
<1>6. Chains(x.c) /\ LorAt(<<Test(x.c, y, z)>> \o r, x.c, y \o r, z \o r)
  BY WholeCondition
<1> QED  BY <1>1, <1>4, <1>5, <1>6

(* IterationStmt branches to its test block and visits the condition.      *)
LEMMA SimWhile ==
    ASSUME BlockInv, NEW F, NEW P, NEW X, NEW D, NEW cur, Sim(F, P, X, D, cur), VisitWhile
    PROVE  Simulated'
<1>1. status = "lower" /\ work # << >> /\ Now.op = "stmt" /\ Now.n.k = "while"
  BY DEF VisitWhile, AtStmt, At
<1>2. Known(F, P, X, D, cur) /\ Simple(F, P, X, D, cur)
  BY <1>1, SimKnown, SimpleStmt
<1> PICK x : x = Now.n
  OBVIOUS
<1> PICK g : g = F[2]
  OBVIOUS
<1> PICK n : n = count
  OBVIOUS
<1> PICK m : m = n + 3
  OBVIOUS
<1> PICK bbs : bbs = <<n + 1, n + 2, n + 3>>
  OBVIOUS
<1>3. PICK w : w = Resume("whileBranch", x, bbs)
  OBVIOUS
<1>4. /\ w.op = "whileBranch" /\ w.n = x /\ w.bbs = bbs /\ bbs[1] = n + 1 /\ bbs[2] = n + 2
      /\ bbs[3] = n + 3 /\ w.bbs = <<w.bbs[1], w.bbs[2], w.bbs[3]>>
  BY <1>3 DEF Resume
<1> PICK b1, b2, b3 : b1 = n + 1 /\ b2 = n + 2 /\ b3 = n + 3
  OBVIOUS
<1>5. LoopOf(w) = [trueBB |-> b1, falseBB |-> b3]
  BY <1>4 DEF LoopOf
<1>6. /\ n + 3 <= MaxBlocks /\ count' = m
      /\ Terminate(insert, "br", <<b1>>) /\ insert' = b1
      /\ trueStack' = Append(trueStack, b2) /\ falseStack' = Append(falseStack, b3)
      /\ loopStack' = Append(loopStack, [trueBB |-> b1, falseBB |-> b3])
      /\ Then(<<Visit("lor", x.c), w>>) /\ UNCHANGED runVars
  BY <1>3 DEF VisitWhile
<1>7. /\ Around(g) /\ IsStmt(x, Inside(g)) /\ IsList(g.k)
      /\ cur = <<x>> \o g.k /\ term[insert] = "none" /\ Built("run", n, P, X, D, cur) /\ Stacks(g)
  BY <1>2 DEF Simple
<1>8. IsCond(x.c) /\ x.s \in Stmts[TRUE]
  BY <1>1, <1>7 DEF IsStmt
<1> PICK yes : yes = <<x.s>> \o (<<Again(x)>> \o g.k)
  OBVIOUS
<1> PICK kt : kt = <<TestLoop(x)>> \o g.k
  OBVIOUS
<1> PICK gk : gk = g.k
  OBVIOUS
<1>9. ~Ripe(cur) /\ Unfold(cur) = kt
  <2>1. /\ Ripe(<<x>> \o g.k) <=> x.k \in {"act", "ret", "test"}
        /\ x.k = "while" => Unfold(<<x>> \o g.k) = <<TestLoop(x)>> \o g.k
    BY <1>7, Unfolding
  <2> QED  BY <1>1, <1>7, <2>1
<1>10. PICK X1 : Grows(X, X1) /\ Built("run", n, P, X1, D, kt)
  BY <1>7, <1>9, BuiltUnfolds
<1>11. PICK P2, X2, D2 :
         /\ Keeps(P, P2) /\ Grows(X1, X2) /\ Promise(P2, X2, n + 1, kt)
         /\ Promise(P2, X2, n + 2, yes) /\ Promise(P2, X2, n + 3, gk)
         /\ Built("run", n + 3, P2, X2, D2, kt)
  BY <1>6, <1>10, OpensThree
<1>12. /\ Grows(X, X2) /\ Built("run", m, P2, X2, D2, kt)
       /\ Promise(P2, X2, b1, kt) /\ Promise(P2, X2, b2, yes) /\ Promise(P2, X2, b3, gk)
  BY <1>10, <1>11 DEF Grows
<1>13. b1 \in Open(m) /\ b1 # insert /\ P2[b1] = kt
  <2>1. n \in 1 .. MaxBlocks /\ insert \in 1 .. n /\ \A b \in BB : b > n => term[b] = "none"
    BY <1>7 DEF Built
  <2>2. b1 \in BB /\ b1 > n /\ b1 \in 1 .. m /\ b1 # insert
    BY <1>6, <2>1, BlocksAssumption DEF BB
  <2> QED  BY <1>12, <2>1, <2>2 DEF Open, Promise
<1>14. PICK D3 : Built("run", m, P2, X2, D3, kt)'
  BY ONLY <1>6, <1>7, <1>12, <1>13, BuiltJoins
<1>15. PICK h : h = Asking(Append(g.ts, b2), Append(g.fs, b3), Append(g.ls, LoopOf(w)), x, gk, yes, gk)
  OBVIOUS
<1>16. IsList(g.ts) /\ IsList(g.fs)
  BY <1>2 DEF Known, InLoop
<1>17. Asker(h, g, b2, b3, Append(g.ls, LoopOf(w)), x, gk, yes, gk)
  BY ONLY <1>15, <1>16, AskingParts
<1>18. /\ h.mode = "test" /\ h.ts = Append(g.ts, b2) /\ h.fs = Append(g.fs, b3)
       /\ h.ls = Append(g.ls, LoopOf(w)) /\ h.w = x /\ h.r = gk /\ h.yes = yes /\ h.no = gk
       /\ h.ts # << >> /\ Last(h.ts) = b2 /\ h.fs # << >> /\ Last(h.fs) = b3
  BY ONLY <1>17 DEF Asker
<1>19. Link(w, h, g, P2, X2)
  <2>1. w.bbs[1] = b1 /\ w.bbs[2] = b2 /\ w.bbs[3] = b3
    BY <1>4
  <2>2. Leads(X2, <<b1, 1>>, kt)
    BY <1>12 DEF Promise
  <2>3. LoopLink(w, h, g, P2, X2)
    <3>1. w.n.k = "while" /\ w.n.s \in Stmts[TRUE] /\ kt = <<TestLoop(w.n)>> \o g.k /\ gk = g.k
      BY <1>1, <1>4, <1>8
    <3> QED  BY ONLY <1>4, <1>7, <1>12, <1>18, <2>1, <2>2, <3>1 DEF LoopLink
  <2>4. yes = <<w.n.s>> \o (<<Again(w.n)>> \o g.k) /\ gk = g.k
    BY <1>4
  <2>5. WhileBranchLink(w, h, g, P2, X2)
    BY ONLY <1>4, <1>12, <1>18, <2>1, <2>3, <2>4 DEF WhileBranchLink
  <2> QED  BY <2>5 DEF Link
<1>20. Chains(x.c) /\ LorAt(kt, x.c, yes, gk)
  BY <1>7, <1>8, LoopCondition
<1>21. IfTrue(h, X2) /\ IfFalse(h, X2)
  BY ONLY <1>12, <1>18 DEF IfTrue, IfFalse, Promise
<1>22. PICK f : f = Frame(h, kt)
  OBVIOUS
<1>23. f.mode = "run" /\ f.k = kt /\ SameFrame(f, h)
  BY ONLY <1>22, FrameParts
<1>24. Link(Visit("lor", x.c), f, h, P2, X2)
  BY ONLY <1>18, <1>20, <1>21, <1>22, CondOf
<1>25. Replaced(F, P2, X2, f)
  BY <1>6, <1>19, <1>24 DEF Replaced
<1>26. Stacks(f)'
  <2>1. trueStack = g.ts /\ falseStack = g.fs /\ loopStack = g.ls
    BY <1>7 DEF Stacks
  <2>2. f.ts = Append(g.ts, b2) /\ f.fs = Append(g.fs, b3) /\ f.ls = Append(g.ls, LoopOf(w))
    BY ONLY <1>18, <1>23 DEF SameFrame, SameLoop
  <2> QED  BY ONLY <1>5, <1>6, <2>1, <2>2 DEF Stacks
<1>27. Ready(f, kt)' /\ Built(f.mode, m, P2, X2, D3, kt)'
  BY <1>14, <1>23 DEF Ready
<1>28. m = count' /\ UNCHANGED runVars
  BY <1>6
<1> QED  BY <1>2, <1>11, <1>12, <1>25, <1>26, <1>27, <1>28, SimTurn

(* The test block has branched on the condition: the body begins.          *)
LEMMA SimWhileBranch ==
    ASSUME BlockInv, NEW F, NEW P, NEW X, NEW D, NEW cur, Sim(F, P, X, D, cur), WhileBranch
    PROVE  Simulated'
<1>1. status = "lower" /\ work # << >> /\ Now.op = "whileBranch"
  BY DEF WhileBranch, At
<1>2. Known(F, P, X, D, cur)
  BY <1>1, SimKnown
<1>3. /\ WhileBranchLink(Now, F[1], F[2], P, X) /\ Ready(F[1], cur) /\ Stacks(F[1])
      /\ Built(F[1].mode, count, P, X, D, cur)
      /\ term[insert] = "none" \/ Tolerates(Now)
  BY <1>1, <1>2 DEF Known, Linked
<1> PICK w : w = Now
  OBVIOUS
<1> PICK g : g = F[2]
  OBVIOUS
<1> PICK n : n = count
  OBVIOUS
<1> PICK x : x = w.n
  OBVIOUS
<1> PICK b1, b2, b3 : b1 = w.bbs[1] /\ b2 = w.bbs[2] /\ b3 = w.bbs[3]
  OBVIOUS
<1> PICK y : y = F[1].yes
  OBVIOUS
<1> PICK z : z = F[1].no
  OBVIOUS
<1>4. /\ F[1].mode = "test" /\ LoopLink(w, F[1], g, P, X) /\ w.bbs = <<b1, b2, b3>>
      /\ F[1].ts = Append(g.ts, b2) /\ F[1].fs = Append(g.fs, b3)
      /\ y = <<x.s>> \o (<<Again(x)>> \o g.k) /\ z = g.k /\ Promise(P, X, b2, y)
  BY <1>3 DEF WhileBranchLink
<1>5. /\ Around(g) /\ x.k = "while" /\ x.s \in Stmts[TRUE]
      /\ F[1].ls = Append(g.ls, LoopOf(w)) /\ F[1].w = x /\ F[1].r = g.k
      /\ Promise(P, X, b3, g.k)
  BY <1>4 DEF LoopLink
<1>6. SubSeq(w.bbs, 2, 3) = <<b2, b3>>
  BY <1>4, Slices
<1>7. PICK v : v = Resume("whileEnd", x, w.bbs)
  OBVIOUS
<1>8. /\ trueStack' = Front(trueStack) /\ falseStack' = Front(falseStack)
      /\ Terminate(insert, "br", <<b2, b3>>) /\ insert' = b2
      /\ Then(<<Visit("stmt", x.s), v>>)
      /\ UNCHANGED <<count, loopStack, runVars>>
  BY <1>6, <1>7 DEF WhileBranch
<1>9. b2 \in Open(n)
  <2>1. 2 \in Turns("whileBranch")
    BY DEF Turns
  <2>2. b2 \in Future(Now)
    BY <1>1, <2>1 DEF Future
  <2> QED  BY <1>2, <2>2 DEF Known
<1>10. term[insert] = "none" /\ Built("test", n, P, X, D, cur)
  BY <1>1, <1>3, <1>4 DEF Tolerates
<1>11. Len(code[insert]) # 0 /\ Asks(cur, code[insert][Len(code[insert])], y, z)
  BY <1>3, <1>4, <1>10 DEF Ready
<1>12. Leads(X, <<b2, 1>>, y) /\ Leads(X, <<b3, 1>>, z) /\ y = P[insert'] /\ insert' \in Open(n)
  BY <1>4, <1>5, <1>8, <1>9 DEF Promise
<1>13. Built("run", n, P, X, D, y)'
  BY <1>8, <1>10, <1>11, <1>12, BuiltBranches
<1> PICK k : k = <<Again(x)>> \o g.k
  OBVIOUS
<1>14. PICK h : h = [mode |-> "run", k |-> k, ts |-> g.ts, fs |-> g.fs,
                     ls |-> F[1].ls, w |-> x, r |-> g.k]
  OBVIOUS
<1>15. /\ h.mode = "run" /\ h.k = k /\ h.ts = g.ts /\ h.fs = g.fs /\ h.ls = F[1].ls
       /\ h.w = x /\ h.r = g.k
  BY ONLY <1>14
<1>16. IsList(g.ts) /\ IsList(g.fs) /\ IsList(g.ls) /\ IsList(g.k)
  BY <1>2, <1>5 DEF Known, InLoop, Around
<1>17. Inside(h)
  <2>1. Append(g.ls, LoopOf(w)) # << >>
    BY <1>16, LastAppended
  <2> QED  BY <1>5, <1>15, <2>1 DEF Inside
<1>18. Around(h)
  <2>1. IsList(k)
    BY <1>16, Before
  <2>2. Reaches(k, x, g.k)
    <3> PICK a : a = << >>
      OBVIOUS
    <3>1. IsList(a) /\ Len(a) = 0 /\ a \o k = k
      BY <2>1, CatNone
    <3>2. \A i \in 1 .. Len(a) : a[i].k # "again"
      BY <3>1
    <3> QED  BY <1>16, <3>1, <3>2 DEF Reaches
  <2> QED  BY <1>15, <2>1, <2>2 DEF Around
<1>19. v.op = "whileEnd" /\ v.n = x /\ v.bbs = w.bbs
  BY ONLY <1>7 DEF Resume
<1>20. Link(v, h, g, P, X)
  <2>1. LoopOf(v) = LoopOf(w)
    BY <1>19 DEF LoopOf
  <2>2. LoopLink(v, h, g, P, X)
    BY <1>4, <1>15, <1>19, <2>1 DEF LoopLink
  <2>3. WhileEndLink(v, h, g, P, X)
    BY <1>15, <1>19, <2>2 DEF WhileEndLink
  <2> QED  BY <2>3 DEF Link
<1>21. PICK f : f = Frame(h, y)
  OBVIOUS
<1>22. f.mode = "run" /\ f.k = y /\ SameFrame(f, h)
  BY ONLY <1>21, FrameParts
<1>23. Link(Visit("stmt", x.s), f, h, P, X)
  <2>1. IsStmt(x.s, Inside(h))
    <3>1. IsStmt(x.s, TRUE)
      BY <1>5, StmtMarks
    <3> QED  BY <1>17, <3>1 DEF Inside
  <2>2. y = <<x.s>> \o h.k
    BY <1>4, <1>15
  <2> QED  BY <1>18, <1>21, <2>1, <2>2, StmtOf
<1>24. Replaced(F, P, X, f)
  BY <1>8, <1>20, <1>23 DEF Replaced
<1>25. Stacks(f)'
  <2>1. Front(Append(g.ts, b2)) = g.ts /\ Front(Append(g.fs, b3)) = g.fs
    BY <1>16, LastAppended
  <2>2. trueStack = Append(g.ts, b2) /\ falseStack = Append(g.fs, b3) /\ loopStack = F[1].ls
    BY <1>3, <1>4 DEF Stacks
  <2>3. trueStack' = g.ts /\ falseStack' = g.fs /\ loopStack' = F[1].ls
    BY <1>8, <2>1, <2>2
  <2> QED  BY <1>15, <1>22, <2>3 DEF Stacks, SameFrame, SameLoop
<1>26. Ready(f, y)' /\ Built(f.mode, n, P, X, D, y)'
  BY <1>13, <1>22 DEF Ready
<1>27. n = count' /\ Keeps(P, P) /\ Grows(X, X) /\ UNCHANGED runVars
  BY <1>8, SameParts
<1> QED  BY <1>2, <1>24, <1>25, <1>26, <1>27, SimTurn

(* The body leads back to the test, and the loop is left.                  *)
LEMMA SimWhileEnd ==
    ASSUME BlockInv, NEW F, NEW P, NEW X, NEW D, NEW cur, Sim(F, P, X, D, cur), WhileEnd
    PROVE  Simulated'
<1>1. status = "lower" /\ work # << >> /\ Now.op = "whileEnd"
  BY DEF WhileEnd, At
<1>2. Known(F, P, X, D, cur)
  BY <1>1, SimKnown
<1>3. /\ WhileEndLink(Now, F[1], F[2], P, X) /\ Ready(F[1], cur) /\ Stacks(F[1])
      /\ Built(F[1].mode, count, P, X, D, cur)
  BY <1>1, <1>2 DEF Known, Linked
<1> PICK w : w = Now
  OBVIOUS
<1> PICK g : g = F[2]
  OBVIOUS
<1> PICK n : n = count
  OBVIOUS
<1> PICK x : x = w.n
  OBVIOUS
<1> PICK b1, b3 : b1 = w.bbs[1] /\ b3 = w.bbs[3]
  OBVIOUS
<1> PICK k : k = g.k
  OBVIOUS
<1> PICK kt : kt = <<TestLoop(x)>> \o g.k
  OBVIOUS
<1>4. /\ F[1].mode = "run" /\ LoopLink(w, F[1], g, P, X)
      /\ F[1].ts = g.ts /\ F[1].fs = g.fs /\ F[1].k = <<Again(x)>> \o g.k
  BY <1>3 DEF WhileEndLink
<1>5. /\ Around(g) /\ F[1].ls = Append(g.ls, LoopOf(w))
      /\ Leads(X, <<b1, 1>>, kt) /\ Promise(P, X, b3, k)
  BY <1>4 DEF LoopLink
<1>6. /\ BrUnlessTerminated(insert, b1) /\ insert' = b3 /\ loopStack' = Front(loopStack)
      /\ Then(<< >>) /\ UNCHANGED <<count, trueStack, falseStack, runVars>>
  BY DEF WhileEnd
<1>7. b3 \in Open(n) /\ b3 # insert
  <2>1. 3 \in Turns("whileEnd")
    BY DEF Turns
  <2>2. b3 \in Future(Now)
    BY <1>1, <2>1 DEF Future
  <2> QED  BY <1>2, <2>2 DEF Known
<1>8. insert' \in Open(n) /\ k = P[insert']
  BY <1>5, <1>6, <1>7 DEF Promise
<1>9. PICK X2 : Grows(X, X2) /\ Built("run", n, P, X2, D, k)'
  <2>1. Built("run", n, P, X, D, cur)
    BY <1>3, <1>4
  <2>2. CASE term[insert] = "none"
    <3>1. cur = <<Again(x)>> \o g.k
      BY <1>3, <1>4, <2>2 DEF Ready
    <3>2. ~Ripe(cur) /\ Unfold(cur) = kt /\ Ripe(kt)
      <4>1. IsList(g.k)
        BY <1>5 DEF Around
      <4> PICK y : y = Again(x)
        OBVIOUS
      <4>2. y.k = "again" /\ y.w = x
        BY DEF Again
      <4>3. /\ Ripe(<<y>> \o g.k) <=> y.k \in {"act", "ret", "test"}
            /\ y.k = "again" => Unfold(<<y>> \o g.k) = <<TestLoop(y.w)>> \o g.k
        BY <4>1, Unfolding
      <4> PICK z : z = TestLoop(x)
        OBVIOUS
      <4>4. z.k = "test"
        BY DEF TestLoop, Test
      <4>5. Ripe(<<z>> \o g.k) <=> z.k \in {"act", "ret", "test"}
        BY <4>1, Unfolding
      <4> QED  BY <3>1, <4>2, <4>3, <4>4, <4>5
    <3>3. PICK X2 : Grows(X, X2) /\ Built("run", n, P, X2, D, kt)
      BY <2>1, <2>2, <3>2, BuiltUnfolds
    <3>4. Terminate(insert, "br", <<b1>>)
      BY <1>6, <2>2 DEF BrUnlessTerminated, Terminated
    <3>5. Leads(X2, <<b1, 1>>, kt)
      BY <1>5, <3>3, LeadsOn
    <3>6. Built("run", n, P, X2, D, k)'
      BY ONLY <1>8, <2>2, <3>2, <3>3, <3>4, <3>5, BuiltJumps
    <3> QED  BY <3>3, <3>6
  <2>3. CASE term[insert] # "none"
    <3>1. UNCHANGED <<code, term, succs>>
      BY <1>6, <2>3 DEF BrUnlessTerminated, Terminated, cfgVars
    <3>2. Built("run", n, P, X, D, k)'
      BY <1>8, <2>1, <2>3, <3>1, BuiltMoves
    <3> QED  BY <3>2, SameParts
  <2> QED  BY <2>2, <2>3
<1>10. Stacks(g)'
  <2>1. IsList(g.ls)
    BY <1>2 DEF Known, InLoop
  <2>2. Front(Append(g.ls, LoopOf(w))) = g.ls
    BY <2>1, LastAppended
  <2>3. trueStack = g.ts /\ falseStack = g.fs /\ loopStack = Append(g.ls, LoopOf(w))
    BY <1>3, <1>4, <1>5 DEF Stacks
  <2> QED  BY <1>6, <2>2, <2>3 DEF Stacks
<1>11. Replaced(F, P, X2, g)
  BY <1>6 DEF Replaced
<1>12. n = count' /\ Keeps(P, P) /\ UNCHANGED runVars
  BY <1>6, SameParts
<1>13. Ready(g, k)' /\ Built(g.mode, n, P, X2, D, k)'
  BY <1>5, <1>9 DEF Ready, Around
<1> QED  BY <1>2, <1>9, <1>10, <1>11, <1>12, <1>13, SimTurn

-----------------------------------------------------------------------------
(* Conditions: what is known when a disjunction or a conjunction is        *)
(* visited.                                                                *)
Disjunction(F, P, X, D, cur) ==
    /\ F[2].mode = "test" /\ SameFrame(F[1], F[2]) /\ Chains(Now.n)
    /\ LorAt(cur, Now.n, F[2].yes, F[2].no) /\ IfTrue(F[2], X) /\ IfFalse(F[2], X)
    /\ term[insert] = "none" /\ Built("run", count, P, X, D, cur) /\ Stacks(F[2])
    /\ IsList(F[2].ts) /\ IsList(F[2].fs)

Conjunction(F, P, X, D, cur) ==
    /\ F[2].mode = "test" /\ SameFrame(F[1], F[2]) /\ IsList(Now.n) /\ Len(Now.n) # 0
    /\ LandAt(cur, Now.n, F[2].yes, F[2].no) /\ IfFalse(F[2], X)
    /\ term[insert] = "none" /\ Built("run", count, P, X, D, cur) /\ Stacks(F[2])

(* A visit of a disjunction is in that state ...                           *)
LEMMA Disjunctive ==
    ASSUME NEW F, NEW P, NEW X, NEW D, NEW cur, Known(F, P, X, D, cur), Now.op = "lor"
    PROVE  Disjunction(F, P, X, D, cur)
<1>1. /\ LOrLink(Now, F[1], F[2], X) /\ Stacks(F[1]) /\ Ready(F[1], cur)
      /\ Built(F[1].mode, count, P, X, D, cur) /\ InLoop(F[2], P, X)
      /\ term[insert] = "none" \/ Tolerates(Now)
  BY DEF Known, Linked
<1>2. term[insert] = "none"
  BY <1>1 DEF Tolerates
<1>3. cur = F[1].k /\ F[1].mode = "run"
  BY <1>1, <1>2 DEF Ready, LOrLink
<1>4. Stacks(F[2])
  BY <1>1 DEF Stacks, LOrLink, SameFrame, SameLoop
<1> QED  BY <1>1, <1>2, <1>3, <1>4 DEF Disjunction, LOrLink, InLoop

(* ... and one of a conjunction.                                           *)
LEMMA Conjunctive ==
    ASSUME NEW F, NEW P, NEW X, NEW D, NEW cur, Known(F, P, X, D, cur), Now.op = "land"
    PROVE  Conjunction(F, P, X, D, cur)
<1>1. /\ LAndLink(Now, F[1], F[2], X) /\ Stacks(F[1]) /\ Ready(F[1], cur)
      /\ Built(F[1].mode, count, P, X, D, cur)
      /\ term[insert] = "none" \/ Tolerates(Now)
  BY DEF Known, Linked
<1>2. term[insert] = "none"
  BY <1>1 DEF Tolerates
<1>3. cur = F[1].k /\ F[1].mode = "run"
  BY <1>1, <1>2 DEF Ready, LAndLink
<1>4. Stacks(F[2])
  BY <1>1 DEF Stacks, LAndLink, SameFrame, SameLoop
<1> QED  BY <1>1, <1>2, <1>3, <1>4 DEF Conjunction, LAndLink

(* A chain of conjuncts is visited.                                        *)
LEMMA ChainOf ==
    ASSUME NEW h, h.mode = "test", NEW c, IsList(c), Len(c) # 0, NEW k,
           LandAt(k, c, h.yes, h.no), NEW P, NEW X, IfFalse(h, X)
    PROVE  Link(Visit("land", c), Frame(h, k), h, P, X)
<1> PICK f : f = Frame(h, k)
  OBVIOUS
<1>1. f.mode = "run" /\ f.k = k /\ SameFrame(f, h)
  BY FrameParts
<1>2. Visit("land", c).op = "land" /\ Visit("land", c).n = c
  BY DEF Visit
<1>3. LAndLink(Visit("land", c), f, h, X)
  BY <1>1, <1>2 DEF LAndLink
<1> QED  BY <1>3 DEF Link

(* A disjunction of several is taken apart, one of one is passed on.       *)
LEMMA SimLOr ==
    ASSUME BlockInv, NEW F, NEW P, NEW X, NEW D, NEW cur, Sim(F, P, X, D, cur), VisitLOr
    PROVE  Simulated'
<1>1. status = "lower" /\ work # << >> /\ Now.op = "lor"
  BY DEF VisitLOr, At
<1>2. Known(F, P, X, D, cur) /\ Disjunction(F, P, X, D, cur)
  BY <1>1, SimKnown, Disjunctive
<1> PICK x : x = Now.n
  OBVIOUS
<1> PICK g : g = F[2]
  OBVIOUS
<1> PICK n : n = count
  OBVIOUS
<1>3. /\ g.mode = "test" /\ Chains(x) /\ LorAt(cur, x, g.yes, g.no)
      /\ IfTrue(g, X) /\ IfFalse(g, X) /\ term[insert] = "none"
      /\ Built("run", n, P, X, D, cur) /\ Stacks(g) /\ IsList(g.ts) /\ IsList(g.fs)
  BY <1>2 DEF Disjunction
<1>4. CASE Len(x) = 1
  <2>1. /\ Then(<<Visit("land", x[1])>>) /\ UNCHANGED <<code, term, succs>>
        /\ UNCHANGED <<insert, count, falseStack, trueStack, loopStack, runVars>>
    BY <1>4 DEF VisitLOr, cfgVars
  <2>2. LandAt(cur, x[1], g.yes, g.no) /\ IsList(x[1]) /\ Len(x[1]) # 0
    BY <1>3, <1>4, OneDisjunct
  <2>3. PICK f : f = Frame(g, cur)
    OBVIOUS
  <2>4. f.mode = "run" /\ f.k = cur /\ SameFrame(f, g)
    BY ONLY <2>3, FrameParts
  <2>5. Link(Visit("land", x[1]), f, g, P, X)
    BY ONLY <1>3, <2>2, <2>3, ChainOf
  <2>6. Replaced(F, P, X, f)
    BY <2>1, <2>5 DEF Replaced
  <2>7. Stacks(f)'
    BY <1>3, <2>1, <2>4 DEF Stacks, SameFrame, SameLoop
  <2>8. Ready(f, cur)'
    BY <2>4 DEF Ready
  <2>9. Built("run", n, P, X, D, cur)'
    BY <1>3, <2>1, BuiltMoves
  <2>10. Built(f.mode, n, P, X, D, cur)'
    BY <2>4, <2>9
  <2>11. n = count' /\ Keeps(P, P) /\ Grows(X, X) /\ UNCHANGED runVars
    BY <2>1, SameParts
  <2> QED  BY <1>2, <2>6, <2>7, <2>8, <2>10, <2>11, SimTurn
<1>5. CASE Len(x) # 1
  <2> PICK b : b = n + 1
    OBVIOUS
  <2>1. PICK l : l = Last(x)
    OBVIOUS
  <2>2. PICK w : w = Resume("lorRight", l, <<b>>)
    OBVIOUS
  <2>3. PICK fr : fr = Front(x)
    OBVIOUS
  <2>4. /\ n < MaxBlocks /\ falseStack' = Append(falseStack, b) /\ count' = b
        /\ Then(<<Visit("lor", fr), w>>) /\ UNCHANGED <<code, term, succs>>
        /\ UNCHANGED <<insert, trueStack, loopStack, runVars>>
    BY <1>5, <2>1, <2>2, <2>3 DEF VisitLOr, cfgVars
  <2>5. PICK kb : /\ LorAt(cur, fr, g.yes, kb) /\ LandAt(kb, l, g.yes, g.no)
                  /\ Chains(fr) /\ IsList(l) /\ Len(l) # 0
    BY ONLY <1>3, <1>5, <2>1, <2>3, LastDisjunct
  <2>6. PICK P2, X2, D2 : /\ Keeps(P, P2) /\ Grows(X, X2) /\ Promise(P2, X2, n + 1, kb)
                          /\ Built("run", n + 1, P2, X2, D2, cur)
    BY ONLY <1>3, <2>4, BuiltOpens
  <2>7. Promise(P2, X2, b, kb) /\ Built("run", b, P2, X2, D2, cur)
    BY <2>6
  <2>8. PICK h : h = Asking(g.ts, Append(g.fs, b), g.ls, g.w, g.r, g.yes, kb)
    OBVIOUS
  <2>9. /\ h.mode = "test" /\ h.ts = g.ts /\ h.fs = Append(g.fs, b) /\ SameLoop(h, g)
        /\ h.yes = g.yes /\ h.no = kb
    BY ONLY <2>8 DEF Asking, SameLoop
  <2>10. h.fs # << >> /\ Last(h.fs) = b
    BY ONLY <1>3, <2>9, LastAppended
  <2>11. IfTrue(g, X2) /\ IfFalse(g, X2)
    BY ONLY <1>3, <2>6, IfOn
  <2>12. IfTrue(h, X2) /\ IfFalse(h, X2)
    BY ONLY <2>7, <2>9, <2>10, <2>11 DEF IfTrue, IfFalse, Promise
  <2>13. Link(w, h, g, P2, X2)
    <3>1. w.op = "lorRight" /\ w.n = l /\ w.bbs[1] = b
      BY ONLY <2>2 DEF Resume
    <3>2. LOrRightLink(w, h, g, P2, X2)
      BY ONLY <1>3, <2>5, <2>7, <2>9, <2>11, <3>1 DEF LOrRightLink
    <3> QED  BY ONLY <3>2 DEF Link
  <2>14. PICK f : f = Frame(h, cur)
    OBVIOUS
  <2>15. f.mode = "run" /\ f.k = cur /\ SameFrame(f, h)
    BY ONLY <2>14, FrameParts
  <2>16. Link(Visit("lor", fr), f, h, P2, X2)
    BY ONLY <2>5, <2>9, <2>12, <2>14, CondOf
  <2>17. Replaced(F, P2, X2, f)
    BY <2>4, <2>13, <2>16 DEF Replaced
  <2>18. Stacks(f)'
    <3>1. trueStack = g.ts /\ falseStack = g.fs /\ loopStack = g.ls
      BY <1>3 DEF Stacks
    <3>2. f.ts = g.ts /\ f.fs = Append(g.fs, b) /\ f.ls = g.ls
      BY ONLY <2>9, <2>15 DEF SameFrame, SameLoop
    <3> QED  BY ONLY <2>4, <3>1, <3>2 DEF Stacks
  <2>19. Ready(f, cur)'
    BY <2>15 DEF Ready
  <2>20. Built(f.mode, b, P2, X2, D2, cur)'
    <3>1. Built("run", b, P2, X2, D2, cur)'
      BY <2>4, <2>7, BuiltMoves
    <3> QED  BY <2>15, <3>1
  <2>21. b = count' /\ UNCHANGED runVars
    BY <2>4
  <2> QED  BY <1>2, <2>6, <2>17, <2>18, <2>19, <2>20, <2>21, SimTurn
<1> QED  BY <1>4, <1>5

(* The left side has come out false: the right side decides.               *)
LEMMA SimLOrRight ==
    ASSUME BlockInv, NEW F, NEW P, NEW X, NEW D, NEW cur, Sim(F, P, X, D, cur), LOrRight
    PROVE  Simulated'
<1>1. status = "lower" /\ work # << >> /\ Now.op = "lorRight"
  BY DEF LOrRight, At
<1>2. Known(F, P, X, D, cur)
  BY <1>1, SimKnown
<1>3. /\ LOrRightLink(Now, F[1], F[2], P, X) /\ Ready(F[1], cur) /\ Stacks(F[1])
      /\ Built(F[1].mode, count, P, X, D, cur)
      /\ term[insert] = "none" \/ Tolerates(Now)
  BY <1>1, <1>2 DEF Known, Linked
<1> PICK w : w = Now
  OBVIOUS
<1> PICK g : g = F[2]
  OBVIOUS
<1> PICK n : n = count
  OBVIOUS
<1> PICK b : b = w.bbs[1]
  OBVIOUS
<1> PICK y : y = F[1].yes
  OBVIOUS
<1> PICK z : z = F[1].no
  OBVIOUS
<1> PICK u : u = Last(trueStack)
  OBVIOUS
<1>4. /\ F[1].mode = "test" /\ g.mode = "test" /\ SameLoop(F[1], g)
      /\ IsList(w.n) /\ Len(w.n) # 0
      /\ F[1].ts = g.ts /\ F[1].fs = Append(g.fs, b) /\ y = g.yes
      /\ LandAt(z, w.n, g.yes, g.no) /\ Promise(P, X, b, z) /\ IfTrue(g, X) /\ IfFalse(g, X)
  BY <1>3 DEF LOrRightLink
<1>5. /\ falseStack' = Front(falseStack) /\ Terminate(insert, "br", <<u, b>>) /\ insert' = b
      /\ Then(<<Visit("land", w.n)>>) /\ UNCHANGED <<count, trueStack, loopStack, runVars>>
  BY DEF LOrRight
<1>6. b \in Open(n)
  <2>1. 1 \in Turns("lorRight")
    BY DEF Turns
  <2>2. b \in Future(Now)
    BY <1>1, <2>1 DEF Future
  <2> QED  BY <1>2, <2>2 DEF Known
<1>7. term[insert] = "none" /\ Built("test", n, P, X, D, cur)
  BY <1>1, <1>3, <1>4 DEF Tolerates
<1>8. Len(code[insert]) # 0 /\ Asks(cur, code[insert][Len(code[insert])], y, z)
  BY <1>3, <1>4, <1>7 DEF Ready
<1>9. Leads(X, <<u, 1>>, y) /\ Leads(X, <<b, 1>>, z) /\ z = P[insert'] /\ insert' \in Open(n)
  <2>1. trueStack = g.ts
    BY <1>3, <1>4 DEF Stacks
  <2> QED  BY <1>4, <1>5, <1>6, <2>1 DEF Promise, IfTrue
<1>10. Built("run", n, P, X, D, z)'
  BY <1>5, <1>7, <1>8, <1>9, BuiltBranches
<1>11. PICK f : f = Frame(g, z)
  OBVIOUS
<1>12. f.mode = "run" /\ f.k = z /\ SameFrame(f, g)
  BY ONLY <1>11, FrameParts
<1>13. Link(Visit("land", w.n), f, g, P, X)
  BY ONLY <1>4, <1>11, ChainOf
<1>14. Replaced(F, P, X, f)
  BY <1>5, <1>13 DEF Replaced
<1>15. Stacks(f)'
  <2>1. IsList(g.fs)
    BY <1>2 DEF Known, InLoop
  <2>2. Front(Append(g.fs, b)) = g.fs
    BY <2>1, LastAppended
  <2>3. trueStack = g.ts /\ falseStack = Append(g.fs, b) /\ loopStack = g.ls
    BY <1>3, <1>4 DEF Stacks, SameLoop
  <2>4. trueStack' = g.ts /\ falseStack' = g.fs /\ loopStack' = g.ls
    BY <1>5, <2>2, <2>3
  <2> QED  BY <1>12, <2>4 DEF Stacks, SameFrame, SameLoop
<1>16. Ready(f, z)' /\ Built(f.mode, n, P, X, D, z)'
  BY <1>10, <1>12 DEF Ready
<1>17. n = count' /\ Keeps(P, P) /\ Grows(X, X) /\ UNCHANGED runVars
  BY <1>5, SameParts
<1> QED  BY <1>2, <1>14, <1>15, <1>16, <1>17, SimTurn

(* A conjunction of several is taken apart; one operand is written, and    *)
(* the visit behind branches on it.                                        *)
LEMMA SimLAnd ==
    ASSUME BlockInv, NEW F, NEW P, NEW X, NEW D, NEW cur, Sim(F, P, X, D, cur), VisitLAnd
    PROVE  Simulated'
<1>1. status = "lower" /\ work # << >> /\ Now.op = "land"
  BY DEF VisitLAnd, At
<1>2. Known(F, P, X, D, cur) /\ Conjunction(F, P, X, D, cur)
  BY <1>1, SimKnown, Conjunctive
<1> PICK x : x = Now.n
  OBVIOUS
<1> PICK g : g = F[2]
  OBVIOUS
<1> PICK n : n = count
  OBVIOUS
<1>3. /\ g.mode = "test" /\ IsList(x) /\ Len(x) # 0 /\ LandAt(cur, x, g.yes, g.no)
      /\ IfFalse(g, X) /\ term[insert] = "none"
      /\ Built("run", n, P, X, D, cur) /\ Stacks(g)
  BY <1>2 DEF Conjunction
<1>4. CASE Len(x) = 1
  <2> PICK a : a = x[1]
    OBVIOUS
  <2>1. /\ code' = [code EXCEPT ![insert] = Append(@, a)] /\ UNCHANGED <<term, succs, insert>>
        /\ Then(<< >>) /\ UNCHANGED <<count, trueStack, falseStack, loopStack, runVars>>
    BY <1>4 DEF VisitLAnd, Emit, stackVars
  <2>2. Asks(cur, a, g.yes, g.no)
    BY <1>3, <1>4, OneConjunct
  <2>3. /\ Built("test", n, P, X, D, cur)'
        /\ Len(code'[insert]) # 0 /\ code'[insert][Len(code'[insert])] = a
    BY <1>3, <2>1, BuiltTries
  <2>4. Replaced(F, P, X, g)
    BY <2>1 DEF Replaced
  <2>5. Stacks(g)'
    BY <1>3, <2>1 DEF Stacks
  <2>6. insert' = insert
    BY <2>1
  <2>7. Ready(g, cur)'
    BY ONLY <1>3, <2>2, <2>3, <2>6 DEF Ready
  <2>8. Built(g.mode, n, P, X, D, cur)'
    BY <1>3, <2>3
  <2>9. n = count' /\ Keeps(P, P) /\ Grows(X, X) /\ UNCHANGED runVars
    BY <2>1, SameParts
  <2> QED  BY <1>2, <2>4, <2>5, <2>7, <2>8, <2>9, SimTurn
<1>5. CASE Len(x) # 1
  <2> PICK b : b = n + 1
    OBVIOUS
  <2>1. PICK l : l = <<Last(x)>>
    OBVIOUS
  <2>2. PICK w : w = Resume("landRight", l, <<b>>)
    OBVIOUS
  <2>3. PICK fr : fr = Front(x)
    OBVIOUS
  <2>4. /\ n < MaxBlocks /\ count' = b /\ Then(<<Visit("land", fr), w>>)
        /\ UNCHANGED <<code, term, succs>>
        /\ UNCHANGED <<insert, trueStack, falseStack, loopStack, runVars>>
    BY <1>5, <2>1, <2>2, <2>3 DEF VisitLAnd, cfgVars, stackVars
  <2>5. /\ \E kb : LandAt(cur, fr, kb, g.no) /\ LandAt(kb, l, g.yes, g.no)
        /\ IsList(fr) /\ Len(fr) = Len(x) - 1
    BY ONLY <1>3, <2>1, <2>3, LastConjunct
  <2>6. PICK kb : LandAt(cur, fr, kb, g.no) /\ LandAt(kb, l, g.yes, g.no)
    BY ONLY <2>5
  <2>7. IsList(l) /\ Len(l) # 0 /\ IsList(fr) /\ Len(fr) # 0
    <3>1. Len(x) \in Nat
      BY <1>3, ListLen
    <3>2. Len(fr) # 0
      BY <1>5, <2>5, <3>1
    <3>3. IsList(l) /\ Len(l) = 1
      BY ONLY <2>1, OneList
    <3> QED  BY <2>5, <3>2, <3>3
  <2>8. PICK P2, X2, D2 : /\ Keeps(P, P2) /\ Grows(X, X2) /\ Promise(P2, X2, n + 1, kb)
                          /\ Built("run", n + 1, P2, X2, D2, cur)
    BY ONLY <1>3, <2>4, BuiltOpens
  <2>9. Promise(P2, X2, b, kb) /\ Built("run", b, P2, X2, D2, cur)
    BY <2>8
  <2>10. PICK h : h = Asking(g.ts, g.fs, g.ls, g.w, g.r, kb, g.no)
    OBVIOUS
  <2>11. h.mode = "test" /\ SameFrame(h, g) /\ h.fs = g.fs /\ h.yes = kb /\ h.no = g.no
    BY ONLY <2>10 DEF Asking, SameFrame, SameLoop
  <2>12. IfFalse(g, X2)
    BY ONLY <1>3, <2>8, IfOn
  <2>13. IfFalse(h, X2)
    BY ONLY <2>11, <2>12 DEF IfFalse
  <2>14. Link(w, h, g, P2, X2)
    <3>1. w.op = "landRight" /\ w.n = l /\ w.bbs[1] = b
      BY ONLY <2>2 DEF Resume
    <3>2. LAndRightLink(w, h, g, P2, X2)
      BY ONLY <1>3, <2>6, <2>7, <2>9, <2>11, <2>12, <3>1 DEF LAndRightLink
    <3> QED  BY ONLY <3>2 DEF Link
  <2>15. PICK f : f = Frame(h, cur)
    OBVIOUS
  <2>16. f.mode = "run" /\ f.k = cur /\ SameFrame(f, h)
    BY ONLY <2>15, FrameParts
  <2>17. Link(Visit("land", fr), f, h, P2, X2)
    <3>1. LandAt(cur, fr, h.yes, h.no)
      BY <2>6, <2>11
    <3> QED  BY ONLY <2>7, <2>11, <2>13, <2>15, <3>1, ChainOf
  <2>18. Replaced(F, P2, X2, f)
    BY <2>4, <2>14, <2>17 DEF Replaced
  <2>19. Stacks(f)'
    <3>1. trueStack = g.ts /\ falseStack = g.fs /\ loopStack = g.ls
      BY <1>3 DEF Stacks
    <3>2. f.ts = g.ts /\ f.fs = g.fs /\ f.ls = g.ls
      BY ONLY <2>11, <2>16 DEF SameFrame, SameLoop
    <3> QED  BY ONLY <2>4, <3>1, <3>2 DEF Stacks
  <2>20. Ready(f, cur)'
    BY <2>16 DEF Ready
  <2>21. Built(f.mode, b, P2, X2, D2, cur)'
    <3>1. Built("run", b, P2, X2, D2, cur)'
      BY <2>4, <2>9, BuiltMoves
    <3> QED  BY <2>16, <3>1
  <2>22. b = count' /\ UNCHANGED runVars
    BY <2>4
  <2> QED  BY <1>2, <2>8, <2>18, <2>19, <2>20, <2>21, <2>22, SimTurn
<1> QED  BY <1>4, <1>5

(* The left side has come out true: the right side decides.                *)
LEMMA SimLAndRight ==
    ASSUME BlockInv, NEW F, NEW P, NEW X, NEW D, NEW cur, Sim(F, P, X, D, cur), LAndRight
    PROVE  Simulated'
<1>1. status = "lower" /\ work # << >> /\ Now.op = "landRight"
  BY DEF LAndRight, At
<1>2. Known(F, P, X, D, cur)
  BY <1>1, SimKnown
<1>3. /\ LAndRightLink(Now, F[1], F[2], P, X) /\ Ready(F[1], cur) /\ Stacks(F[1])
      /\ Built(F[1].mode, count, P, X, D, cur)
      /\ term[insert] = "none" \/ Tolerates(Now)
  BY <1>1, <1>2 DEF Known, Linked
<1> PICK w : w = Now
  OBVIOUS
<1> PICK g : g = F[2]
  OBVIOUS
<1> PICK n : n = count
  OBVIOUS
<1> PICK b : b = w.bbs[1]
  OBVIOUS
<1> PICK y : y = F[1].yes
  OBVIOUS
<1> PICK z : z = F[1].no
  OBVIOUS
<1> PICK u : u = Last(falseStack)
  OBVIOUS
<1>4. /\ F[1].mode = "test" /\ g.mode = "test" /\ SameFrame(F[1], g)
      /\ IsList(w.n) /\ Len(w.n) # 0 /\ z = g.no
      /\ LandAt(y, w.n, g.yes, g.no) /\ Promise(P, X, b, y) /\ IfFalse(g, X)
  BY <1>3 DEF LAndRightLink
<1>5. /\ Terminate(insert, "br", <<b, u>>) /\ insert' = b /\ Then(<<Visit("land", w.n)>>)
      /\ UNCHANGED <<count, trueStack, falseStack, loopStack, runVars>>
  BY DEF LAndRight, stackVars
<1>6. b \in Open(n)
  <2>1. 1 \in Turns("landRight")
    BY DEF Turns
  <2>2. b \in Future(Now)
    BY <1>1, <2>1 DEF Future
  <2> QED  BY <1>2, <2>2 DEF Known
<1>7. term[insert] = "none" /\ Built("test", n, P, X, D, cur)
  BY <1>1, <1>3, <1>4 DEF Tolerates
<1>8. Len(code[insert]) # 0 /\ Asks(cur, code[insert][Len(code[insert])], y, z)
  BY <1>3, <1>4, <1>7 DEF Ready
<1>9. trueStack = g.ts /\ falseStack = g.fs /\ loopStack = g.ls
  BY <1>3, <1>4 DEF Stacks, SameFrame, SameLoop
<1>10. Leads(X, <<b, 1>>, y) /\ Leads(X, <<u, 1>>, z) /\ y = P[insert'] /\ insert' \in Open(n)
  BY <1>4, <1>5, <1>6, <1>9 DEF Promise, IfFalse
<1>11. Built("run", n, P, X, D, y)'
  BY <1>5, <1>7, <1>8, <1>10, BuiltBranches
<1>12. PICK f : f = Frame(g, y)
  OBVIOUS
<1>13. f.mode = "run" /\ f.k = y /\ SameFrame(f, g)
  BY ONLY <1>12, FrameParts
<1>14. Link(Visit("land", w.n), f, g, P, X)
  BY ONLY <1>4, <1>12, ChainOf
<1>15. Replaced(F, P, X, f)
  BY <1>5, <1>14 DEF Replaced
<1>16. Stacks(f)'
  BY <1>5, <1>9, <1>13 DEF Stacks, SameFrame, SameLoop
<1>17. Ready(f, y)' /\ Built(f.mode, n, P, X, D, y)'
  BY <1>11, <1>13 DEF Ready
<1>18. n = count' /\ Keeps(P, P) /\ Grows(X, X) /\ UNCHANGED runVars
  BY <1>5, SameParts
<1> QED  BY <1>2, <1>15, <1>16, <1>17, <1>18, SimTurn

-----------------------------------------------------------------------------
(* The whole run: lowering keeps the simulation, and what it leaves of it  *)
(* is kept by the execution.                                               *)
RunSim ==
    \E X : /\ Leads(X, <<at, pos>>, cont)
           /\ \A l \in Loc : \A k \in X[l] : Done(code, term, succs, X, l, k)

SimInv == (status = "lower" => Simulated) /\ (status = "run" => RunSim)

(* The body is the only thing to do, in the entry block.                   *)
LEMMA SimInit == Init => SimInv
<1> SUFFICES ASSUME Init PROVE Simulated
  BY DEF Init, SimInv
<1>1. PICK body \in Bodies :
        /\ work = <<Visit("stmt", [k |-> "block", items |-> body])>> /\ cont = body
        /\ count = 1 /\ insert = 1 /\ at = 1 /\ pos = 1
        /\ code = [b \in BB |-> << >>] /\ term = [b \in BB |-> "none"]
        /\ succs = [b \in BB |-> << >>]
        /\ trueStack = << >> /\ falseStack = << >> /\ loopStack = << >>
  BY DEF Init
<1>2. body \in Seq(Stmts[FALSE]) /\ IsList(body)
  BY SyntaxAssumption DEF IsList
<1>3. PICK e : e = << >>
  OBVIOUS
<1>4. IsList(e) /\ Len(e) = 0 /\ body \o e = body
  BY <1>2, <1>3, CatNone
<1>5. PICK g : g = [mode |-> "run", k |-> e, ts |-> e, fs |-> e, ls |-> e, w |-> 0, r |-> 0]
  OBVIOUS
<1>6. g.mode = "run" /\ g.k = e /\ g.ts = e /\ g.fs = e /\ g.ls = e /\ ~Inside(g) /\ Inside(g) = FALSE
  BY <1>3, <1>5 DEF Inside
<1>7. PICK a : a = Visit("stmt", [k |-> "block", items |-> body])
  OBVIOUS
<1>8. a.op = "stmt" /\ a.n.k = "block" /\ a.n.items = body
  BY <1>7 DEF Visit
<1>9. PICK f : f = Frame(g, body)
  OBVIOUS
<1>10. f.mode = "run" /\ f.k = body /\ SameFrame(f, g)
  BY ONLY <1>9, FrameParts
<1>11. PICK X0 : X0 = [l \in Loc |-> {}]
  OBVIOUS
<1>12. PICK X : X = Add(X0, {<<1, 1>>}, body)
  OBVIOUS
<1>13. PICK P : P = [b \in 1 .. 1 |-> body]
  OBVIOUS
<1>14. Framed(<<a>>, <<f>> \o <<g>>, P, X) /\ (<<f>> \o <<g>>)[1] = f
  <2>1. PICK G : G = <<g>>
    OBVIOUS
  <2>2. IsList(G) /\ Len(G) = 1 /\ G[1] = g
    BY <2>1, OneList
  <2>3. InLoop(g, P, X)
    BY <1>4, <1>6 DEF InLoop
  <2>4. Framed(e, G, P, X)
    <3>1. \A i \in 1 .. Len(e) + 1 : i = 1
      BY <1>4
    <3>2. \A i \in 1 .. Len(e) : FALSE
      BY <1>4
    <3> QED  BY <1>3, <1>4, <1>6, <2>2, <2>3, <3>1, <3>2 DEF Framed
  <2>5. StmtLink(a, f, g)
    <3>1. IsStmt(a.n, Inside(g))
      BY <1>2, <1>6, <1>8 DEF IsStmt
    <3>2. Around(g)
      BY <1>4, <1>6 DEF Around
    <3> QED  BY <1>4, <1>6, <1>8, <1>10, <3>1, <3>2 DEF StmtLink
  <2>6. Link(a, f, G[1], P, X)
    BY <2>2, <2>5 DEF Link
  <2>7. Framed(<<a>> \o e, <<f>> \o G, P, X)
    BY ONLY <2>4, <2>6, Push
  <2>8. <<a>> \o e = <<a>>
    BY <1>3, OneList, CatNone
  <2> QED  BY <2>1, <2>2, <2>7, <2>8, FirstOf
<1>15. 1 \in BB /\ \A b \in BB : code[b] = e /\ term[b] = "none" /\ succs[b] = e
  BY <1>1, <1>3, BlocksAssumption DEF BB
<1>16. Open(1) = {1} /\ Len(code[1]) = 0
  BY <1>4, <1>15 DEF Open
<1>17. PICK q : q = With(P, insert, body)
  OBVIOUS
<1>18. PICK p : p = Spots("run")
  OBVIOUS
<1>19. PICK D0 : D0 = [b \in BB |-> {}]
  OBVIOUS
<1>20. Graph(code, term, succs, {}, p, q, X0, D0)
  BY <1>11 DEF Graph
<1>21. PICK D : D = With(D0, 1, {<<1, 1>>})
  OBVIOUS
<1>22. Graph(code, term, succs, {} \cup {1}, With(p, 1, 1), With(q, 1, body), X, D)
  BY <1>3, <1>12, <1>15, <1>20, <1>21, Opens
<1>23. q[1] = body /\ p[1] = 1 /\ With(p, 1, 1)[1] = 1 /\ With(q, 1, body)[1] = body
  BY <1>1, <1>15, <1>16, <1>17, <1>18 DEF With, Spots
<1>24. Graph(code, term, succs, Open(1), p, q, X, D)
  <2>1. {} \cup {1} = Open(1)
    BY <1>16
  <2>2. \A o \in Open(1) : p[o] = With(p, 1, 1)[o] /\ q[o] = With(q, 1, body)[o]
    BY <1>16, <1>23
  <2>3. PICK p2, q2 : p2 = With(p, 1, 1) /\ q2 = With(q, 1, body)
    OBVIOUS
  <2> QED  BY <1>22, <2>1, <2>2, <2>3, SameGraph
<1>25. Typed
  BY <1>1, <1>3, <1>4, <1>15 DEF Typed
<1>26. Built("run", 1, P, X, D, body)
  <2>1. DOMAIN P = 1 .. 1
    BY <1>13
  <2>2. 1 \in 1 .. MaxBlocks
    BY BlocksAssumption
  <2> QED  BY <1>1, <1>15, <1>17, <1>18, <1>24, <1>25, <2>1, <2>2 DEF Built
<1>27. Leads(X, <<1, 1>>, body)
  <2>1. <<1, 1>> \in Loc
    BY <1>15 DEF Loc
  <2> QED  BY <1>11, <1>12, <2>1 DEF Leads, Add
<1>28. Stacks(f)
  BY <1>1, <1>3, <1>6, <1>10 DEF Stacks, SameFrame, SameLoop
<1>29. Ready(f, body)
  BY <1>10 DEF Ready
<1>30. PICK F : F = <<f>> \o <<g>>
  OBVIOUS
<1>31. Framed(work, F, P, X) /\ F[1] = f
  BY <1>1, <1>7, <1>14, <1>30
<1>32. Sim(F, P, X, D, body)
  BY <1>1, <1>10, <1>26, <1>27, <1>28, <1>29, <1>31 DEF Sim
<1> QED  BY <1>32 DEF Simulated

(* The function is finished: all its blocks are closed, so nothing is      *)
(* still to come in the graph.                                             *)
LEMMA SimFinish ==
    ASSUME BlockInv, NEW F, NEW P, NEW X, NEW D, NEW cur, Sim(F, P, X, D, cur), FinishFunction
    PROVE  RunSim'
<1>1. /\ status = "lower" /\ work = << >> /\ status' = "run"
      /\ UNCHANGED <<count, insert, at, pos, cont>>
  BY DEF FinishFunction, runVars
<1>2. /\ Framed(work, F, P, X) /\ Ready(F[1], cur) /\ Built(F[1].mode, count, P, X, D, cur)
      /\ at = 1 /\ pos = 1 /\ Leads(X, <<1, 1>>, cont)
  BY DEF Sim
<1> PICK n : n = count
  OBVIOUS
<1> PICK e : e = << >>
  OBVIOUS
<1>3. F[1].mode = "run" /\ F[1].k = e
  <2>1. Len(work) + 1 = 1
    BY <1>1
  <2> QED  BY <1>2, <2>1 DEF Framed
<1>4. \E k : Built("run", n, P, X, D, k)'
  <2>1. CASE term[insert] = "none"
    <3>1. cur = e
      BY <1>2, <1>3, <2>1 DEF Ready
    <3>2. Terminate(insert, "ret", << >>)
      BY <2>1 DEF FinishFunction, Terminated
    <3>3. Built("run", n, P, X, D, << >>)
      BY <1>2, <1>3, <3>1
    <3>4. Built("run", n, P, X, D, << >>)'
      BY <1>1, <2>1, <3>2, <3>3, BuiltLeaves
    <3> QED  BY <3>4
  <2>2. CASE term[insert] # "none"
    <3>1. UNCHANGED <<code, term, succs>>
      BY <2>2 DEF FinishFunction, Terminated, cfgVars
    <3>2. Built("run", n, P, X, D, cur)
      BY <1>2, <1>3
    <3>3. Built("run", n, P, X, D, cur)'
      BY <1>1, <3>1, <3>2, BuiltMoves
    <3> QED  BY <3>3
  <2> QED  BY <2>1, <2>2
<1>5. PICK k : Built("run", n, P, X, D, k)'
  BY <1>4
<1>6. BlockInv'
  BY KeepsFinish
<1>7. Open(n)' = {}
  <2>1. AllBlocksTerminated'
    BY <1>6 DEF BlockInv
  <2> QED  BY <1>1, <2>1 DEF AllBlocksTerminated, Open, Terminated
<1>8. \A l \in Loc : \A j \in X[l] : Done(code', term', succs', X, l, j)
  <2> PICK p : p = Spots("run")'
    OBVIOUS
  <2> PICK q : q = With(P, insert', k)
    OBVIOUS
  <2>1. Graph(code', term', succs', {}, p, q, X, D)
    BY <1>5, <1>7 DEF Built
  <2> QED  BY <2>1 DEF Graph
<1>9. Leads(X, <<at', pos'>>, cont')
  BY <1>1, <1>2
<1> QED  BY <1>8, <1>9 DEF RunSim

(* What the simulation says of the place the function has come to.         *)
LEMMA RunPlace ==
    ASSUME NEW X, Leads(X, <<at, pos>>, cont), status = "run",
           \A l \in Loc : \A k \in X[l] : Done(code, term, succs, X, l, k)
    PROVE  /\ ~Unfolded => Leads(X, <<at, pos>>, Unfold(cont))
           /\ Unfolded /\ AtJump => Leads(X, <<succs[at][1], 1>>, cont)
           /\ Unfolded /\ ~AtJump => InStep
           /\ Unfolded /\ ~AtJump /\ cont # << >> => Follows(succs, X, <<at, pos>>, cont)
<1> PICK l : l = <<at, pos>>
  OBVIOUS
<1>1. l \in Loc /\ l[1] = at /\ l[2] = pos /\ Done(code, term, succs, X, l, cont) /\ Leads(X, l, cont)
  BY DEF Leads
<1>2. Ripe(cont) <=> Unfolded
  BY DEF Ripe, Unfolded
<1>3. JumpAt(code, term, succs, l) <=> AtJump
  BY <1>1 DEF JumpAt, AtJump
<1>4. Fits(code, term, succs, l, cont) <=> InStep
  BY <1>1 DEF Fits, InStep
<1>5. CASE ~Unfolded
  <2>1. Unfold(cont) \in X[l]
    BY <1>1, <1>2, <1>5 DEF Done
  <2> QED  BY <1>1, <1>5, <2>1 DEF Leads
<1>6. CASE Unfolded /\ AtJump
  <2>1. Leads(X, <<succs[l[1]][1], 1>>, cont)
    BY <1>1, <1>2, <1>3, <1>6 DEF Done
  <2> QED  BY <1>1, <1>6, <2>1
<1>7. CASE Unfolded /\ ~AtJump
  <2>1. Fits(code, term, succs, l, cont) /\ (cont # << >> => Follows(succs, X, l, cont))
    BY <1>1, <1>2, <1>3, <1>7 DEF Done
  <2> QED  BY <1>4, <1>7, <2>1
<1> QED  BY <1>5, <1>6, <1>7

(* A step of the execution comes to a place of the simulation again.       *)
LEMMA SimRun ==
    ASSUME RunSim, RunUnfold \/ RunJump \/ RunAtom
    PROVE  RunSim'
<1>1. PICK X : /\ Leads(X, <<at, pos>>, cont)
               /\ \A l \in Loc : \A k \in X[l] : Done(code, term, succs, X, l, k)
  BY DEF RunSim
<1>2. status = "run" /\ UNCHANGED <<code, term, succs>>
  BY DEF RunUnfold, RunJump, RunAtom, cfgVars
<1>3. /\ ~Unfolded => Leads(X, <<at, pos>>, Unfold(cont))
      /\ Unfolded /\ AtJump => Leads(X, <<succs[at][1], 1>>, cont)
      /\ Unfolded /\ ~AtJump /\ cont # << >> => Follows(succs, X, <<at, pos>>, cont)
  BY <1>1, <1>2, RunPlace
<1>4. Leads(X, <<at', pos'>>, cont')
  <2>1. CASE RunUnfold
    BY <1>3, <2>1 DEF RunUnfold
  <2>2. CASE RunJump
    BY <1>3, <2>2 DEF RunJump
  <2>3. CASE RunAtom
    <3>1. Follows(succs, X, <<at, pos>>, cont) /\ cont # << >>
      BY <1>3, <2>3 DEF RunAtom
    <3>2. CASE Head(cont).k = "act"
      <4>1. cont' = Tail(cont) /\ pos' = pos + 1 /\ at' = at
        BY <2>3, <3>2 DEF RunAtom
      <4> QED  BY <3>1, <3>2, <4>1 DEF Follows
    <3>3. CASE Head(cont).k = "ret"
      <4>1. cont' = << >> /\ pos' = pos + 1 /\ at' = at
        BY <2>3, <3>3 DEF RunAtom
      <4> QED  BY <3>1, <3>3, <4>1 DEF Follows
    <3>4. CASE Head(cont).k = "test"
      <4>1. PICK v \in BOOLEAN :
              /\ cont' = Decide(Head(cont), v) \o Tail(cont)
              /\ at' = succs[at][IF v THEN 1 ELSE 2] /\ pos' = 1
        BY <2>3, <3>4 DEF RunAtom
      <4>2. Leads(X, <<succs[at][IF v THEN 1 ELSE 2], 1>>, After(cont, v))
        BY <3>1, <3>4 DEF Follows
      <4> QED  BY <4>1, <4>2 DEF After
    <3> QED  BY <2>3, <3>2, <3>3, <3>4 DEF RunAtom
  <2> QED  BY <2>1, <2>2, <2>3
<1>5. \A l \in Loc : \A k \in X[l] : Done(code', term', succs', X, l, k)
  BY <1>1, <1>2
<1> QED  BY <1>4, <1>5 DEF RunSim

(* Every visit keeps the simulation.                                       *)
LEMMA SimLower ==
    ASSUME BlockInv, Simulated, status = "lower", Lower, ~FinishFunction
    PROVE  Simulated' /\ status' = "lower"
<1>1. PICK F, P, X, D, cur : Sim(F, P, X, D, cur)
  BY DEF Simulated
<1>2. Simulated'
  <2>1. CASE VisitAct \/ VisitReturn \/ VisitBreak \/ VisitContinue
    BY <1>1, <2>1, SimAct, SimReturn, SimBreak, SimContinue
  <2>2. CASE VisitBlock \/ NextItem
    BY <1>1, <2>2, SimBlock, SimNextItem
  <2>3. CASE VisitIf \/ IfBranch \/ IfElse \/ IfMerge
    BY <1>1, <2>3, SimIf, SimIfBranch, SimIfElse, SimIfMerge
  <2>4. CASE VisitWhile \/ WhileBranch \/ WhileEnd
    BY <1>1, <2>4, SimWhile, SimWhileBranch, SimWhileEnd
  <2>5. CASE VisitLOr \/ LOrRight \/ VisitLAnd \/ LAndRight
    BY <1>1, <2>5, SimLOr, SimLOrRight, SimLAnd, SimLAndRight
  <2> QED  BY <2>1, <2>2, <2>3, <2>4, <2>5 DEF Lower
<1>3. status' = status
  BY DEF Lower, VisitAct, VisitReturn, VisitBreak, VisitContinue, VisitBlock, NextItem,
         VisitIf, IfBranch, IfElse, IfMerge, VisitWhile, WhileBranch, WhileEnd,
         VisitLOr, LOrRight, VisitLAnd, LAndRight
<1> QED  BY <1>2, <1>3

(* Nothing changes.                                                        *)
LEMMA SimStays ==
    ASSUME Simulated, UNCHANGED vars
    PROVE  Simulated'
<1>1. PICK F, P, X, D, cur : Sim(F, P, X, D, cur)
  BY DEF Simulated
<1>2. /\ UNCHANGED <<work, count, insert, code, term, succs>>
      /\ UNCHANGED <<trueStack, falseStack, loopStack, at, pos, cont>>
  BY DEF vars, cfgVars, stackVars, runVars
<1>3. PICK n : n = count
  OBVIOUS
<1>4. PICK m : m = F[1].mode
  OBVIOUS
<1>5. Built(m, n, P, X, D, cur)
  BY <1>1, <1>3, <1>4 DEF Sim
<1>6. Built(m, n, P, X, D, cur)'
  BY <1>2, <1>5, BuiltMoves
<1>7. Stacks(F[1])' /\ Ready(F[1], cur)' /\ Framed(work', F, P, X)
  BY <1>1, <1>2 DEF Sim, Stacks, Ready
<1>8. Sim(F, P, X, D, cur)'
  BY <1>1, <1>2, <1>3, <1>4, <1>6, <1>7 DEF Sim
<1> QED  BY <1>8 DEF Simulated

(* Every step keeps the invariant.                                         *)
LEMMA SimInvStep == BlockInv /\ SimInv /\ [Next]_vars => SimInv'
<1> SUFFICES ASSUME BlockInv, SimInv, [Next]_vars PROVE SimInv'
  OBVIOUS
<1>1. CASE Lower /\ ~FinishFunction
  <2>1. status = "lower"
    BY <1>1 DEF Lower, VisitAct, VisitReturn, VisitBreak, VisitContinue, VisitBlock, NextItem,
         VisitIf, IfBranch, IfElse, IfMerge, VisitWhile, WhileBranch, WhileEnd,
         VisitLOr, LOrRight, VisitLAnd, LAndRight, AtStmt, At
  <2>2. Simulated
    BY <2>1 DEF SimInv
  <2>3. Simulated' /\ status' = "lower"
    BY <1>1, <2>1, <2>2, SimLower
  <2> QED  BY <2>3 DEF SimInv
<1>2. CASE FinishFunction
  <2>1. status = "lower" /\ status' = "run"
    BY <1>2 DEF FinishFunction
  <2>2. PICK F, P, X, D, cur : Sim(F, P, X, D, cur)
    BY <2>1 DEF SimInv, Simulated
  <2>3. RunSim'
    BY <1>2, <2>2, SimFinish
  <2> QED  BY <2>1, <2>3 DEF SimInv
<1>3. CASE RunUnfold \/ RunJump \/ RunAtom
  <2>1. status = "run" /\ status' = "run"
    BY <1>3 DEF RunUnfold, RunJump, RunAtom
  <2>2. RunSim'
    BY <1>3, <2>1, SimRun DEF SimInv
  <2> QED  BY <2>1, <2>2 DEF SimInv
<1>4. CASE RunExit
  <2>1. status' = "exit"
    BY <1>4 DEF RunExit
  <2> QED  BY <2>1 DEF SimInv
<1>5. CASE UNCHANGED vars
  <2>1. Simulated => Simulated'
    BY <1>5, SimStays
  <2>2. RunSim => RunSim'
    BY <1>5 DEF RunSim, vars, cfgVars, runVars
  <2>3. status' = status
    BY <1>5 DEF vars
  <2> QED  BY <2>1, <2>2, <2>3 DEF SimInv
<1> QED  BY <1>1, <1>2, <1>3, <1>4, <1>5 DEF Next, Run

(* The invariant of the simulation holds for every function body.          *)
THEOREM LoweringSimulates == Spec => []SimInv
BY LoweringInvariant, SimInit, SimInvStep, PTL DEF Spec

(* The blocks do what the statements say, along every path of every        *)
(* function body.                                                          *)
THEOREM BlocksDoWhatTheStatementsSay == Spec => []SameBehaviour
<1>1. SimInv => SameBehaviour
  <2> SUFFICES ASSUME SimInv, status = "run", Unfolded, ~AtJump PROVE InStep
    BY DEF SameBehaviour
  <2>1. PICK X : /\ Leads(X, <<at, pos>>, cont)
                 /\ \A l \in Loc : \A k \in X[l] : Done(code, term, succs, X, l, k)
    BY DEF SimInv, RunSim
  <2> QED  BY <2>1, RunPlace
<1> QED  BY <1>1, LoweringSimulates, PTL
=============================================================================
