--------------------------- MODULE PipelineProofs ---------------------------
(***************************************************************************)
(* The functions the dominator analysis gives up on all hold an if with    *)
(* two branches that jump, for every function body.  The first part solves *)
(* the recursions that say which statements jump, the second shows that    *)
(* lowering any other body leaves no terminated block the entry does not   *)
(* reach, the third hands the blocks to the analysis.                      *)
(***************************************************************************)
EXTENDS Pipeline, LoweringProofs

-----------------------------------------------------------------------------
(* The parts of a statement are statements.                                *)
LEMMA PartsOf ==
    ASSUME NEW x \in Trees
    PROVE  /\ x.k = "block" => \A i \in DOMAIN x.items : x.items[i] \in Trees
           /\ x.k = "block" => x.items \in Seq(Trees)
           /\ x.k = "if" => x.s \in Trees /\ x.e \in Trees
           /\ x.k = "while" => x.s \in Trees
<1>1. CASE x = None
  BY <1>1 DEF None
<1>2. CASE x # None
  <2>1. PICK inLoop \in BOOLEAN : x \in Stmts[inLoop]
    BY <1>2 DEF Trees
  <2>2. IsStmt(x, inLoop)
    BY <2>1, SyntaxAssumption
  <2>3. Stmts[inLoop] \subseteq Trees /\ Stmts[TRUE] \subseteq Trees /\ None \in Trees
    BY <2>1 DEF Trees
  <2>4. CASE x.k = "block"
    <3>1. x.items \in Seq(Stmts[inLoop])
      BY <2>2, <2>4 DEF IsStmt
    <3>2. \A i \in DOMAIN x.items : x.items[i] \in Stmts[inLoop]
      BY <3>1, ElementOfSeq
    <3>3. x.items \in Seq(Trees)
      BY <2>3, <3>1, SeqDef
    <3> QED  BY <2>3, <2>4, <3>2, <3>3
  <2>5. CASE x.k = "if"
    BY <2>2, <2>3, <2>5 DEF IsStmt
  <2>6. CASE x.k = "while"
    BY <2>2, <2>3, <2>6 DEF IsStmt
  <2> QED  BY <2>4, <2>5, <2>6
<1> QED  BY <1>1, <1>2

(* What Jumps says of a statement given what it says of its parts.         *)
JumpsBy(s, f) ==
    \/ s.k \in {"ret", "brk", "cnt"}
    \/ s.k = "block" /\ \E i \in DOMAIN s.items : f[s.items[i]]

DeadBy(s, f) ==
    \/ s.k = "if" /\ ((Jumps[s.s] /\ Jumps[s.e]) \/ f[s.s] \/ f[s.e])
    \/ s.k = "while" /\ f[s.s]
    \/ s.k = "block" /\ \E i \in DOMAIN s.items : f[s.items[i]]

(* A function that says what the rule says of L is the one for L.          *)
LEMMA JumpsTruth ==
    ASSUME NEW s, NEW f, NEW L, JumpsBy(s, f) <=> s \in L
    PROVE  JumpsBy(s, f) = (s \in L)
<1>1. CASE s \in L
  <2>1. (s \in L) = TRUE
    BY <1>1
  <2>2. JumpsBy(s, f) = TRUE
    BY <1>1 DEF JumpsBy
  <2> QED  BY <2>1, <2>2
<1>2. CASE s \notin L
  <2>1. (s \in L) = FALSE
    BY <1>2
  <2>2. JumpsBy(s, f) = FALSE
    BY <1>2 DEF JumpsBy
  <2> QED  BY <2>1, <2>2
<1> QED  BY <1>1, <1>2

(* Both recursions have a solution: the least set closed under the rule.   *)
LEMMA JumpsExists == \E f : f = [s \in Trees |-> JumpsBy(s, f)]
<1> DEFINE Rule(T) == {s \in Trees : \/ s.k \in {"ret", "brk", "cnt"}
                                     \/ s.k = "block" /\ \E i \in DOMAIN s.items : s.items[i] \in T}
           L == {s \in Trees : \A T \in SUBSET Trees : Rule(T) \subseteq T => s \in T}
<1>1. \A T, U : T \subseteq U => Rule(T) \subseteq Rule(U)
  OBVIOUS
<1>2. L \in SUBSET Trees /\ \A T : Rule(T) \in SUBSET Trees
  OBVIOUS
<1>3. \A T \in SUBSET Trees : Rule(T) \subseteq T => L \subseteq T
  OBVIOUS
<1>4. \A s \in Trees : (\A T \in SUBSET Trees : Rule(T) \subseteq T => s \in T) => s \in L
  OBVIOUS
<1>5. \A s \in Trees : s \in Rule(L) <=> \/ s.k \in {"ret", "brk", "cnt"}
                                         \/ s.k = "block" /\ \E i \in DOMAIN s.items : s.items[i] \in L
  OBVIOUS
<1> HIDE DEF Rule, L
<1>6. Rule(L) \subseteq L
  BY <1>1, <1>2, <1>3, <1>4
<1>7. L \subseteq Rule(L)
  BY <1>1, <1>2, <1>3, <1>6
<1>8. PICK f : f = [s \in Trees |-> s \in L]
  OBVIOUS
<1>9. ASSUME NEW s \in Trees
      PROVE  JumpsBy(s, f) <=> s \in L
  <2>1. s.k = "block" => \A i \in DOMAIN s.items : f[s.items[i]] <=> s.items[i] \in L
    BY <1>8, PartsOf
  <2> QED  BY <1>5, <1>6, <1>7, <2>1 DEF JumpsBy
<1>10. \A s \in Trees : JumpsBy(s, f) = (s \in L)
  BY <1>9, JumpsTruth
<1>11. f = [s \in Trees |-> JumpsBy(s, f)]
  BY <1>8, <1>10, Zenon
<1> QED  BY <1>11, Zenon

(* So Jumps and HasDeadMerge are what their definitions say.               *)
LEMMA JumpsRule ==
    ASSUME NEW s \in Trees
    PROVE  Jumps[s] <=> JumpsBy(s, Jumps)
<1>1. Jumps = CHOOSE f : f = [t \in Trees |-> JumpsBy(t, f)]
  BY Zenon DEF Jumps, JumpsBy
<1>2. Jumps = [t \in Trees |-> JumpsBy(t, Jumps)]
  BY <1>1, JumpsExists, Zenon
<1> QED  BY <1>2, Zenon
(* The same for HasDeadMerge.                                              *)
LEMMA DeadTruth ==
    ASSUME NEW s, NEW f, NEW L, DeadBy(s, f) <=> s \in L
    PROVE  DeadBy(s, f) = (s \in L)
<1>1. CASE s \in L
  <2>1. (s \in L) = TRUE
    BY <1>1
  <2>2. DeadBy(s, f) = TRUE
    BY <1>1 DEF DeadBy
  <2> QED  BY <2>1, <2>2
<1>2. CASE s \notin L
  <2>1. (s \in L) = FALSE
    BY <1>2
  <2>2. DeadBy(s, f) = FALSE
    BY <1>2 DEF DeadBy
  <2> QED  BY <2>1, <2>2
<1> QED  BY <1>1, <1>2

(* Its recursion has a solution too.                                       *)
LEMMA DeadExists == \E f : f = [s \in Trees |-> DeadBy(s, f)]
<1> DEFINE Rule(T) == {s \in Trees : \/ s.k = "if" /\ ((Jumps[s.s] /\ Jumps[s.e]) \/ s.s \in T \/ s.e \in T)
                                     \/ s.k = "while" /\ s.s \in T
                                     \/ s.k = "block" /\ \E i \in DOMAIN s.items : s.items[i] \in T}
           L == {s \in Trees : \A T \in SUBSET Trees : Rule(T) \subseteq T => s \in T}
<1>1. \A T, U : T \subseteq U => Rule(T) \subseteq Rule(U)
  OBVIOUS
<1>2. L \in SUBSET Trees /\ \A T : Rule(T) \in SUBSET Trees
  OBVIOUS
<1>3. \A T \in SUBSET Trees : Rule(T) \subseteq T => L \subseteq T
  OBVIOUS
<1>4. \A s \in Trees : (\A T \in SUBSET Trees : Rule(T) \subseteq T => s \in T) => s \in L
  OBVIOUS
<1>5. \A s \in Trees : s \in Rule(L) <=> \/ s.k = "if" /\ ((Jumps[s.s] /\ Jumps[s.e]) \/ s.s \in L \/ s.e \in L)
                                         \/ s.k = "while" /\ s.s \in L
                                         \/ s.k = "block" /\ \E i \in DOMAIN s.items : s.items[i] \in L
  OBVIOUS
<1> HIDE DEF Rule, L
<1>6. Rule(L) \subseteq L
  BY <1>1, <1>2, <1>3, <1>4
<1>7. L \subseteq Rule(L)
  BY <1>1, <1>2, <1>3, <1>6
<1>8. PICK f : f = [s \in Trees |-> s \in L]
  OBVIOUS
<1>9. ASSUME NEW s \in Trees
      PROVE  DeadBy(s, f) <=> s \in L
  <2>1. /\ s.k = "block" => \A i \in DOMAIN s.items : f[s.items[i]] <=> s.items[i] \in L
        /\ s.k = "if" => (f[s.s] <=> s.s \in L) /\ (f[s.e] <=> s.e \in L)
        /\ s.k = "while" => (f[s.s] <=> s.s \in L)
    BY <1>8, PartsOf
  <2> QED  BY <1>5, <1>6, <1>7, <2>1 DEF DeadBy
<1>10. \A s \in Trees : DeadBy(s, f) = (s \in L)
  BY <1>9, DeadTruth
<1>11. f = [s \in Trees |-> DeadBy(s, f)]
  BY <1>8, <1>10, Zenon
<1> QED  BY <1>11, Zenon

(* What HasDeadMerge says of a statement.                                  *)
LEMMA DeadRule ==
    ASSUME NEW s \in Trees
    PROVE  HasDeadMerge[s] <=> DeadBy(s, HasDeadMerge)
<1>1. HasDeadMerge = CHOOSE f : f = [t \in Trees |-> DeadBy(t, f)]
  BY Zenon DEF HasDeadMerge, DeadBy
<1>2. HasDeadMerge = [t \in Trees |-> DeadBy(t, HasDeadMerge)]
  BY <1>1, DeadExists, Zenon
<1> QED  BY <1>2, Zenon

(* The statements that jump, and those with a merge block nothing reaches. *)
Jumpers == {x \in Trees : Jumps[x]}
Tidy(x) == x \in Trees /\ ~HasDeadMerge[x]

(* The simple jumps are among them, and a block with a jump in it.         *)
LEMMA JumpersAre ==
    ASSUME NEW x \in Trees
    PROVE  /\ x.k \in {"ret", "brk", "cnt"} => x \in Jumpers
           /\ x.k = "block" => \A i \in DOMAIN x.items : x.items[i] \in Jumpers => x \in Jumpers
<1>1. Jumps[x] <=> JumpsBy(x, Jumps)
  BY JumpsRule
<1> QED  BY <1>1 DEF Jumpers, JumpsBy

(* A tidy if: both branches are, and not both of them jump.                *)
TidyIf(n) == Tidy(n.s) /\ Tidy(n.e) /\ ~(n.s \in Jumpers /\ n.e \in Jumpers)

(* The parts of a tidy statement are tidy.                                 *)
LEMMA TidyParts ==
    ASSUME NEW x, Tidy(x)
    PROVE  /\ x.k = "if" => TidyIf(x)
           /\ x.k = "while" => Tidy(x.s)
           /\ x.k = "block" => x.items \in Seq(Trees) /\ \A i \in DOMAIN x.items : Tidy(x.items[i])
<1>1. x \in Trees /\ ~DeadBy(x, HasDeadMerge)
  BY DeadRule DEF Tidy
<1>2. /\ x.k = "block" => \A i \in DOMAIN x.items : x.items[i] \in Trees
      /\ x.k = "block" => x.items \in Seq(Trees)
      /\ x.k = "if" => x.s \in Trees /\ x.e \in Trees
      /\ x.k = "while" => x.s \in Trees
  BY <1>1, PartsOf
<1>3. CASE x.k = "if"
  <2>1. ~((Jumps[x.s] /\ Jumps[x.e]) \/ HasDeadMerge[x.s] \/ HasDeadMerge[x.e])
    BY <1>1, <1>3 DEF DeadBy
  <2> QED  BY <1>2, <1>3, <2>1 DEF TidyIf, Tidy, Jumpers
<1>4. CASE x.k = "while"
  BY <1>1, <1>2, <1>4 DEF DeadBy, Tidy
<1>5. CASE x.k = "block"
  BY <1>1, <1>2, <1>5 DEF DeadBy, Tidy
<1> QED  BY <1>3, <1>4, <1>5

-----------------------------------------------------------------------------
(* What the entry reaches over the edges s.                                *)
Closed(s, S) == 1 \in S /\ \A a \in S : \A i \in DOMAIN s[a] : s[a][i] \in S
Reached(s) == {b \in BB : \A S \in SUBSET BB : Closed(s, S) => b \in S}

(* More edges reach more.                                                  *)
LEMMA ReachedGrows ==
    ASSUME NEW s, NEW t,
           \A b \in BB : \A i \in DOMAIN s[b] : i \in DOMAIN t[b] /\ t[b][i] = s[b][i]
    PROVE  Reached(s) \subseteq Reached(t)
<1>1. \A S \in SUBSET BB : Closed(t, S) => Closed(s, S)
  BY DEF Closed
<1> QED  BY <1>1 DEF Reached

(* An edge of a reached block reaches.                                     *)
LEMMA ReachedOn ==
    ASSUME NEW s, NEW b \in Reached(s), NEW i \in DOMAIN s[b], s[b][i] \in BB
    PROVE  s[b][i] \in Reached(s)
BY DEF Reached, Closed

(* The entry is reached.                                                   *)
LEMMA EntryReached ==
    ASSUME NEW s
    PROVE  1 \in Reached(s) /\ Reached(s) \subseteq BB
BY BlocksAssumption DEF Reached, Closed, BB

(* The blocks branch to at most two others, a block that is filled or      *)
(* being filled is reached.                                                *)
Targets == 2 .. MaxBlocks

Edges ==
    /\ succs \in [BB -> Seq(Targets)]
    /\ \A b \in BB : Len(succs[b]) <= 2
    /\ \A b \in BB : term[b] = "none" => succs[b] = << >>
    /\ \A b \in BB : term[b] # "none" => b \in Reached(succs)
    /\ insert \in Reached(succs)

(* Nothing is added, or a return.                                          *)
LEMMA EdgesSame ==
    ASSUME Edges, succs' = succs, NEW kind, kind # "none", term \in [BB -> {"none", "br", "ret"}],
           term' = term \/ (term[insert] = "none" /\ term' = [term EXCEPT ![insert] = kind]),
           insert' \in Reached(succs)
    PROVE  Edges'
BY EntryReached DEF Edges

(* A branch is added.                                                      *)
LEMMA EdgesBranch ==
    ASSUME Edges, term[insert] = "none", NEW kind, kind # "none",
           term \in [BB -> {"none", "br", "ret"}],
           NEW targets \in Seq(Targets), Len(targets) <= 2, Terminate(insert, kind, targets)
    PROVE  /\ Reached(succs) \subseteq Reached(succs')
           /\ \A i \in 1 .. Len(targets) : targets[i] \in Reached(succs')
           /\ insert' \in Reached(succs') => Edges'
<1>1. insert \in BB /\ succs[insert] = << >> /\ insert \in Reached(succs)
  BY EntryReached DEF Edges
<1>2. << >> \o targets = targets
  BY ConcatEmptySeq
<1>3. succs' = [succs EXCEPT ![insert] = targets] /\ term' = [term EXCEPT ![insert] = kind]
  BY <1>1, <1>2 DEF Terminate
<1>4. DOMAIN targets = 1 .. Len(targets) /\ \A i \in DOMAIN targets : targets[i] \in Targets
  BY LenProperties, ElementOfSeq
<1>5. succs' \in [BB -> Seq(Targets)] /\ succs'[insert] = targets
  BY <1>1, <1>3 DEF Edges
<1>6. \A b \in BB : b # insert => succs'[b] = succs[b]
  BY <1>3 DEF Edges
<1>7. Reached(succs) \subseteq Reached(succs')
  <2>1. DOMAIN << >> = {}
    OBVIOUS
  <2>2. \A b \in BB : \A i \in DOMAIN succs[b] : i \in DOMAIN succs'[b] /\ succs'[b][i] = succs[b][i]
    BY <1>1, <1>6, <2>1
  <2> QED  BY <2>2, ReachedGrows
<1>8. \A i \in 1 .. Len(targets) : targets[i] \in Reached(succs')
  <2> TAKE i \in 1 .. Len(targets)
  <2>1. targets[i] \in BB
    BY <1>4, BlocksAssumption DEF Targets, BB
  <2> QED  BY <1>1, <1>4, <1>5, <1>7, <2>1, ReachedOn
<1>9. ASSUME insert' \in Reached(succs') PROVE Edges'
  <2>1. \A b \in BB : Len(succs'[b]) <= 2
    BY <1>5, <1>6 DEF Edges
  <2>2. \A b \in BB : term'[b] = IF b = insert THEN kind ELSE term[b]
    BY <1>3
  <2>3. \A b \in BB : term'[b] = "none" => succs'[b] = << >>
    BY <1>6, <2>2 DEF Edges
  <2>4. \A b \in BB : term'[b] # "none" => b \in Reached(succs')
    BY <1>1, <1>7, <2>2 DEF Edges
  <2> QED  BY <1>5, <1>9, <2>1, <2>3, <2>4 DEF Edges
<1> QED  BY <1>7, <1>8, <1>9

(* A jump that ends before the current visit has its excuse: j is 1 if one *)
(* may end before the visit w, k if one may end before the next visit.  R  *)
(* are the blocks reached.                                                 *)
Listing(n, k) ==
    n \in Seq(Trees) /\ \A i \in DOMAIN n : Tidy(n[i]) /\ (n[i] \in Jumpers => k = 1)

Stating(x, k) ==
    IF x.k = "block" THEN Listing(x.items, k) ELSE Tidy(x) /\ (x \in Jumpers => k = 1)

Wired(w) ==
    /\ w.bbs \in Seq(Targets)
    /\ w.op \in {"ifBranch", "ifElse", "ifMerge", "whileBranch", "whileEnd"} => Len(w.bbs) = 3
    /\ w.op \in {"lorRight", "landRight"} => Len(w.bbs) = 1

Excuse(w, j, k, R) ==
    /\ Wired(w)
    /\ w.op = "stmt" => Stating(w.n, k)
    /\ w.op = "items" => Listing(w.n, k) /\ (j = 1 => k = 1)
    /\ w.op = "ifBranch" => TidyIf(w.n)
    /\ w.op = "ifElse" => TidyIf(w.n) /\ w.bbs[2] \in R /\ (j = 1 => w.n.s \in Jumpers)
    /\ w.op = "ifMerge" => /\ TidyIf(w.n) /\ (w.bbs[3] \in R \/ w.n.s \in Jumpers)
                           /\ (j = 1 => w.n.e \in Jumpers)
    /\ w.op = "whileBranch" => Tidy(w.n.s)
    /\ w.op = "whileEnd" => w.bbs[3] \in R

Excused(s, J, R) ==
    /\ IsList(s) /\ IsList(J) /\ Len(J) = Len(s) + 1
    /\ \A i \in 1 .. Len(s) : Excuse(s[i], J[i], J[i + 1], R)

(* A statement without such an if is fit to be visited.                    *)
LEMMA StatingTidy ==
    ASSUME NEW x, Tidy(x), NEW k, x \in Jumpers => k = 1
    PROVE  Stating(x, k)
<1>1. CASE x.k = "block"
  <2>1. x.items \in Seq(Trees) /\ \A i \in DOMAIN x.items : Tidy(x.items[i])
    BY <1>1, TidyParts
  <2>2. \A i \in DOMAIN x.items : x.items[i] \in Jumpers => x \in Jumpers
    BY <1>1, JumpersAre DEF Tidy
  <2> QED  BY <1>1, <2>1, <2>2 DEF Stating, Listing
<1>2. CASE x.k # "block"
  BY <1>2 DEF Stating
<1> QED  BY <1>1, <1>2

(* Reaching more excuses no less.                                          *)
LEMMA ExcusedOn ==
    ASSUME NEW s, NEW J, NEW R, Excused(s, J, R), NEW R2, R \subseteq R2
    PROVE  Excused(s, J, R2)
BY DEF Excused, Excuse

(* A visit is put in front,                                                *)
LEMMA ExcusedPush ==
    ASSUME NEW s, NEW J, NEW R, Excused(s, J, R), NEW a, NEW j, Excuse(a, j, J[1], R)
    PROVE  Excused(<<a>> \o s, <<j>> \o J, R)
<1> DEFINE s2 == <<a>> \o s
           J2 == <<j>> \o J
           n == Len(s)
<1>1. IsList(s) /\ IsList(J) /\ Len(J) = n + 1
  BY DEF Excused
<1>2. /\ IsList(s2) /\ n \in Nat /\ Len(s2) = n + 1 /\ s2[1] = a
      /\ \A i \in 1 .. n : s2[i + 1] = s[i]
  <2>1. IsCons(s2, a, s)
    BY <1>1 DEF IsCons
  <2> QED  BY <2>1, Consed
<1>3. /\ IsList(J2) /\ Len(J2) = (n + 1) + 1 /\ J2[1] = j
      /\ \A i \in 1 .. n + 1 : J2[i + 1] = J[i]
  <2>1. IsCons(J2, j, J)
    BY <1>1 DEF IsCons
  <2> QED  BY <1>1, <2>1, Consed
<1>4. \A i \in 1 .. n : Excuse(s[i], J[i], J[i + 1], R)
  BY DEF Excused
<1> HIDE DEF s2, J2, n
<1>5. ASSUME NEW i \in 1 .. Len(s2)
      PROVE  Excuse(s2[i], J2[i], J2[i + 1], R)
  <2>1. CASE i = 1
    <3>1. 1 \in 1 .. n + 1
      BY <1>2
    <3>2. J2[i + 1] = J[1]
      BY <1>3, <2>1, <3>1
    <3> QED  BY <1>2, <1>3, <2>1, <3>2
  <2>2. CASE i # 1
    <3>1. PICK m \in 1 .. n : i = m + 1
      <4>1. i - 1 \in 1 .. n /\ i = (i - 1) + 1
        BY <1>2, <2>2
      <4> QED  BY <4>1
    <3>2. m \in 1 .. n + 1 /\ m + 1 \in 1 .. n + 1
      BY <1>2
    <3>3. s2[i] = s[m] /\ J2[i] = J[m] /\ J2[i + 1] = J[m + 1]
      BY <1>2, <1>3, <3>1, <3>2
    <3> QED  BY <1>4, <3>3
  <2> QED  BY <2>1, <2>2
<1>6. Len(J2) = Len(s2) + 1
  BY <1>2, <1>3
<1>7. Excused(s2, J2, R)
  BY <1>2, <1>3, <1>5, <1>6 DEF Excused
<1> QED  BY <1>7 DEF s2, J2

(* and taken away.                                                         *)
LEMMA ExcusedPop ==
    ASSUME NEW s, s # << >>, NEW J, NEW R, Excused(s, J, R)
    PROVE  Excused(Tail(s), Tail(J), R) /\ Tail(J)[1] = J[2] /\ Excuse(Head(s), J[1], J[2], R)
<1> DEFINE s2 == Tail(s)
           J2 == Tail(J)
<1>1. PICK S : s \in Seq(S)
  BY DEF Excused, IsList
<1>2. PICK T : J \in Seq(T)
  BY DEF Excused, IsList
<1>3. PICK n \in Nat : Len(s) = n + 1
  <2>1. Len(s) \in Nat /\ Len(s) # 0
    BY <1>1, EmptySeq, LenProperties
  <2>2. Len(s) - 1 \in Nat /\ Len(s) = (Len(s) - 1) + 1
    BY <2>1
  <2> QED  BY <2>2
<1>4. Len(J) = (n + 1) + 1
  BY <1>3 DEF Excused
<1>5. J # << >>
  BY <1>2, <1>3, <1>4, EmptySeq
<1>6. /\ Head(s) = s[1] /\ IsList(s2) /\ Len(s2) = n /\ \A i \in 1 .. n : s2[i] = s[i + 1]
  <2>1. /\ Head(s) = s[1] /\ s2 \in Seq(S) /\ Len(s2) = Len(s) - 1
        /\ \A i \in 1 .. Len(s2) : s2[i] = s[i + 1]
    BY <1>1, HeadTailProperties
  <2>2. Len(s2) = n
    BY <1>3, <2>1
  <2> QED  BY <2>1, <2>2 DEF IsList
<1>7. IsList(J2) /\ Len(J2) = n + 1 /\ \A i \in 1 .. n + 1 : J2[i] = J[i + 1]
  <2>1. /\ J2 \in Seq(T) /\ Len(J2) = Len(J) - 1
        /\ \A i \in 1 .. Len(J2) : J2[i] = J[i + 1]
    BY <1>2, <1>5, HeadTailProperties
  <2>2. Len(J2) = n + 1
    BY <1>4, <2>1
  <2> QED  BY <2>1, <2>2 DEF IsList
<1> HIDE DEF s2, J2
<1>8. \A i \in 1 .. n + 1 : Excuse(s[i], J[i], J[i + 1], R)
  BY <1>3 DEF Excused
<1>9. 1 \in 1 .. n + 1 /\ 1 + 1 = 2
  BY <1>3
<1>10. J2[1] = J[2] /\ Excuse(s[1], J[1], J[2], R)
  BY <1>7, <1>8, <1>9
<1>11. ASSUME NEW i \in 1 .. n
       PROVE  Excuse(s2[i], J2[i], J2[i + 1], R)
  <2>1. i \in 1 .. n + 1 /\ i + 1 \in 1 .. n + 1
    BY <1>3
  <2>2. s2[i] = s[i + 1] /\ J2[i] = J[i + 1] /\ J2[i + 1] = J[(i + 1) + 1]
    BY <1>6, <1>7, <2>1
  <2> QED  BY <1>8, <2>1, <2>2
<1>12. Excused(s2, J2, R)
  BY <1>6, <1>7, <1>11 DEF Excused
<1> QED  BY <1>6, <1>10, <1>12 DEF s2, J2

(* The visits that replace the current one, with their excuses.            *)
Carried(J, R, j) ==
    \/ Then(<< >>) /\ j = J[2]
    \/ \E a : Then(<<a>>) /\ Excuse(a, j, J[2], R)
    \/ \E a, c, k : Then(<<a, c>>) /\ Excuse(a, j, k, R) /\ Excuse(c, k, J[2], R)

(* The excuses go on with the visits.                                      *)
LEMMA ExcusedTurn ==
    ASSUME NEW J, NEW R, Excused(work, J, R), work # << >>, NEW R2, R \subseteq R2,
           NEW j, Carried(J, R2, j)
    PROVE  \E J2 : Excused(work', J2, R2) /\ J2[1] = j
<1> PICK t : t = Tail(work)
  OBVIOUS
<1> PICK K : K = Tail(J)
  OBVIOUS
<1>1. Excused(t, K, R2) /\ K[1] = J[2] /\ IsList(t) /\ IsList(K)
  <2>1. Excused(t, K, R) /\ K[1] = J[2]
    BY ExcusedPop
  <2>2. Excused(t, K, R2)
    BY <2>1, ExcusedOn
  <2> QED  BY <2>1, <2>2 DEF Excused
<1>2. CASE Then(<< >>) /\ j = J[2]
  <2>1. << >> \o t = t
    BY <1>1, CatNone
  <2>2. work' = t
    BY <1>2, <2>1 DEF Then
  <2> QED  BY <1>1, <1>2, <2>2
<1>3. CASE \E a : Then(<<a>>) /\ Excuse(a, j, J[2], R2)
  <2>1. PICK a : Then(<<a>>) /\ Excuse(a, j, J[2], R2)
    BY <1>3
  <2>2. Excused(<<a>> \o t, <<j>> \o K, R2)
    BY <1>1, <2>1, ExcusedPush
  <2>3. work' = <<a>> \o t
    BY <2>1 DEF Then
  <2> QED  BY <1>1, <2>2, <2>3, FirstOf
<1>4. CASE \E a, c, k : Then(<<a, c>>) /\ Excuse(a, j, k, R2) /\ Excuse(c, k, J[2], R2)
  <2>1. PICK a, c, k : Then(<<a, c>>) /\ Excuse(a, j, k, R2) /\ Excuse(c, k, J[2], R2)
    BY <1>4
  <2>2. PICK s, G : s = <<c>> \o t /\ G = <<k>> \o K
    OBVIOUS
  <2>3. Excused(s, G, R2) /\ G[1] = k
    <3>1. Excused(<<c>> \o t, <<k>> \o K, R2)
      BY <1>1, <2>1, ExcusedPush
    <3> QED  BY <1>1, <2>2, <3>1, FirstOf
  <2>4. Excused(<<a>> \o s, <<j>> \o G, R2)
    BY <2>1, <2>3, ExcusedPush
  <2>5. (<<j>> \o G)[1] = j
    BY <2>3, FirstOf DEF Excused
  <2>6. work' = <<a>> \o s
    <3>1. IsCons(work', a, <<c>> \o Tail(work))
      BY <1>1, <2>1, Thens
    <3> QED  BY <2>2, <3>1 DEF IsCons
  <2> QED  BY <2>4, <2>5, <2>6
<1> QED  BY <1>2, <1>3, <1>4 DEF Carried

(* The stacks hold blocks a branch may name.                               *)
Held ==
    /\ trueStack \in Seq(Targets) /\ falseStack \in Seq(Targets)
    /\ loopStack \in Seq([trueBB : Targets, falseBB : Targets])

(* Every block filled so far, and the one being filled, is reached, and    *)
(* the pending visits will reach those they have.                          *)
Roads(J) ==
    /\ Edges /\ Held /\ Excused(work, J, Reached(succs))
    /\ term[insert] # "none" => J[1] = 1

Routed == \E J : Roads(J)

(* A step that carries the excuses keeps everything reached.               *)
LEMMA RoadsTurn ==
    ASSUME NEW J, Roads(J), work # << >>, Held', Edges',
           NEW R2, R2 = Reached(succs'), Reached(succs) \subseteq R2,
           NEW j, Carried(J, R2, j), term'[insert'] = "none" \/ j = 1
    PROVE  Routed'
<1>1. Excused(work, J, Reached(succs))
  BY DEF Roads
<1>2. PICK J2 : Excused(work', J2, R2) /\ J2[1] = j
  BY <1>1, ExcusedTurn
<1>3. Roads(J2)'
  BY <1>2 DEF Roads
<1> QED  BY <1>3 DEF Routed

(* What is known of the current visit.                                     *)
Here(J) ==
    /\ count \in Nat /\ 1 <= count /\ MaxBlocks \in Nat /\ count <= MaxBlocks
    /\ insert \in BB /\ term \in [BB -> {"none", "br", "ret"}]
    /\ term[insert] = "none" \/ (Tolerates(Now) /\ J[1] = 1)
    /\ Excuse(Now, J[1], J[2], Reached(succs)) /\ Wired(Now)
    /\ \A b \in Future(Now) : b \in BB /\ b # insert /\ term[b] = "none"
    /\ \A b \in BB : b > count => b # insert /\ term[b] = "none"
    /\ Edges /\ Held

(* That is what there is before a step.                                    *)
LEMMA HereNow ==
    ASSUME BlockInv, status = "lower", work # << >>, NEW J, Roads(J)
    PROVE  Here(J)
<1>1. /\ count \in Nat /\ MaxBlocks \in Nat /\ count <= MaxBlocks
      /\ insert \in BB /\ insert <= count /\ term \in [BB -> {"none", "br", "ret"}]
      /\ \A b \in Future(Now) : b \in BB /\ b <= count /\ b # insert /\ term[b] = "none"
      /\ term[insert] = "none" \/ Tolerates(Now)
      /\ \A b \in BB : b > count => term[b] = "none"
  BY Current
<1>2. 1 <= count /\ \A b \in BB : b > count => b # insert
  BY <1>1 DEF BB
<1>3. Edges /\ Held /\ Excused(work, J, Reached(succs)) /\ (term[insert] # "none" => J[1] = 1)
  BY DEF Roads
<1>4. Excuse(Now, J[1], J[2], Reached(succs))
  BY <1>3, ExcusedPop DEF Now
<1>5. Wired(Now)
  BY <1>4 DEF Excuse
<1> QED  BY <1>1, <1>2, <1>3, <1>4, <1>5 DEF Here

(* The insert block gets no branch and stays.                              *)
LEMMA RoadsStay ==
    ASSUME NEW J, Roads(J), Here(J), work # << >>, Held', succs' = succs, insert' = insert,
           NEW kind, kind # "none",
           term' = term \/ (term[insert] = "none" /\ term' = [term EXCEPT ![insert] = kind]),
           NEW j, Carried(J, Reached(succs), j), term'[insert] = "none" \/ j = 1
    PROVE  Routed'
<1>1. Edges /\ term \in [BB -> {"none", "br", "ret"}]
  BY DEF Here
<1>2. insert' \in Reached(succs)
  BY <1>1 DEF Edges
<1>3. Edges'
  BY <1>1, <1>2, EdgesSame
<1>4. PICK R2 : R2 = Reached(succs)
  OBVIOUS
<1>5. R2 = Reached(succs') /\ Reached(succs) \subseteq R2
  BY <1>4
<1>6. term'[insert'] = "none" \/ j = 1
  OBVIOUS
<1> QED  BY <1>3, <1>4, <1>5, <1>6, RoadsTurn

(* It gets a branch.                                                       *)
LEMMA RoadsBranch ==
    ASSUME NEW J, Roads(J), Here(J), work # << >>, Held', term[insert] = "none",
           NEW targets \in Seq(Targets), Len(targets) <= 2, Terminate(insert, "br", targets),
           NEW R2, R2 = Reached(succs'), insert' \in R2,
           NEW j, Carried(J, R2, j), j = 1 \/ (insert' # insert /\ term[insert'] = "none")
    PROVE  Routed'
<1>1. Edges /\ insert \in BB /\ term \in [BB -> {"none", "br", "ret"}]
  BY DEF Here
<1>2. /\ Reached(succs) \subseteq Reached(succs')
      /\ insert' \in Reached(succs') => Edges'
  BY <1>1, EdgesBranch
<1>3. term'[insert'] = "none" \/ j = 1
  BY <1>1 DEF Terminate
<1> QED  BY <1>2, <1>3, RoadsTurn

(* The insert block gets a branch unless it has one.                       *)
LEMMA CloseReaches ==
    ASSUME NEW J, Here(J), NEW u \in Targets, BrUnlessTerminated(insert, u),
           NEW R2, R2 = Reached(succs')
    PROVE  /\ Reached(succs) \subseteq R2 /\ (term[insert] # "none" \/ u \in R2)
           /\ insert' \in R2 => Edges'
           /\ \A b \in BB : b # insert => term'[b] = term[b]
<1>1. Edges /\ insert \in BB /\ term \in [BB -> {"none", "br", "ret"}] /\ "br" # "none"
  BY DEF Here
<1>2. CASE Terminated(insert)
  <2>1. term' = term /\ succs' = succs
    BY <1>2 DEF BrUnlessTerminated, cfgVars
  <2> QED  BY <1>1, <1>2, <2>1, EdgesSame DEF Terminated
<1>3. CASE ~Terminated(insert)
  <2>1. Terminate(insert, "br", <<u>>) /\ term[insert] = "none"
    BY <1>3 DEF BrUnlessTerminated, Terminated
  <2>2. <<u>> \in Seq(Targets) /\ Len(<<u>>) = 1 /\ <<u>>[1] = u
    OBVIOUS
  <2>3. Len(<<u>>) <= 2 /\ 1 \in 1 .. Len(<<u>>)
    BY <2>2
  <2>4. /\ Reached(succs) \subseteq Reached(succs')
        /\ \A i \in 1 .. Len(<<u>>) : <<u>>[i] \in Reached(succs')
        /\ insert' \in Reached(succs') => Edges'
    BY <1>1, <2>1, <2>2, <2>3, EdgesBranch
  <2>5. \A b \in BB : b # insert => term'[b] = term[b]
    BY <1>1, <2>1 DEF Terminate
  <2> QED  BY <2>2, <2>3, <2>4, <2>5
<1> QED  BY <1>2, <1>3

(* What the branch reaches.                                                *)
LEMMA BranchReaches ==
    ASSUME NEW J, Here(J), term[insert] = "none",
           NEW targets \in Seq(Targets), Len(targets) <= 2, Terminate(insert, "br", targets),
           NEW R2, R2 = Reached(succs')
    PROVE  Reached(succs) \subseteq R2 /\ \A i \in 1 .. Len(targets) : targets[i] \in R2
BY EdgesBranch DEF Here

(* Lists of targets.                                                       *)
LEMMA Ways ==
    ASSUME NEW a \in Targets
    PROVE  /\ <<a>> \in Seq(Targets) /\ Len(<<a>>) = 1 /\ <<a>>[1] = a
           /\ \A b \in Targets : /\ <<a, b>> \in Seq(Targets) /\ Len(<<a, b>>) = 2
                                 /\ <<a, b>>[1] = a /\ <<a, b>>[2] = b
OBVIOUS

(* The three blocks of an if or a loop may be branched to.                 *)
LEMMA Ends3 ==
    ASSUME NEW bbs \in Seq(Targets), Len(bbs) = 3
    PROVE  bbs[1] \in Targets /\ bbs[2] \in Targets /\ bbs[3] \in Targets
<1>1. \A i \in 1 .. Len(bbs) : bbs[i] \in Targets
  BY ElementOfSeq
<1> QED  BY <1>1

(* A stack is popped.                                                      *)
LEMMA Popped ==
    ASSUME NEW S, NEW q \in Seq(S), q # << >>
    PROVE  Front(q) \in Seq(S) /\ Last(q) \in S
<1>1. Len(q) \in Nat /\ Len(q) # 0 /\ IsList(q)
  BY EmptySeq, LenProperties DEF IsList
<1>2. /\ IsList(Front(q)) /\ Len(Front(q)) = Len(q) - 1 /\ Last(q) = q[Len(q)]
      /\ \A i \in 1 .. Len(q) - 1 : Front(q)[i] = q[i]
  BY <1>1, Fronted
<1>3. \A i \in 1 .. Len(q) : q[i] \in S
  BY ElementOfSeq
<1>4. Len(q) \in 1 .. Len(q) /\ 1 .. Len(q) - 1 \subseteq 1 .. Len(q)
  BY <1>1
<1>5. \A i \in 1 .. Len(Front(q)) : Front(q)[i] \in S
  BY <1>2, <1>3, <1>4
<1>6. PICK T : Front(q) \in Seq(T)
  BY <1>2 DEF IsList
<1>7. PICK m \in Nat : m = Len(Front(q)) /\ DOMAIN Front(q) = 1 .. m
  BY <1>6, LenProperties
<1>8. Front(q) \in [1 .. m -> S]
  BY <1>5, <1>6, <1>7, SeqDef
<1> QED  BY <1>2, <1>3, <1>4, <1>7, <1>8, SeqDef

(* The stacks a visit takes from are not empty.                            *)
Stocked ==
    /\ Now.op \in {"ifBranch", "whileBranch", "lorRight"} => trueStack # << >> /\ falseStack # << >>
    /\ Now.op = "landRight" => falseStack # << >>
    /\ Now.op = "whileEnd" => loopStack # << >>
    /\ Now.op = "stmt" /\ Now.n.k \in {"brk", "cnt"} => loopStack # << >>

(* They are those of a condition, or of a loop, around the visit.          *)
LEMMA StocksNow ==
    ASSUME BlockInv, Simulated, status = "lower", work # << >>
    PROVE  Stocked
<1>1. PICK F, P, X, done, cur : Sim(F, P, X, done, cur)
  BY DEF Simulated
<1>2. Known(F, P, X, done, cur)
  BY <1>1, SimKnown
<1>3. /\ Linked(Now, F[1], F[2], P, X) /\ InLoop(F[2], P, X)
      /\ F[1].ts = trueStack /\ F[1].fs = falseStack /\ F[1].ls = loopStack
  BY <1>2 DEF Known, Stacks
<1>4. IsList(F[2].ts) /\ IsList(F[2].fs) /\ IsList(F[2].ls)
  BY <1>3 DEF InLoop
<1>5. /\ \A x : Append(F[2].ts, x) # << >> /\ Append(F[2].fs, x) # << >>
      /\ \A x : Append(F[2].ls, x) # << >>
  BY <1>4, LastAppended
<1>6. CASE Now.op = "ifBranch"
  <2>1. IfBranchLink(Now, F[1], F[2], P, X)
    BY <1>3, <1>6 DEF Linked
  <2> QED  BY <1>3, <1>5, <1>6, <2>1 DEF IfBranchLink, Stocked
<1>7. CASE Now.op = "whileBranch"
  <2>1. WhileBranchLink(Now, F[1], F[2], P, X)
    BY <1>3, <1>7 DEF Linked
  <2> QED  BY <1>3, <1>5, <1>7, <2>1 DEF WhileBranchLink, Stocked
<1>8. CASE Now.op = "lorRight"
  <2>1. LOrRightLink(Now, F[1], F[2], P, X)
    BY <1>3, <1>8 DEF Linked
  <2> QED  BY <1>3, <1>5, <1>8, <2>1 DEF LOrRightLink, IfTrue, Stocked
<1>9. CASE Now.op = "landRight"
  <2>1. LAndRightLink(Now, F[1], F[2], P, X)
    BY <1>3, <1>9 DEF Linked
  <2> QED  BY <1>3, <1>9, <2>1 DEF LAndRightLink, IfFalse, SameFrame, Stocked
<1>10. CASE Now.op = "whileEnd"
  <2>1. WhileEndLink(Now, F[1], F[2], P, X)
    BY <1>3, <1>10 DEF Linked
  <2> QED  BY <1>3, <1>5, <1>10, <2>1 DEF WhileEndLink, LoopLink, Stocked
<1>11. CASE Now.op = "stmt" /\ Now.n.k \in {"brk", "cnt"}
  <2>1. Simple(F, P, X, done, cur)
    BY <1>2, <1>11, SimpleStmt
  <2>2. Inside(F[1])
    BY <1>2, <1>11, <2>1, ToLoopEnd
  <2> QED  BY <1>3, <1>11, <2>2 DEF Inside, Stocked
<1> QED  BY <1>6, <1>7, <1>8, <1>9, <1>10, <1>11 DEF Stocked

(* What each action starts from.                                           *)
Under(J) == Roads(J) /\ Here(J) /\ Stocked /\ work # << >>

(* AssignStmt goes on where it was.                                        *)
LEMMA RoadsSimple ==
    ASSUME NEW J, Under(J), VisitAct
    PROVE  Routed'
<1>1. /\ Now.op = "stmt" /\ term[insert] = "none"
      /\ UNCHANGED <<term, succs, insert, stackVars>> /\ Then(<< >>)
  BY DEF VisitAct, AtStmt, At, Emit, Under, Here, Tolerates
<1>2. Held'
  BY <1>1 DEF Under, Here, Held, stackVars
<1>3. PICK j : j = J[2]
  OBVIOUS
<1>4. Carried(J, Reached(succs), j)
  BY <1>1, <1>3 DEF Carried
<1>5. Roads(J) /\ Here(J) /\ work # << >> /\ "ret" # "none"
  BY DEF Under
<1>6. term' = term \/ (term[insert] = "none" /\ term' = [term EXCEPT ![insert] = "ret"])
  BY <1>1
<1>7. term'[insert] = "none" \/ j = 1
  BY <1>1
<1> QED  BY <1>1, <1>2, <1>4, <1>5, <1>6, <1>7, RoadsStay

(* return, break and continue jump.                                        *)
LEMMA JumpHere ==
    ASSUME NEW J, Under(J), AtStmt("ret") \/ AtStmt("brk") \/ AtStmt("cnt")
    PROVE  J[2] = 1 /\ term[insert] = "none" /\ Now.op = "stmt"
<1>1. Now.op = "stmt" /\ Now.n.k \in {"ret", "brk", "cnt"}
  BY DEF AtStmt, At
<1>2. Stating(Now.n, J[2])
  BY <1>1 DEF Under, Here, Excuse
<1>3. Tidy(Now.n) /\ (Now.n \in Jumpers => J[2] = 1)
  BY <1>1, <1>2 DEF Stating
<1>4. Now.n \in Jumpers
  BY <1>1, <1>3, JumpersAre DEF Tidy
<1>5. term[insert] = "none"
  BY <1>1 DEF Under, Here, Tolerates
<1> QED  BY <1>1, <1>3, <1>4, <1>5

(* ReturnStmt leaves the insert block terminated, as what follows expects. *)
LEMMA RoadsReturn ==
    ASSUME NEW J, Under(J), VisitReturn
    PROVE  Routed'
<1>1. J[2] = 1 /\ term[insert] = "none"
  BY JumpHere DEF VisitReturn
<1>2. /\ UNCHANGED <<succs, insert, stackVars>> /\ Then(<< >>)
      /\ term' = [term EXCEPT ![insert] = "ret"]
  BY DEF VisitReturn
<1>3. Held'
  BY <1>2 DEF Under, Here, Held, stackVars
<1>4. PICK j : j = J[2]
  OBVIOUS
<1>5. Carried(J, Reached(succs), j)
  BY <1>2, <1>4 DEF Carried
<1>6. Roads(J) /\ Here(J) /\ work # << >> /\ "ret" # "none"
  BY DEF Under
<1>7. term'[insert] = "none" \/ j = 1
  BY <1>1, <1>4
<1>8. term' = term \/ (term[insert] = "none" /\ term' = [term EXCEPT ![insert] = "ret"])
  BY <1>1, <1>2
<1> QED  BY <1>2, <1>3, <1>5, <1>6, <1>7, <1>8, RoadsStay

(* So do BreakStmt and ContinueStmt, which branch to the loop's blocks.    *)
LEMMA RoadsLeave ==
    ASSUME NEW J, Under(J), VisitBreak \/ VisitContinue
    PROVE  Routed'
<1>1. J[2] = 1 /\ term[insert] = "none" /\ Now.op = "stmt" /\ Now.n.k \in {"brk", "cnt"}
  BY JumpHere DEF VisitBreak, VisitContinue, AtStmt, At
<1>2. PICK u : /\ u = Last(loopStack).falseBB \/ u = Last(loopStack).trueBB
               /\ Terminate(insert, "br", <<u>>)
  BY DEF VisitBreak, VisitContinue
<1>3. UNCHANGED <<insert, stackVars>> /\ Then(<< >>)
  BY DEF VisitBreak, VisitContinue
<1>4. u \in Targets
  <2>1. loopStack # << >> /\ loopStack \in Seq([trueBB : Targets, falseBB : Targets])
    BY <1>1 DEF Under, Stocked, Here, Held
  <2>2. Last(loopStack) \in [trueBB : Targets, falseBB : Targets]
    BY <2>1, Popped
  <2> QED  BY <1>2, <2>2
<1>5. <<u>> \in Seq(Targets) /\ Len(<<u>>) <= 2
  BY <1>4, Ways
<1>6. Held'
  BY <1>3 DEF Under, Here, Held, stackVars
<1>7. PICK R2 : R2 = Reached(succs')
  OBVIOUS
<1>8. Roads(J) /\ Here(J) /\ work # << >>
  BY DEF Under
<1>9. Reached(succs) \subseteq R2
  BY <1>1, <1>2, <1>5, <1>7, <1>8, BranchReaches
<1>10. insert' \in R2
  BY <1>3, <1>8, <1>9 DEF Here, Edges
<1>11. PICK j : j = J[2]
  OBVIOUS
<1>12. Carried(J, R2, j)
  BY <1>3, <1>11 DEF Carried
<1>13. j = 1
  BY <1>1, <1>11
<1> QED  BY <1>1, <1>2, <1>5, <1>6, <1>7, <1>8, <1>10, <1>12, <1>13, RoadsBranch

-----------------------------------------------------------------------------
(* A list of statements is entered or gone on with.                        *)
LEMMA RoadsList ==
    ASSUME NEW J, Under(J), NEW w, Listing(w, J[2]), UNCHANGED <<term, succs, insert, stackVars>>,
           \/ Then(<< >>) /\ (term[insert] = "none" \/ J[2] = 1)
           \/ /\ w # << >> /\ term[insert] = "none"
              /\ Then(<<Visit("stmt", Head(w)), Visit("items", Tail(w))>>)
    PROVE  Routed'
<1>1. Roads(J) /\ Here(J) /\ work # << >> /\ "ret" # "none"
  BY DEF Under
<1>2. Held'
  BY DEF Under, Here, Held, stackVars
<1>3. PICK j : j = J[2]
  OBVIOUS
<1>4. Carried(J, Reached(succs), j)
  <2>1. CASE Then(<< >>)
    BY <1>3, <2>1 DEF Carried
  <2>2. CASE /\ w # << >>
             /\ Then(<<Visit("stmt", Head(w)), Visit("items", Tail(w))>>)
    <3> PICK a, c : a = Visit("stmt", Head(w)) /\ c = Visit("items", Tail(w))
      OBVIOUS
    <3> PICK R : R = Reached(succs)
      OBVIOUS
    <3>1. /\ a.op = "stmt" /\ a.n = Head(w) /\ a.bbs = << >>
          /\ c.op = "items" /\ c.n = Tail(w) /\ c.bbs = << >>
      BY DEF Visit
    <3>2. Wired(a) /\ Wired(c)
      <4>1. << >> \in Seq(Targets)
        OBVIOUS
      <4> QED  BY <3>1, <4>1 DEF Wired
    <3>3. /\ w \in Seq(Trees) /\ \A i \in DOMAIN w : Tidy(w[i]) /\ (w[i] \in Jumpers => j = 1)
      BY <1>3 DEF Listing
    <3>4. /\ Head(w) = w[1] /\ Tail(w) \in Seq(Trees) /\ Len(Tail(w)) = Len(w) - 1
          /\ \A i \in 1 .. Len(Tail(w)) : Tail(w)[i] = w[i + 1]
      BY <2>2, <3>3, HeadTailProperties
    <3>5. PICK m \in Nat : m = Len(w) /\ m # 0 /\ DOMAIN w = 1 .. m
      BY <2>2, <3>3, EmptySeq, LenProperties
    <3>6. PICK t : t = Tail(w)
      OBVIOUS
    <3>7. DOMAIN t = 1 .. m - 1 /\ t \in Seq(Trees) /\ \A i \in 1 .. m - 1 : t[i] = w[i + 1]
      BY <3>4, <3>5, <3>6, LenProperties
    <3>8. Listing(t, j)
      <4>1. \A i \in 1 .. m - 1 : i + 1 \in 1 .. m
        BY <3>5
      <4> QED  BY <3>3, <3>5, <3>7, <4>1 DEF Listing
    <3>9. Stating(Head(w), j)
      <4>1. 1 \in DOMAIN w
        BY <3>5
      <4>2. Tidy(Head(w)) /\ (Head(w) \in Jumpers => j = 1)
        BY <3>3, <3>4, <4>1
      <4> QED  BY <4>2, StatingTidy
    <3>10. Excuse(a, j, j, R)
      BY <3>1, <3>2, <3>9 DEF Excuse
    <3>11. Excuse(c, j, J[2], R)
      BY <1>3, <3>1, <3>2, <3>6, <3>8 DEF Excuse
    <3> QED  BY <2>2, <3>10, <3>11 DEF Carried
  <2> QED  BY <2>1, <2>2
<1>5. term' = term \/ (term[insert] = "none" /\ term' = [term EXCEPT ![insert] = "ret"])
  OBVIOUS
<1>6. term'[insert] = "none" \/ j = 1
  BY <1>3
<1>7. succs' = succs /\ insert' = insert
  OBVIOUS
<1> QED  BY ONLY <1>1, <1>2, <1>4, <1>5, <1>6, <1>7, RoadsStay

(* A block, and the items that are left of one.                            *)
LEMMA RoadsBlock ==
    ASSUME NEW J, Under(J), VisitBlock \/ NextItem
    PROVE  Routed'
<1>1. UNCHANGED <<term, succs, insert, stackVars>>
  BY DEF VisitBlock, NextItem, cfgVars
<1>2. CASE VisitBlock
  <2>1. Now.op = "stmt" /\ Now.n.k = "block"
    BY <1>2 DEF VisitBlock, AtStmt, At
  <2>2. PICK w : w = Now.n.items
    OBVIOUS
  <2>3. Stating(Now.n, J[2]) /\ term[insert] = "none"
    BY <2>1 DEF Under, Here, Excuse, Tolerates
  <2>4. Listing(w, J[2])
    BY <2>1, <2>2, <2>3 DEF Stating
  <2>5. Then(IF w = << >> THEN << >> ELSE <<Visit("stmt", Head(w)), Visit("items", Tail(w))>>)
    BY <1>2, <2>2 DEF VisitBlock
  <2>6. \/ Then(<< >>) /\ (term[insert] = "none" \/ J[2] = 1)
        \/ /\ w # << >> /\ term[insert] = "none"
           /\ Then(<<Visit("stmt", Head(w)), Visit("items", Tail(w))>>)
    <3>1. CASE w = << >>
      BY <2>3, <2>5, <3>1
    <3>2. CASE w # << >>
      BY <2>3, <2>5, <3>2
    <3> QED  BY <3>1, <3>2
  <2> QED  BY <1>1, <2>4, <2>6, RoadsList
<1>3. CASE NextItem
  <2>1. Now.op = "items"
    BY <1>3 DEF NextItem, At
  <2>2. PICK w : w = Now.n
    OBVIOUS
  <2>3. Listing(w, J[2]) /\ (J[1] = 1 => J[2] = 1) /\ (term[insert] = "none" \/ J[1] = 1)
    BY <2>1, <2>2 DEF Under, Here, Excuse
  <2>4. Then(IF w = << >> \/ Terminated(insert) THEN << >>
             ELSE <<Visit("stmt", Head(w)), Visit("items", Tail(w))>>)
    BY <1>3, <2>2 DEF NextItem
  <2>5. \/ Then(<< >>) /\ (term[insert] = "none" \/ J[2] = 1)
        \/ /\ w # << >> /\ term[insert] = "none"
           /\ Then(<<Visit("stmt", Head(w)), Visit("items", Tail(w))>>)
    <3>1. CASE w = << >> \/ Terminated(insert)
      BY <2>3, <2>4, <3>1
    <3>2. CASE ~(w = << >> \/ Terminated(insert))
      BY <2>3, <2>4, <3>2 DEF Terminated
    <3> QED  BY <3>1, <3>2
  <2> QED  BY <1>1, <2>3, <2>5, RoadsList
<1> QED  BY <1>2, <1>3

(* The insert block is left for another one.                               *)
LEMMA RoadsMove ==
    ASSUME NEW J, Under(J), Held', NEW R2, R2 = Reached(succs'), Reached(succs) \subseteq R2,
           insert' \in R2, insert' \in R2 => Edges', term[insert'] = "none", insert' # insert,
           \A b \in BB : b # insert => term'[b] = term[b],
           NEW j, Carried(J, R2, j)
    PROVE  Routed'
<1>1. insert' \in BB
  BY EntryReached
<1>2. term'[insert'] = "none"
  BY <1>1
<1>3. Roads(J) /\ work # << >> /\ Edges'
  BY DEF Under
<1> QED  BY <1>2, <1>3, RoadsTurn

(* The visits that carry no excuse.                                        *)
Bare(a) == a.bbs = << >> /\ a.op \in {"lor", "land"}

(* They need none.                                                         *)
LEMMA BareExcused ==
    ASSUME NEW a, Bare(a), NEW j, NEW k, NEW R
    PROVE  Excuse(a, j, k, R)
<1>1. << >> \in Seq(Targets)
  OBVIOUS
<1> QED  BY <1>1 DEF Bare, Excuse, Wired

(* A branch or the body of a loop leaves its block open unless it jumps.   *)
LEMMA StmtExcused ==
    ASSUME NEW x, Tidy(x), NEW j, NEW R
    PROVE  \E k : Excuse(Visit("stmt", x), j, k, R) /\ (k = 1 => x \in Jumpers)
<1>1. PICK k : k = IF x \in Jumpers THEN 1 ELSE 0
  OBVIOUS
<1>2. PICK a : a = Visit("stmt", x)
  OBVIOUS
<1>3. a.op = "stmt" /\ a.n = x /\ a.bbs = << >>
  BY <1>2 DEF Visit
<1>4. << >> \in Seq(Targets)
  OBVIOUS
<1>5. Stating(x, k)
  BY <1>1, StatingTidy
<1>6. Excuse(a, j, k, R)
  BY <1>3, <1>4, <1>5 DEF Excuse, Wired
<1>7. k = 1 => x \in Jumpers
  BY <1>1
<1> QED  BY <1>2, <1>6, <1>7

(* Three blocks are made.                                                  *)
LEMMA NewBlocks ==
    ASSUME NEW J, Here(J), NEW n, n = count, n + 3 <= MaxBlocks
    PROVE  /\ n + 1 \in Targets /\ n + 2 \in Targets /\ n + 3 \in Targets
           /\ <<n + 1, n + 2, n + 3>> \in Seq(Targets) /\ Len(<<n + 1, n + 2, n + 3>>) = 3
           /\ n + 1 # insert /\ term[n + 1] = "none"
<1>1. /\ n \in Nat /\ 1 <= n /\ MaxBlocks \in Nat
      /\ \A b \in BB : b > n => b # insert /\ term[b] = "none"
  BY DEF Here
<1>2. n + 1 \in Targets /\ n + 2 \in Targets /\ n + 3 \in Targets
  BY <1>1 DEF Targets
<1>3. n + 1 \in BB /\ n + 1 > n
  BY <1>1 DEF BB
<1> QED  BY <1>1, <1>2, <1>3

(* SelectionStmt makes its blocks.                                         *)
LEMMA RoadsIf ==
    ASSUME NEW J, Under(J), VisitIf
    PROVE  Routed'
<1>1. Now.op = "stmt" /\ Now.n.k = "if"
  BY DEF VisitIf, AtStmt, At
<1>2. PICK x, n : x = Now.n /\ n = count
  OBVIOUS
<1>3. PICK bbs : bbs = <<n + 1, n + 2, n + 3>>
  OBVIOUS
<1>4. /\ n + 3 <= MaxBlocks /\ UNCHANGED <<term, succs, insert, loopStack>>
      /\ trueStack' = Append(trueStack, bbs[1]) /\ falseStack' = Append(falseStack, bbs[2])
      /\ Then(<<Visit("lor", x.c), Resume("ifBranch", x, bbs)>>)
  BY <1>2, <1>3 DEF VisitIf, cfgVars
<1>5. Roads(J) /\ Here(J) /\ work # << >> /\ "ret" # "none"
  BY DEF Under
<1>6. /\ bbs \in Seq(Targets) /\ Len(bbs) = 3
      /\ bbs[1] \in Targets /\ bbs[2] \in Targets
  <2>1. bbs \in Seq(Targets) /\ Len(bbs) = 3
    BY <1>2, <1>3, <1>4, <1>5, NewBlocks
  <2> QED  BY <2>1, Ends3
<1>7. Held'
  BY <1>4, <1>5, <1>6, AppendProperties DEF Here, Held
<1>8. TidyIf(x)
  <2>1. Stating(x, J[2])
    BY <1>1, <1>2, <1>5 DEF Here, Excuse
  <2>2. Tidy(x)
    BY <1>1, <1>2, <2>1 DEF Stating
  <2> QED  BY <1>1, <1>2, <2>2, TidyParts
<1>9. PICK a, c : a = Visit("lor", x.c) /\ c = Resume("ifBranch", x, bbs)
  OBVIOUS
<1>10. Bare(a) /\ c.op = "ifBranch" /\ c.n = x /\ c.bbs = bbs
  BY <1>9 DEF Bare, Visit, Resume
<1>11. PICK j : j = 0
  OBVIOUS
<1>12. PICK R : R = Reached(succs)
  OBVIOUS
<1>13. Excuse(a, j, 0, R)
  BY <1>10, BareExcused
<1>14. Excuse(c, 0, J[2], R)
  BY <1>6, <1>8, <1>10 DEF Excuse, Wired
<1>15. Carried(J, Reached(succs), j)
  BY <1>4, <1>9, <1>12, <1>13, <1>14 DEF Carried
<1>16. term[insert] = "none"
  BY <1>1, <1>5 DEF Here, Tolerates
<1>17. /\ succs' = succs /\ insert' = insert
       /\ term' = term \/ (term[insert] = "none" /\ term' = [term EXCEPT ![insert] = "ret"])
       /\ term'[insert] = "none" \/ j = 1
  BY <1>4, <1>16
<1> QED  BY ONLY <1>5, <1>7, <1>15, <1>17, RoadsStay

(* The branch on the condition reaches both.                               *)
LEMMA RoadsIfBranch ==
    ASSUME NEW J, Under(J), IfBranch
    PROVE  Routed'
<1>1. Now.op = "ifBranch" /\ 1 \in Turns("ifBranch")
  BY DEF IfBranch, At, Turns
<1>2. PICK x : x = Now.n
  OBVIOUS
<1>3. PICK bbs : bbs = Now.bbs
  OBVIOUS
<1>4. Here(J) /\ Roads(J) /\ work # << >> /\ Stocked
  BY DEF Under
<1>5. bbs \in Seq(Targets) /\ Len(bbs) = 3 /\ TidyIf(x) /\ term[insert] = "none"
  BY <1>1, <1>2, <1>3, <1>4 DEF Here, Excuse, Wired, Tolerates
<1>6. bbs[1] \in Targets /\ bbs[2] \in Targets /\ bbs[3] \in Targets
  BY <1>5, Ends3
<1>7. PICK T : T = SubSeq(bbs, 1, 2)
  OBVIOUS
<1>8. T \in Seq(Targets) /\ Len(T) = 2 /\ T[1] = bbs[1] /\ T[2] = bbs[2]
  <2>1. \A i \in 1 .. 2 : bbs[i] \in Targets
    <3>1. \A i \in 1 .. 2 : i = 1 \/ i = 2
      OBVIOUS
    <3> QED  BY <1>6, <3>1
  <2>2. /\ SubSeq(bbs, 1, 2) \in Seq(Targets)
        /\ Len(SubSeq(bbs, 1, 2)) = (IF 1 <= 2 THEN 2 - 1 + 1 ELSE 0)
        /\ \A i \in 1 .. 2 - 1 + 1 : SubSeq(bbs, 1, 2)[i] = bbs[1 + i - 1]
    BY <2>1, SubSeqProperties
  <2> QED  BY <1>7, <2>2
<1>9. /\ trueStack' = Front(trueStack) /\ falseStack' = Front(falseStack) /\ loopStack' = loopStack
      /\ Terminate(insert, "br", T) /\ insert' = bbs[1]
      /\ Then(<<Visit("stmt", x.s), Resume("ifElse", x, bbs)>>)
  BY <1>2, <1>3, <1>7 DEF IfBranch
<1>10. Held'
  BY <1>1, <1>4, <1>9, Popped DEF Here, Held, Stocked
<1>11. PICK R2 : R2 = Reached(succs')
  OBVIOUS
<1>12. Reached(succs) \subseteq R2 /\ bbs[1] \in R2 /\ bbs[2] \in R2
  <2>1. Len(T) <= 2 /\ 1 \in 1 .. Len(T) /\ 2 \in 1 .. Len(T)
    BY <1>8
  <2>2. Reached(succs) \subseteq R2 /\ \A i \in 1 .. Len(T) : T[i] \in R2
    BY <1>4, <1>5, <1>8, <1>9, <1>11, <2>1, BranchReaches
  <2> QED  BY <1>8, <2>1, <2>2
<1>13. PICK j : j = 0
  OBVIOUS
<1>14. PICK a, c : a = Visit("stmt", x.s) /\ c = Resume("ifElse", x, bbs)
  OBVIOUS
<1>15. PICK k : Excuse(a, j, k, R2) /\ (k = 1 => x.s \in Jumpers)
  BY <1>5, <1>14, StmtExcused DEF TidyIf
<1>16. Excuse(c, k, J[2], R2)
  <2>1. c.op = "ifElse" /\ c.n = x /\ c.bbs = bbs
    BY <1>14 DEF Resume
  <2> QED  BY <1>5, <1>12, <1>15, <2>1 DEF Excuse, Wired
<1>17. Carried(J, R2, j)
  BY <1>9, <1>14, <1>15, <1>16 DEF Carried
<1>18. insert' # insert /\ term[insert'] = "none"
  <2>1. bbs[1] \in Future(Now)
    BY <1>1, <1>3 DEF Future
  <2> QED  BY <1>4, <1>9, <2>1 DEF Here
<1>19. Len(T) <= 2 /\ insert' \in R2 /\ (j = 1 \/ (insert' # insert /\ term[insert'] = "none"))
  BY <1>8, <1>9, <1>12, <1>18
<1> QED  BY ONLY <1>4, <1>5, <1>8, <1>9, <1>10, <1>11, <1>17, <1>19, RoadsBranch

(* The merge block is reached from the first branch unless that jumps,     *)
LEMMA RoadsIfElse ==
    ASSUME NEW J, Under(J), IfElse
    PROVE  Routed'
<1>1. Now.op = "ifElse" /\ 2 \in Turns("ifElse")
  BY DEF IfElse, At, Turns
<1>2. PICK x : x = Now.n
  OBVIOUS
<1>3. PICK bbs : bbs = Now.bbs
  OBVIOUS
<1>4. Here(J)
  BY DEF Under
<1>5. /\ bbs \in Seq(Targets) /\ Len(bbs) = 3 /\ TidyIf(x) /\ bbs[2] \in Reached(succs)
      /\ J[1] = 1 => x.s \in Jumpers
      /\ term[insert] = "none" \/ J[1] = 1
  BY <1>1, <1>2, <1>3, <1>4 DEF Here, Excuse, Wired
<1>6. bbs[3] \in Targets
  BY <1>5, Ends3
<1>7. /\ BrUnlessTerminated(insert, bbs[3]) /\ insert' = bbs[2] /\ UNCHANGED stackVars
      /\ Then(IF x.e = None THEN <<Resume("ifMerge", x, bbs)>>
              ELSE <<Visit("stmt", x.e), Resume("ifMerge", x, bbs)>>)
  BY <1>2, <1>3 DEF IfElse
<1>8. Held'
  BY <1>4, <1>7 DEF Here, Held, stackVars
<1>9. PICK R2 : R2 = Reached(succs')
  OBVIOUS
<1>10. PICK b3 : b3 = bbs[3]
  OBVIOUS
<1>11. /\ Reached(succs) \subseteq R2 /\ (term[insert] # "none" \/ b3 \in R2)
       /\ insert' \in R2 => Edges'
       /\ \A b \in BB : b # insert => term'[b] = term[b]
  <2>1. b3 \in Targets /\ BrUnlessTerminated(insert, b3)
    BY <1>6, <1>7, <1>10
  <2> QED  BY ONLY <1>4, <1>9, <2>1, CloseReaches
<1>12. PICK j : j = 0
  OBVIOUS
<1>13. PICK a, c : a = Visit("stmt", x.e) /\ c = Resume("ifMerge", x, bbs)
  OBVIOUS
<1>14. PICK k : Excuse(a, j, k, R2) /\ (k = 1 => x.e \in Jumpers)
  BY <1>5, <1>13, StmtExcused DEF TidyIf
<1>15. c.op = "ifMerge" /\ c.n = x /\ c.bbs = bbs
  BY <1>13 DEF Resume
<1>16. Excuse(c, k, J[2], R2)
  BY <1>5, <1>10, <1>11, <1>14, <1>15 DEF Excuse, Wired
<1>17. Excuse(c, j, J[2], R2)
  BY <1>5, <1>10, <1>11, <1>12, <1>15 DEF Excuse, Wired
<1>18. Carried(J, R2, j)
  <2>1. CASE x.e = None
    <3>1. Then(<<c>>)
      BY <1>7, <1>13, <2>1
    <3> QED  BY <1>17, <3>1 DEF Carried
  <2>2. CASE x.e # None
    <3>1. Then(<<a, c>>)
      BY <1>7, <1>13, <2>2
    <3> QED  BY <1>14, <1>16, <3>1 DEF Carried
  <2> QED  BY <2>1, <2>2
<1>19. insert' \in R2 /\ insert' # insert /\ term[insert'] = "none"
  <2>1. bbs[2] \in Future(Now)
    BY <1>1, <1>3 DEF Future
  <2> QED  BY <1>4, <1>5, <1>7, <1>11, <2>1 DEF Here
<1>20. Under(J)
  OBVIOUS
<1> QED  BY ONLY <1>8, <1>9, <1>11, <1>18, <1>19, <1>20, RoadsMove

(* or from the second one: not both jump.                                  *)
LEMMA RoadsIfMerge ==
    ASSUME NEW J, Under(J), IfMerge
    PROVE  Routed'
<1>1. Now.op = "ifMerge" /\ 3 \in Turns("ifMerge")
  BY DEF IfMerge, At, Turns
<1>2. PICK x, bbs : x = Now.n /\ bbs = Now.bbs
  OBVIOUS
<1>3. PICK b3 : b3 = bbs[3]
  OBVIOUS
<1>4. Here(J)
  BY DEF Under
<1>5. /\ b3 \in Targets /\ TidyIf(x) /\ (b3 \in Reached(succs) \/ x.s \in Jumpers)
      /\ J[1] = 1 => x.e \in Jumpers
      /\ term[insert] = "none" \/ J[1] = 1
  <2>1. bbs \in Seq(Targets) /\ Len(bbs) = 3
    BY <1>1, <1>2, <1>4 DEF Here, Wired
  <2> QED  BY <1>1, <1>2, <1>3, <1>4, <2>1, Ends3 DEF Here, Excuse
<1>6. insert' = b3 /\ UNCHANGED stackVars /\ Then(<< >>)
  BY <1>2, <1>3 DEF IfMerge
<1>7. BrUnlessTerminated(insert, b3)
  <2>1. CASE x.e = None
    <3>1. term[insert] = "none"
      BY <1>1, <1>2, <1>4, <2>1 DEF Here, Tolerates
    <3>2. Terminate(insert, "br", <<b3>>)
      BY <1>2, <1>3, <2>1 DEF IfMerge
    <3> QED  BY <3>1, <3>2 DEF BrUnlessTerminated, Terminated
  <2>2. CASE x.e # None
    BY <1>2, <1>3, <2>2 DEF IfMerge
  <2> QED  BY <2>1, <2>2
<1>8. Held'
  BY <1>4, <1>6 DEF Here, Held, stackVars
<1>9. PICK R2 : R2 = Reached(succs')
  OBVIOUS
<1>10. /\ Reached(succs) \subseteq R2 /\ (term[insert] # "none" \/ b3 \in R2)
       /\ insert' \in R2 => Edges'
       /\ \A b \in BB : b # insert => term'[b] = term[b]
  BY ONLY <1>4, <1>5, <1>7, <1>9, CloseReaches
<1>11. b3 \in R2
  BY <1>5, <1>10 DEF TidyIf
<1>12. PICK j : j = J[2]
  OBVIOUS
<1>13. Carried(J, R2, j)
  BY <1>6, <1>12 DEF Carried
<1>14. insert' \in R2 /\ insert' # insert /\ term[insert'] = "none"
  <2>1. b3 \in Future(Now)
    BY <1>1, <1>2, <1>3 DEF Future
  <2> QED  BY <1>4, <1>6, <1>11, <2>1 DEF Here
<1>15. Under(J)
  OBVIOUS
<1> QED  BY ONLY <1>8, <1>9, <1>10, <1>13, <1>14, <1>15, RoadsMove

(* A loop's test block is branched to at once,                             *)
LEMMA RoadsWhile ==
    ASSUME NEW J, Under(J), VisitWhile
    PROVE  Routed'
<1>1. Now.op = "stmt" /\ Now.n.k = "while"
  BY DEF VisitWhile, AtStmt, At
<1>2. PICK x, n : x = Now.n /\ n = count
  OBVIOUS
<1>3. PICK bbs : bbs = <<n + 1, n + 2, n + 3>>
  OBVIOUS
<1>4. /\ n + 3 <= MaxBlocks /\ Terminate(insert, "br", <<bbs[1]>>) /\ insert' = bbs[1]
      /\ loopStack' = Append(loopStack, [trueBB |-> bbs[1], falseBB |-> bbs[3]])
      /\ trueStack' = Append(trueStack, bbs[2]) /\ falseStack' = Append(falseStack, bbs[3])
      /\ Then(<<Visit("lor", x.c), Resume("whileBranch", x, bbs)>>)
  BY <1>2, <1>3 DEF VisitWhile
<1>5. Here(J) /\ Under(J)
  BY DEF Under
<1>6. /\ bbs \in Seq(Targets) /\ Len(bbs) = 3
      /\ bbs[1] \in Targets /\ bbs[2] \in Targets /\ bbs[3] \in Targets
      /\ insert' # insert /\ term[insert'] = "none"
  <2>1. /\ bbs \in Seq(Targets) /\ Len(bbs) = 3 /\ n + 1 # insert /\ term[n + 1] = "none"
    BY <1>2, <1>3, <1>4, <1>5, NewBlocks
  <2>2. insert' = n + 1
    BY <1>3, <1>4
  <2> QED  BY <2>1, <2>2, Ends3
<1>7. Held'
  <2>1. [trueBB |-> bbs[1], falseBB |-> bbs[3]] \in [trueBB : Targets, falseBB : Targets]
    BY <1>6
  <2> QED  BY <1>4, <1>5, <1>6, <2>1, AppendProperties DEF Here, Held
<1>8. Tidy(x.s)
  <2>1. Stating(x, J[2])
    BY <1>1, <1>2, <1>5 DEF Here, Excuse
  <2>2. Tidy(x)
    BY <1>1, <1>2, <2>1 DEF Stating
  <2> QED  BY <1>1, <1>2, <2>2, TidyParts
<1>9. term[insert] = "none"
  BY <1>1, <1>5 DEF Here, Tolerates
<1>10. PICK b1 : b1 = bbs[1]
  OBVIOUS
<1>11. PICK R2 : R2 = Reached(succs')
  OBVIOUS
<1>12. /\ Reached(succs) \subseteq R2 /\ b1 \in R2
       /\ insert' \in R2 => Edges'
       /\ \A b \in BB : b # insert => term'[b] = term[b]
  <2>1. b1 \in Targets /\ BrUnlessTerminated(insert, b1)
    BY <1>4, <1>6, <1>9, <1>10 DEF BrUnlessTerminated, Terminated
  <2>2. /\ Reached(succs) \subseteq R2 /\ (term[insert] # "none" \/ b1 \in R2)
        /\ insert' \in R2 => Edges'
        /\ \A b \in BB : b # insert => term'[b] = term[b]
    BY ONLY <1>5, <1>11, <2>1, CloseReaches
  <2> QED  BY <1>9, <2>2
<1>13. PICK a, c : a = Visit("lor", x.c) /\ c = Resume("whileBranch", x, bbs)
  OBVIOUS
<1>14. Bare(a) /\ c.op = "whileBranch" /\ c.n = x /\ c.bbs = bbs
  BY <1>13 DEF Bare, Visit, Resume
<1>15. PICK j : j = 0
  OBVIOUS
<1>16. Excuse(a, j, 0, R2)
  BY <1>14, BareExcused
<1>17. Excuse(c, 0, J[2], R2)
  BY <1>6, <1>8, <1>14 DEF Excuse, Wired
<1>18. Carried(J, R2, j)
  BY <1>4, <1>13, <1>16, <1>17 DEF Carried
<1>19. insert' \in R2
  BY <1>4, <1>10, <1>12
<1> QED  BY ONLY <1>5, <1>6, <1>7, <1>11, <1>12, <1>18, <1>19, RoadsMove

(* its body and what follows by the test,                                  *)
LEMMA RoadsWhileBranch ==
    ASSUME NEW J, Under(J), WhileBranch
    PROVE  Routed'
<1>1. Now.op = "whileBranch" /\ 2 \in Turns("whileBranch")
  BY DEF WhileBranch, At, Turns
<1>2. PICK x : x = Now.n
  OBVIOUS
<1>3. PICK bbs : bbs = Now.bbs
  OBVIOUS
<1>4. Here(J) /\ Roads(J) /\ work # << >> /\ Stocked
  BY DEF Under
<1>5. bbs \in Seq(Targets) /\ Len(bbs) = 3 /\ Tidy(x.s) /\ term[insert] = "none"
  BY <1>1, <1>2, <1>3, <1>4 DEF Here, Excuse, Wired, Tolerates
<1>6. bbs[1] \in Targets /\ bbs[2] \in Targets /\ bbs[3] \in Targets
  BY <1>5, Ends3
<1>7. PICK T : T = SubSeq(bbs, 2, 3)
  OBVIOUS
<1>8. T \in Seq(Targets) /\ Len(T) = 2 /\ T[1] = bbs[2] /\ T[2] = bbs[3]
  <2>1. \A i \in 2 .. 3 : bbs[i] \in Targets
    <3>1. \A i \in 2 .. 3 : i = 2 \/ i = 3
      OBVIOUS
    <3> QED  BY <1>6, <3>1
  <2>2. /\ SubSeq(bbs, 2, 3) \in Seq(Targets)
        /\ Len(SubSeq(bbs, 2, 3)) = (IF 2 <= 3 THEN 3 - 2 + 1 ELSE 0)
        /\ \A i \in 1 .. 3 - 2 + 1 : SubSeq(bbs, 2, 3)[i] = bbs[2 + i - 1]
    BY <2>1, SubSeqProperties
  <2> QED  BY <1>7, <2>2
<1>9. /\ trueStack' = Front(trueStack) /\ falseStack' = Front(falseStack) /\ loopStack' = loopStack
      /\ Terminate(insert, "br", T) /\ insert' = bbs[2]
      /\ Then(<<Visit("stmt", x.s), Resume("whileEnd", x, bbs)>>)
  BY <1>2, <1>3, <1>7 DEF WhileBranch
<1>10. Held'
  BY <1>1, <1>4, <1>9, Popped DEF Here, Held, Stocked
<1>11. PICK R2 : R2 = Reached(succs')
  OBVIOUS
<1>12. Reached(succs) \subseteq R2 /\ bbs[2] \in R2 /\ bbs[3] \in R2
  <2>1. Len(T) <= 2 /\ 1 \in 1 .. Len(T) /\ 2 \in 1 .. Len(T)
    BY <1>8
  <2>2. Reached(succs) \subseteq R2 /\ \A i \in 1 .. Len(T) : T[i] \in R2
    BY <1>4, <1>5, <1>8, <1>9, <1>11, <2>1, BranchReaches
  <2> QED  BY <1>8, <2>1, <2>2
<1>13. PICK j : j = 0
  OBVIOUS
<1>14. PICK a, c : a = Visit("stmt", x.s) /\ c = Resume("whileEnd", x, bbs)
  OBVIOUS
<1>15. PICK k : Excuse(a, j, k, R2)
  BY <1>5, <1>14, StmtExcused
<1>16. Excuse(c, k, J[2], R2)
  <2>1. c.op = "whileEnd" /\ c.bbs = bbs
    BY <1>14 DEF Resume
  <2> QED  BY <1>5, <1>12, <2>1 DEF Excuse, Wired
<1>17. Carried(J, R2, j)
  BY <1>9, <1>14, <1>15, <1>16 DEF Carried
<1>18. insert' # insert /\ term[insert'] = "none"
  <2>1. bbs[2] \in Future(Now)
    BY <1>1, <1>3 DEF Future
  <2> QED  BY <1>4, <1>9, <2>1 DEF Here
<1>19. Len(T) <= 2 /\ insert' \in R2 /\ (j = 1 \/ (insert' # insert /\ term[insert'] = "none"))
  BY <1>8, <1>9, <1>12, <1>18
<1> QED  BY ONLY <1>4, <1>5, <1>8, <1>9, <1>10, <1>11, <1>17, <1>19, RoadsBranch

(* so that what follows is reached whatever the body does.                 *)
LEMMA RoadsWhileEnd ==
    ASSUME NEW J, Under(J), WhileEnd
    PROVE  Routed'
<1>1. Now.op = "whileEnd" /\ 3 \in Turns("whileEnd")
  BY DEF WhileEnd, At, Turns
<1>2. PICK b1, b3 : b1 = Now.bbs[1] /\ b3 = Now.bbs[3]
  OBVIOUS
<1>3. Here(J) /\ Under(J) /\ Stocked
  BY DEF Under
<1>4. b1 \in Targets /\ b3 \in Reached(succs)
  <2>1. Now.bbs \in Seq(Targets) /\ Len(Now.bbs) = 3
    BY <1>1, <1>3 DEF Here, Wired
  <2> QED  BY <1>1, <1>2, <1>3, <2>1, Ends3 DEF Here, Excuse
<1>5. /\ BrUnlessTerminated(insert, b1) /\ insert' = b3 /\ loopStack' = Front(loopStack)
      /\ Then(<< >>) /\ UNCHANGED <<trueStack, falseStack>>
  BY <1>2 DEF WhileEnd
<1>6. Held'
  BY <1>1, <1>3, <1>5, Popped DEF Here, Held, Stocked
<1>7. PICK R2 : R2 = Reached(succs')
  OBVIOUS
<1>8. /\ Reached(succs) \subseteq R2
      /\ insert' \in R2 => Edges'
      /\ \A b \in BB : b # insert => term'[b] = term[b]
  BY ONLY <1>3, <1>4, <1>5, <1>7, CloseReaches
<1>9. PICK j : j = J[2]
  OBVIOUS
<1>10. Carried(J, R2, j)
  BY <1>5, <1>9 DEF Carried
<1>11. insert' \in R2 /\ insert' # insert /\ term[insert'] = "none"
  <2>1. b3 \in Future(Now)
    BY <1>1, <1>2 DEF Future
  <2> QED  BY <1>3, <1>4, <1>5, <1>8, <2>1 DEF Here
<1> QED  BY ONLY <1>3, <1>6, <1>7, <1>8, <1>10, <1>11, RoadsMove

-----------------------------------------------------------------------------
(* A condition is taken apart.                                             *)
Splits(a, c) ==
    /\ ~Tolerates(Now) /\ Bare(a) /\ c.op \in {"lorRight", "landRight"} /\ c.bbs = <<count + 1>>
    /\ UNCHANGED <<term, succs, insert, trueStack, loopStack>>
    /\ \/ falseStack' = falseStack
       \/ falseStack' = Append(falseStack, count + 1) /\ count < MaxBlocks
    /\ \/ Then(<< >>)
       \/ Then(<<a>>)
       \/ Then(<<a, c>>) /\ count < MaxBlocks

(* The block a condition makes is branched to when its right side comes.   *)
LEMMA RoadsSplit ==
    ASSUME NEW J, Under(J), NEW a, NEW c, Splits(a, c)
    PROVE  Routed'
<1>1. Roads(J) /\ Here(J) /\ work # << >> /\ "ret" # "none"
  BY DEF Under
<1>2. count < MaxBlocks => count + 1 \in Targets
  BY <1>1 DEF Here, Targets
<1>3. Held'
  <2>1. CASE falseStack' = falseStack
    BY <1>1, <2>1 DEF Here, Held, Splits
  <2>2. CASE falseStack' = Append(falseStack, count + 1) /\ count < MaxBlocks
    BY <1>1, <1>2, <2>2, AppendProperties DEF Here, Held, Splits
  <2> QED  BY <2>1, <2>2 DEF Splits
<1>4. PICK j : j = J[2]
  OBVIOUS
<1>5. PICK R : R = Reached(succs)
  OBVIOUS
<1>6. Excuse(a, j, j, R)
  BY BareExcused DEF Splits
<1>7. count < MaxBlocks => Excuse(c, j, J[2], R)
  <2> SUFFICES ASSUME count < MaxBlocks PROVE Excuse(c, j, J[2], R)
    OBVIOUS
  <2>1. c.bbs \in Seq(Targets) /\ Len(c.bbs) = 1
    BY <1>2, Ways DEF Splits
  <2> QED  BY <2>1 DEF Excuse, Wired, Splits
<1>8. Carried(J, Reached(succs), j)
  <2>1. CASE Then(<< >>)
    BY <1>4, <2>1 DEF Carried
  <2>2. CASE Then(<<a>>)
    BY <1>4, <1>5, <1>6, <2>2 DEF Carried
  <2>3. CASE Then(<<a, c>>) /\ count < MaxBlocks
    BY <1>5, <1>6, <1>7, <2>3 DEF Carried
  <2> QED  BY <2>1, <2>2, <2>3 DEF Splits
<1>9. term[insert] = "none"
  BY <1>1 DEF Here, Splits
<1>10. /\ succs' = succs /\ insert' = insert
       /\ term' = term \/ (term[insert] = "none" /\ term' = [term EXCEPT ![insert] = "ret"])
       /\ term'[insert] = "none" \/ j = 1
  BY <1>9 DEF Splits
<1> QED  BY ONLY <1>1, <1>3, <1>8, <1>10, RoadsStay

(* || with and without an operator, and &&.                                *)
LEMMA RoadsOr ==
    ASSUME NEW J, Under(J), VisitLOr
    PROVE  Routed'
<1>1. ~Tolerates(Now)
  BY DEF VisitLOr, At, Tolerates
<1>2. UNCHANGED <<term, succs, insert, trueStack, loopStack>>
  BY DEF VisitLOr, cfgVars
<1>3. CASE Len(Now.n) = 1
  <2>1. PICK a, c : a = Visit("land", Now.n[1]) /\ c = Resume("lorRight", Last(Now.n), <<count + 1>>)
    OBVIOUS
  <2>2. Bare(a) /\ c.op \in {"lorRight", "landRight"} /\ c.bbs = <<count + 1>>
    BY <2>1 DEF Bare, Visit, Resume
  <2>3. Then(<<a>>) /\ falseStack' = falseStack
    BY <1>3, <2>1 DEF VisitLOr
  <2>4. Splits(a, c)
    BY <1>1, <1>2, <2>2, <2>3 DEF Splits
  <2> QED  BY <2>4, RoadsSplit
<1>4. CASE Len(Now.n) # 1
  <2>1. PICK a, c : a = Visit("lor", Front(Now.n)) /\ c = Resume("lorRight", Last(Now.n), <<count + 1>>)
    OBVIOUS
  <2>2. Bare(a) /\ c.op \in {"lorRight", "landRight"} /\ c.bbs = <<count + 1>>
    BY <2>1 DEF Bare, Visit, Resume
  <2>3. Then(<<a, c>>) /\ count < MaxBlocks /\ falseStack' = Append(falseStack, count + 1)
    BY <1>4, <2>1 DEF VisitLOr
  <2>4. Splits(a, c)
    BY <1>1, <1>2, <2>2, <2>3 DEF Splits
  <2> QED  BY <2>4, RoadsSplit
<1> QED  BY <1>3, <1>4

(* && goes on likewise.                                                    *)
LEMMA RoadsAnd ==
    ASSUME NEW J, Under(J), VisitLAnd
    PROVE  Routed'
<1>1. ~Tolerates(Now)
  BY DEF VisitLAnd, At, Tolerates
<1>2. PICK a, c : a = Visit("land", Front(Now.n)) /\ c = Resume("landRight", <<Last(Now.n)>>, <<count + 1>>)
  OBVIOUS
<1>3. Bare(a) /\ c.op \in {"lorRight", "landRight"} /\ c.bbs = <<count + 1>>
  BY <1>2 DEF Bare, Visit, Resume
<1>4. UNCHANGED <<insert, trueStack, falseStack, loopStack>>
  BY DEF VisitLAnd, stackVars
<1>5. CASE Len(Now.n) = 1
  <2>1. Then(<< >>) /\ UNCHANGED <<term, succs>>
    BY <1>5 DEF VisitLAnd, Emit
  <2>2. Splits(a, c)
    BY <1>1, <1>3, <1>4, <2>1 DEF Splits
  <2> QED  BY <2>2, RoadsSplit
<1>6. CASE Len(Now.n) # 1
  <2>1. Then(<<a, c>>) /\ count < MaxBlocks /\ UNCHANGED <<term, succs>>
    BY <1>2, <1>6 DEF VisitLAnd, cfgVars
  <2>2. Splits(a, c)
    BY <1>1, <1>3, <1>4, <2>1 DEF Splits
  <2> QED  BY <2>2, RoadsSplit
<1> QED  BY <1>5, <1>6

(* The right side of || or &&.                                             *)
LEMMA RoadsRight ==
    ASSUME NEW J, Under(J), LOrRight \/ LAndRight
    PROVE  Routed'
<1>1. /\ Now.op \in {"lorRight", "landRight"} /\ 1 \in Turns(Now.op) /\ ~Tolerates(Now)
  BY DEF LOrRight, LAndRight, At, Turns, Tolerates
<1>2. PICK b1 : b1 = Now.bbs[1]
  OBVIOUS
<1>3. Here(J) /\ Roads(J) /\ work # << >> /\ Stocked
  BY DEF Under
<1>4. b1 \in Targets /\ term[insert] = "none"
  <2>1. Now.bbs \in Seq(Targets) /\ Len(Now.bbs) = 1
    BY <1>1, <1>3 DEF Here, Wired
  <2>2. 1 \in 1 .. Len(Now.bbs)
    BY <2>1
  <2> QED  BY <1>1, <1>2, <1>3, <2>1, <2>2, ElementOfSeq DEF Here
<1>5. PICK T : /\ T \in Seq(Targets) /\ Len(T) = 2 /\ (T[1] = b1 \/ T[2] = b1)
               /\ Terminate(insert, "br", T)
  <2>1. CASE LOrRight
    <3>1. Last(trueStack) \in Targets
      <4>1. Now.op = "lorRight"
        BY <2>1 DEF LOrRight, At
      <4> QED  BY <1>3, <4>1, Popped DEF Stocked, Here, Held
    <3>2. Terminate(insert, "br", <<Last(trueStack), b1>>)
      BY <1>2, <2>1 DEF LOrRight
    <3> QED  BY <1>4, <3>1, <3>2, Ways
  <2>2. CASE LAndRight
    <3>1. Last(falseStack) \in Targets
      <4>1. Now.op = "landRight"
        BY <2>2 DEF LAndRight, At
      <4> QED  BY <1>3, <4>1, Popped DEF Stocked, Here, Held
    <3>2. Terminate(insert, "br", <<b1, Last(falseStack)>>)
      BY <1>2, <2>2 DEF LAndRight
    <3> QED  BY <1>4, <3>1, <3>2, Ways
  <2> QED  BY <2>1, <2>2
<1>6. insert' = b1 /\ Then(<<Visit("land", Now.n)>>) /\ UNCHANGED <<trueStack, loopStack>>
  BY <1>2 DEF LOrRight, LAndRight, stackVars
<1>7. Held'
  <2>1. CASE LOrRight
    <3>1. Now.op = "lorRight" /\ falseStack' = Front(falseStack)
      BY <2>1 DEF LOrRight, At
    <3> QED  BY <1>3, <1>6, <3>1, Popped DEF Stocked, Here, Held
  <2>2. CASE LAndRight
    BY <1>3, <1>6, <2>2 DEF LAndRight, stackVars, Here, Held
  <2> QED  BY <2>1, <2>2
<1>8. PICK R2 : R2 = Reached(succs')
  OBVIOUS
<1>9. Len(T) <= 2 /\ 1 \in 1 .. Len(T) /\ 2 \in 1 .. Len(T)
  BY <1>5
<1>10. b1 \in R2
  <2>1. \A i \in 1 .. Len(T) : T[i] \in R2
    BY <1>3, <1>4, <1>5, <1>8, <1>9, BranchReaches
  <2> QED  BY <1>5, <1>9, <2>1
<1>11. PICK j : j = J[2]
  OBVIOUS
<1>12. PICK a : a = Visit("land", Now.n)
  OBVIOUS
<1>13. Carried(J, R2, j)
  <2>1. Bare(a)
    BY <1>12 DEF Bare, Visit
  <2>2. Excuse(a, j, J[2], R2)
    BY <2>1, BareExcused
  <2> QED  BY <1>6, <1>12, <2>2 DEF Carried
<1>14. insert' # insert /\ term[insert'] = "none"
  <2>1. b1 \in Future(Now)
    BY <1>1, <1>2 DEF Future
  <2> QED  BY <1>3, <1>6, <2>1 DEF Here
<1>15. insert' \in R2 /\ (j = 1 \/ (insert' # insert /\ term[insert'] = "none"))
  BY <1>6, <1>10, <1>14
<1> QED  BY ONLY <1>3, <1>4, <1>5, <1>7, <1>8, <1>9, <1>13, <1>15, RoadsBranch

-----------------------------------------------------------------------------
(* The function is done.                                                   *)
LEMMA RoadsFinish ==
    ASSUME BlockInv, Routed, FinishFunction
    PROVE  Edges'
<1>1. PICK J : Roads(J)
  BY DEF Routed
<1>2. status = "lower" /\ insert' = insert
  BY DEF FinishFunction
<1>3. Edges /\ insert \in BB /\ term \in [BB -> {"none", "br", "ret"}] /\ "ret" # "none"
  <2>1. Edges
    BY <1>1 DEF Roads
  <2>2. insert \in BB
    BY <2>1, EntryReached DEF Edges
  <2> QED  BY <1>2, <2>1, <2>2 DEF BlockInv, Blocks
<1>4. CASE Terminated(insert)
  <2>1. term' = term /\ succs' = succs
    BY <1>4 DEF FinishFunction, cfgVars
  <2>2. insert' \in Reached(succs)
    BY <1>2, <1>3 DEF Edges
  <2> QED  BY <1>3, <2>1, <2>2, EdgesSame
<1>5. CASE ~Terminated(insert)
  <2>1. Terminate(insert, "ret", << >>) /\ term[insert] = "none"
    BY <1>5 DEF FinishFunction, Terminated
  <2>2. << >> \in Seq(Targets) /\ Len(<< >>) <= 2
    OBVIOUS
  <2>3. /\ Reached(succs) \subseteq Reached(succs')
        /\ insert' \in Reached(succs') => Edges'
    BY <1>3, <2>1, <2>2, EdgesBranch
  <2> QED  BY <1>2, <1>3, <2>3 DEF Edges
<1> QED  BY <1>4, <1>5

(* Every visit keeps it so.                                                *)
LEMMA RoutedLower ==
    ASSUME BlockInv, Simulated, Routed, Lower, status = "lower"
    PROVE  IF status' = "lower" THEN Routed' ELSE Edges'
<1>1. CASE FinishFunction
  <2>1. status' # "lower"
    BY <1>1 DEF FinishFunction
  <2> QED  BY <1>1, <2>1, RoadsFinish
<1>2. CASE ~FinishFunction
  <2>1. PICK J : Roads(J)
    BY DEF Routed
  <2>2. work # << >> /\ status' = "lower"
    BY <1>2 DEF Lower, VisitAct, VisitReturn, VisitBreak, VisitContinue, VisitBlock, NextItem,
         VisitIf, IfBranch, IfElse, IfMerge, VisitWhile, WhileBranch, WhileEnd, VisitLOr,
         LOrRight, VisitLAnd, LAndRight, AtStmt, At
  <2>3. Under(J)
    BY <2>1, <2>2, HereNow, StocksNow DEF Under
  <2>4. Routed'
    BY <1>2, <2>3, RoadsSimple, RoadsReturn, RoadsLeave, RoadsBlock, RoadsIf, RoadsIfBranch,
       RoadsIfElse, RoadsIfMerge, RoadsWhile, RoadsWhileBranch, RoadsWhileEnd, RoadsOr,
       RoadsAnd, RoadsRight DEF Lower
  <2> QED  BY <2>2, <2>4
<1> QED  BY <1>1, <1>2

(* What is proved of the analysis, for the blocks of this function.        *)
DP == INSTANCE DominatorsProofs WITH
        BlockList <- [b \in BB |-> b], Entry <- 1, Null <- 0,
        Graphs <- [BB -> BoundedSeq(BB \ {1}, 2)]

(* The blocks of the analysis are all there are.                           *)
LEMMA SameBlocks == DP!Blocks = BB /\ D!Blocks = BB
<1>1. DP!Blocks = {[b \in BB |-> b][i] : i \in BB} /\ D!Blocks = {[b \in BB |-> b][i] : i \in BB}
  BY DEF DP!Blocks, D!Blocks, DP!ToSet, D!ToSet
<1> QED  BY <1>1

(* The lists of at most two successors.                                    *)
LEMMA SuccessorLists ==
    ASSUME NEW S
    PROVE  BoundedSeq(S, 2) = {s \in Seq(S) : Len(s) <= 2}
<1>1. \A s \in BoundedSeq(S, 2) : s \in Seq(S) /\ Len(s) <= 2
  <2> TAKE s \in BoundedSeq(S, 2)
  <2>1. PICK m \in 0 .. 2 : s \in [1 .. m -> S]
    BY DEF BoundedSeq, SeqOf
  <2>2. m \in Nat /\ m <= 2
    OBVIOUS
  <2>3. s \in Seq(S) /\ Len(s) = m
    <3>1. s \in Seq(S)
      BY <2>1, <2>2, SeqDef
    <3> QED  BY <2>1, <2>2, <3>1, LenProperties
  <2> QED  BY <2>2, <2>3
<1>2. \A s \in Seq(S) : Len(s) <= 2 => s \in BoundedSeq(S, 2)
  <2> SUFFICES ASSUME NEW s \in Seq(S), Len(s) <= 2 PROVE s \in BoundedSeq(S, 2)
    OBVIOUS
  <2>1. Len(s) \in Nat /\ s \in [1 .. Len(s) -> S]
    BY LenProperties
  <2>2. Len(s) \in 0 .. 2
    BY <2>1
  <2> QED  BY <2>1, <2>2 DEF BoundedSeq, SeqOf
<1> QED  BY <1>1, <1>2

(* What the analysis assumes of its parameters holds of the blocks.        *)
LEMMA Assumed ==
    /\ [b \in BB |-> b] \in Seq(DP!Blocks) /\ DP!IsInjective([b \in BB |-> b])
    /\ 1 \in DP!Blocks
    /\ 0 \notin DP!Blocks
    /\ \A g \in [BB -> BoundedSeq(BB \ {1}, 2)] :
          /\ g \in [DP!Blocks -> Seq(DP!Blocks \ {1})]
          /\ \A b \in DP!Blocks : Len(g[b]) <= 2
<1>1. DP!Blocks = BB
  BY SameBlocks
<1>2. [b \in BB |-> b] \in Seq(BB)
  <2>1. MaxBlocks \in Nat /\ [b \in BB |-> b] \in [1 .. MaxBlocks -> BB]
    BY BlocksAssumption DEF BB
  <2> QED  BY <2>1, SeqDef
<1>3. DP!IsInjective([b \in BB |-> b])
  BY DEF DP!IsInjective
<1>4. 1 \in BB /\ 0 \notin BB
  BY BlocksAssumption DEF BB
<1>5. \A g \in [BB -> BoundedSeq(BB \ {1}, 2)] :
         g \in [BB -> Seq(BB \ {1})] /\ \A b \in BB : Len(g[b]) <= 2
  BY SuccessorLists
<1> QED  BY <1>1, <1>2, <1>3, <1>4, <1>5

(* The two instances of the analysis are one.                              *)
LEMMA SameCount == \A S : D!Cardinality(S) = DP!Cardinality(S)
  BY DEF D!Cardinality, DP!Cardinality

(* They take the same steps.                                               *)
LEMMA SameStep ==
    ASSUME D!Step
    PROVE  DP!Step
<1>1. D!VisitSucc => DP!VisitSucc
  BY DEF D!VisitSucc, DP!VisitSucc, D!Last, DP!Last, D!idomVars, DP!idomVars,
         D!resultVars, DP!resultVars
<1>2. D!VisitDone => DP!VisitDone
  BY DEF D!VisitDone, DP!VisitDone, D!Last, DP!Last, D!Front, DP!Front, D!idomVars, DP!idomVars,
         D!resultVars, DP!resultVars
<1>3. D!StartIdom => DP!StartIdom
  BY SameBlocks DEF D!StartIdom, DP!StartIdom, D!Reverse, DP!Reverse, D!resultVars, DP!resultVars
<1>4. D!IdomBlock => DP!IdomBlock
  <2>1. D!Processed = DP!Processed /\ \A b : D!Preds(b) = DP!Preds(b)
    BY SameBlocks DEF D!Processed, DP!Processed, D!Preds, DP!Preds, D!PredEdges, DP!PredEdges
  <2>2. \A pres : D!NewIdom(pres) = DP!NewIdom(pres)
    BY DEF D!NewIdom, DP!NewIdom, D!Intersect, DP!Intersect, D!Processed, DP!Processed,
           D!Blocks, DP!Blocks, D!ToSet, DP!ToSet
  <2>3. \A S : D!SetToSeqs(S) = DP!SetToSeqs(S)
    BY SameCount DEF D!SetToSeqs, DP!SetToSeqs
  <2> QED  BY <2>1, <2>2, <2>3 DEF D!IdomBlock, DP!IdomBlock, D!idomVars, DP!idomVars,
         D!graphVars, DP!graphVars, D!resultVars, DP!resultVars
<1>5. D!IdomSweepDone => DP!IdomSweepDone
  BY DEF D!IdomSweepDone, DP!IdomSweepDone, D!graphVars, DP!graphVars, D!resultVars, DP!resultVars
<1>6. D!FrontierBlock => DP!FrontierBlock
  <2>1. \A b : D!Preds(b) = DP!Preds(b) /\ D!PredEdges(b) = DP!PredEdges(b)
    BY SameBlocks DEF D!Preds, DP!Preds, D!PredEdges, DP!PredEdges
  <2>2. \A a, b : D!Runners(a, b) = DP!Runners(a, b)
    BY SameBlocks DEF D!Runners, DP!Runners
  <2> QED  BY <2>1, <2>2, SameCount DEF D!FrontierBlock, DP!FrontierBlock, D!graphVars, DP!graphVars,
         D!idomVars, DP!idomVars
<1>7. D!CreateTree => DP!CreateTree
  BY SameBlocks DEF D!CreateTree, DP!CreateTree, D!graphVars, DP!graphVars, D!idomVars, DP!idomVars
<1> QED  BY <1>1, <1>2, <1>3, <1>4, <1>5, <1>6, <1>7 DEF D!Step, DP!Step

(* Its invariant is kept.                                                  *)
LEMMA AnalysisStep ==
    ASSUME DP!DomInv, D!Step \/ UNCHANGED domVars
    PROVE  DP!DomInv'
<1>1. CASE D!Step
  <2>1. DP!Step
    BY <1>1, SameStep
  <2> QED  BY <1>1, <2>1, Assumed, DP!DomInvStep DEF DP!Next
<1>2. CASE UNCHANGED domVars
  <2>1. UNCHANGED DP!vars
    BY <1>2 DEF domVars, DP!vars
  <2> QED  BY <2>1, Assumed, DP!DomInvStep
<1> QED  BY <1>1, <1>2

(* The members as they are before run.                                     *)
Unstarted == D!InitFor(succ)

(* It holds when run begins,                                               *)
LEMMA AnalysisInit ==
    ASSUME Unstarted, pc = "visit", succ \in [BB -> BoundedSeq(BB \ {1}, 2)]
    PROVE  DP!DomInv
<1>1. DP!InitFor(succ)
  BY DEF Unstarted, D!InitFor, DP!InitFor, D!Blocks, DP!Blocks, D!ToSet, DP!ToSet
<1>2. DP!Init
  BY <1>1 DEF DP!Init
<1> QED  BY <1>2, Assumed, DP!DomInvInit

(* also if that is after a step.                                           *)
LEMMA AnalysisStarts ==
    (Unstarted /\ pc = "visit" /\ succ \in [BB -> BoundedSeq(BB \ {1}, 2)] => DP!DomInv)'
<1>1. Unstarted /\ pc = "visit" /\ succ \in [BB -> BoundedSeq(BB \ {1}, 2)] => DP!DomInv
  BY AnalysisInit
<1> QED  BY <1>1, PTL

(* A body without an if of which both branches jump.                       *)
Clean == \A i \in DOMAIN body : ~HasDeadMerge[body[i]]

(* Its statements are fit to be visited.                                   *)
LEMMA BodyListed ==
    ASSUME body \in Bodies, Clean
    PROVE  Listing(body, 1)
<1>1. body \in Seq(Stmts[FALSE])
  BY SyntaxAssumption
<1>2. Stmts[FALSE] \subseteq Trees
  BY DEF Trees
<1>3. body \in Seq(Trees)
  BY <1>1, <1>2, SeqMonotonic
<1>4. \A i \in DOMAIN body : body[i] \in Trees
  BY <1>3, ElementOfSeq
<1> QED  BY <1>3, <1>4 DEF Listing, Tidy, Clean

(* The entry block is being filled, the body is to be visited.             *)
LEMMA RoutedInit ==
    ASSUME Init, Clean
    PROVE  Routed
<1>1. body \in Bodies /\ work = <<Visit("stmt", [k |-> "block", items |-> body])>>
  BY DEF Init, body
<1>2. PICK x : x = [k |-> "block", items |-> body]
  OBVIOUS
<1>3. PICK a : a = Visit("stmt", x)
  OBVIOUS
<1>4. a.op = "stmt" /\ a.n = x /\ a.bbs = << >> /\ x.k = "block" /\ x.items = body
  BY <1>2, <1>3 DEF Visit
<1>5. PICK R : R = Reached(succs)
  OBVIOUS
<1>6. Excuse(a, 1, 1, R)
  <2>1. Stating(x, 1)
    BY <1>1, <1>4, BodyListed DEF Stating
  <2>2. << >> \in Seq(Targets)
    OBVIOUS
  <2> QED  BY <1>4, <2>1, <2>2 DEF Excuse, Wired
<1>7. PICK J : J = <<1, 1>>
  OBVIOUS
<1>8. Excused(work, J, R)
  <2>1. work = <<a>>
    BY <1>1, <1>2, <1>3
  <2>2. work \in Seq({a}) /\ Len(work) = 1 /\ work[1] = a
    BY <2>1
  <2>3. J \in Seq({1}) /\ Len(J) = 2 /\ J[1] = 1 /\ J[2] = 1
    BY <1>7
  <2>4. \A i \in 1 .. Len(work) : Excuse(work[i], J[i], J[i + 1], R)
    BY <1>6, <2>2, <2>3
  <2> QED  BY <2>2, <2>3, <2>4 DEF Excused, IsList
<1>9. Edges
  <2>1. << >> \in Seq(Targets) /\ Len(<< >>) <= 2
    OBVIOUS
  <2>2. 1 \in Reached(succs)
    BY EntryReached
  <2> QED  BY <2>1, <2>2 DEF Init, Edges
<1>10. Held
  <2>1. << >> \in Seq(Targets) /\ << >> \in Seq([trueBB : Targets, falseBB : Targets])
    OBVIOUS
  <2> QED  BY <2>1 DEF Init, Held
<1>11. Roads(J)
  BY <1>5, <1>7, <1>8, <1>9, <1>10 DEF Roads
<1> QED  BY <1>11 DEF Routed

-----------------------------------------------------------------------------
(* Until Mem2Reg starts its members are as they were made; then it works   *)
(* on the blocks SysYBuilder left.  In a clean body they are reached.      *)
PipeInv ==
    /\ BlockInv /\ SimInv
    /\ pc = "idle" => Unstarted
    /\ pc # "off" => status # "exit" /\ body \in Bodies
    /\ pc \notin {"off", "idle"} => status = "run" /\ succ = succs
    /\ pc # "off" /\ Clean =>
          /\ status = "lower" => Routed
          /\ status = "run" => Edges
          /\ pc # "idle" => DP!DomInv

(* It holds at first.                                                      *)
LEMMA PipeInvInit == PipelineInit => PipeInv
<1> SUFFICES ASSUME PipelineInit PROVE PipeInv
  OBVIOUS
<1>1. Init /\ pc \in {"off", "idle"} /\ D!InitFor(succs)
  BY DEF PipelineInit
<1>2. BlockInv /\ SimInv
  BY <1>1, BlockInvInit, SimInit
<1>3. succ = succs
  BY <1>1 DEF D!InitFor
<1>4. Unstarted
  BY <1>1, <1>3 DEF Unstarted
<1>5. Clean => Routed
  BY <1>1, RoutedInit
<1>6. status = "lower" /\ body \in Bodies
  BY <1>1 DEF Init, body
<1> QED  BY <1>1, <1>2, <1>4, <1>5, <1>6 DEF PipeInv

(* The blocks are the kind of graph the analysis takes.                    *)
LEMMA EdgesAreAGraph ==
    ASSUME Edges
    PROVE  succs \in [BB -> BoundedSeq(BB \ {1}, 2)]
<1>1. Targets = BB \ {1}
  BY BlocksAssumption DEF Targets, BB
<1>2. \A b \in BB : succs[b] \in BoundedSeq(BB \ {1}, 2)
  BY <1>1, SuccessorLists DEF Edges
<1> QED  BY <1>2 DEF Edges

(* SysYBuilder keeps it,                                                   *)
LEMMA PipeLowers ==
    ASSUME PipeInv, Lower, UNCHANGED domVars
    PROVE  PipeInv'
<1>1. status = "lower" /\ pc' = pc /\ succ' = succ /\ body' = body /\ status' # "exit"
  BY DEF Lower, VisitAct, VisitReturn, VisitBreak, VisitContinue, VisitBlock, NextItem,
         VisitIf, IfBranch, IfElse, IfMerge, VisitWhile, WhileBranch, WhileEnd, VisitLOr,
         LOrRight, VisitLAnd, LAndRight, FinishFunction, AtStmt, At, runVars, body, domVars
<1>2. BlockInv' /\ SimInv'
  BY BlockInvStep, SimInvStep DEF PipeInv, Next
<1>3. pc \in {"off", "idle"}
  BY <1>1 DEF PipeInv
<1>4. Unstarted' <=> Unstarted
  BY DEF Unstarted, D!InitFor, domVars
<1>5. Clean' <=> Clean
  BY <1>1 DEF Clean
<1>6. pc # "off" /\ Clean => IF status' = "lower" THEN Routed' ELSE Edges'
  BY <1>1, RoutedLower DEF PipeInv, SimInv
<1> QED  BY <1>1, <1>2, <1>3, <1>4, <1>5, <1>6 DEF PipeInv

(* and the start of Mem2Reg,                                               *)
LEMMA PipeStarts ==
    ASSUME PipeInv, StartPass
    PROVE  PipeInv'
<1>1. /\ status = "run" /\ pc = "idle" /\ pc' = "visit" /\ succ' = succs
      /\ UNCHANGED vars
      /\ UNCHANGED <<stack, visited, rpo, poId, idom, changed, todo, df, tree>>
  BY DEF StartPass
<1>2. /\ status' = status /\ succs' = succs /\ body' = body
  BY <1>1 DEF vars, cfgVars, runVars, body
<1>3. BlockInv' /\ SimInv'
  BY <1>1, BlockInvStep, SimInvStep DEF PipeInv
<1>4. Unstarted'
  BY <1>1 DEF PipeInv, Unstarted, D!InitFor
<1>5. Clean' <=> Clean
  BY <1>2 DEF Clean
<1>6. Clean => Edges
  BY <1>1 DEF PipeInv
<1>7. Edges => Edges'
  BY <1>1 DEF Edges, vars, cfgVars
<1>8. Clean => DP!DomInv'
  BY <1>1, <1>4, <1>6, AnalysisStarts, EdgesAreAGraph
<1> QED  BY <1>1, <1>2, <1>3, <1>5, <1>6, <1>7, <1>8 DEF PipeInv

(* the steps of the analysis,                                              *)
LEMMA PipeAnalyses ==
    ASSUME PipeInv, D!Step, UNCHANGED vars
    PROVE  PipeInv'
<1>1. pc \notin {"off", "idle"} /\ pc' \notin {"off", "idle"} /\ succ' = succ
  BY DEF D!Step, D!VisitSucc, D!VisitDone, D!StartIdom, D!IdomBlock, D!IdomSweepDone,
         D!FrontierBlock, D!CreateTree
<1>2. status' = status /\ succs' = succs /\ body' = body
  BY DEF vars, cfgVars, runVars, body
<1>3. BlockInv' /\ SimInv'
  BY BlockInvStep, SimInvStep DEF PipeInv
<1>4. Clean' <=> Clean
  BY <1>2 DEF Clean
<1>5. Edges => Edges'
  BY DEF Edges, vars, cfgVars
<1>6. Clean => Edges /\ DP!DomInv
  BY <1>1 DEF PipeInv
<1>7. Clean => DP!DomInv'
  BY <1>6, AnalysisStep
<1> QED  BY <1>1, <1>2, <1>3, <1>4, <1>5, <1>6, <1>7 DEF PipeInv

(* and what is neither.                                                    *)
LEMMA PipeRests ==
    ASSUME PipeInv, \/ RunUnoptimised
                    \/ UNCHANGED allVars
    PROVE  PipeInv'
<1>1. CASE RunUnoptimised
  <2>1. Run /\ pc = "off" /\ pc' = "off"
    BY <1>1 DEF RunUnoptimised, domVars
  <2>2. BlockInv' /\ SimInv'
    BY <2>1, BlockInvStep, SimInvStep DEF PipeInv, Next
  <2> QED  BY <2>1, <2>2 DEF PipeInv
<1>2. CASE UNCHANGED allVars
  <2>1. UNCHANGED vars /\ UNCHANGED domVars
    BY <1>2 DEF allVars
  <2>2. BlockInv' /\ SimInv'
    BY <2>1, BlockInvStep, SimInvStep DEF PipeInv
  <2>3. /\ status' = status /\ succs' = succs /\ body' = body /\ pc' = pc /\ succ' = succ
    BY <2>1 DEF vars, cfgVars, runVars, body, domVars
  <2>4. Unstarted' <=> Unstarted
    BY <2>1 DEF Unstarted, D!InitFor, domVars
  <2>5. Clean' <=> Clean
    BY <2>3 DEF Clean
  <2>6. Edges => Edges'
    BY <2>1 DEF Edges, vars, cfgVars
  <2>7. Routed => Routed'
    <3> SUFFICES ASSUME NEW J, Roads(J) PROVE Roads(J)'
      BY DEF Routed
    <3>1. Held'
      BY <2>1 DEF vars, stackVars, Held, Roads
    <3> QED  BY <2>1, <2>6, <3>1 DEF Roads, vars, cfgVars
  <2>8. DP!DomInv => DP!DomInv'
    BY <2>1, AnalysisStep
  <2> QED  BY <2>2, <2>3, <2>4, <2>5, <2>6, <2>7, <2>8 DEF PipeInv
<1> QED  BY <1>1, <1>2

(* So every step does.                                                     *)
LEMMA PipeInvStep == PipeInv /\ [PipelineNext]_allVars => PipeInv'
<1> SUFFICES ASSUME PipeInv, [PipelineNext]_allVars PROVE PipeInv'
  OBVIOUS
<1> QED  BY PipeLowers, PipeStarts, PipeAnalyses, PipeRests DEF PipelineNext, Compile

-----------------------------------------------------------------------------
(* What the entry reaches is what the analysis calls reachable.            *)
LEMMA ReachedIsReachable ==
    ASSUME Edges, succ = succs
    PROVE  Reached(succs) \subseteq DP!Reachable
<1> SUFFICES ASSUME NEW b \in Reached(succs), NEW S \in SUBSET BB, DP!ClosedBut(0, S)
             PROVE  b \in S
  BY SameBlocks, EntryReached DEF DP!Reachable, DP!ReachAvoiding
<1>1. \A a \in S : \A i \in DOMAIN succs[a] : succs[a][i] \in S
  <2> TAKE a \in S
  <2> TAKE i \in DOMAIN succs[a]
  <2>1. succs[a][i] \in Targets
    BY ElementOfSeq DEF Edges
  <2>2. succs[a][i] # 0
    BY <2>1 DEF Targets
  <2>3. succs[a][i] \in DP!ToSet(succ[a])
    BY DEF DP!ToSet
  <2> QED  BY <2>2, <2>3 DEF DP!ClosedBut
<1>2. Closed(succs, S)
  BY <1>1 DEF Closed, DP!ClosedBut
<1> QED  BY <1>2 DEF Reached

(* Where every block that branches is reached nothing is thrown.           *)
LEMMA CleanDoesNotThrow ==
    ASSUME Edges, succ = succs, DP!DomInv
    PROVE  pc # "throw"
<1> SUFFICES ASSUME pc = "throw" PROVE FALSE
  OBVIOUS
<1>1. PICK b \in DP!Reachable : ~(DP!Preds(b) \subseteq DP!Reachable)
  BY Assumed, DP!ResultOfThrow DEF DP!ThrowsOnlyOnDeadPred
<1>2. PICK p : p \in BB /\ DOMAIN succ[p] # {} /\ p \notin DP!Reachable
  <2>1. PICK e \in DP!PredEdges(b) : e[1] \notin DP!Reachable
    BY <1>1 DEF DP!Preds
  <2>2. e[1] \in BB /\ e[2] \in DOMAIN succ[e[1]]
    BY SameBlocks DEF DP!PredEdges
  <2> QED  BY <2>1, <2>2
<1>3. succs[p] # << >>
  BY <1>2
<1>4. p \in Reached(succs)
  BY <1>2, <1>3 DEF Edges
<1> QED  BY <1>2, <1>4, ReachedIsReachable

(* The invariant of the compiler with and without -mem2reg holds.          *)
THEOREM PipelineInvariant == PipelineSpec => []PipeInv
BY PipeInvInit, PipeInvStep, PTL DEF PipelineSpec

(* For every function body: if the frontier walk of Dominators::run throws *)
(* std::out_of_range on the blocks SysYBuilder left, the body holds an if  *)
(* of which both branches jump.                                            *)
THEOREM OnlyDeadMergesThrow == PipelineSpec => []ThrowsOnlyOnDeadMerge
<1>1. PipeInv => ThrowsOnlyOnDeadMerge
  <2> SUFFICES ASSUME PipeInv, pc = "throw", Clean PROVE FALSE
    BY DEF ThrowsOnlyOnDeadMerge, Clean
  <2>1. Edges /\ DP!DomInv /\ succ = succs
    BY DEF PipeInv
  <2> QED  BY <2>1, CleanDoesNotThrow
<1> QED  BY <1>1, PipelineInvariant, PTL

=============================================================================
