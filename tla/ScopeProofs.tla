---------------------------- MODULE ScopeProofs ----------------------------
(***************************************************************************)
(* A name always resolves to the declaration in force, for any names and   *)
(* any depth of nesting.                                                   *)
(***************************************************************************)
EXTENDS Scope, SequenceTheorems, WellFoundedInduction, TLAPS

-----------------------------------------------------------------------------
(* One stack of maps against a set of declarations: the map at each depth  *)
(* has the names that a declaration of those kinds gives it there, with    *)
(* its number.                                                             *)

Maps == UNION {[some -> Nat] : some \in SUBSET Names}

Agrees(stack, kinds, decls, l) ==
    /\ stack \in Seq(Maps) /\ Len(stack) = l
    /\ \A i \in 1 .. l, n \in Names :
          n \in DOMAIN stack[i] <=>
              \E e \in decls : e.name = n /\ e.depth = i /\ e.kind \in kinds
    /\ \A e \in decls : e.kind \in kinds => stack[e.depth][e.name] = e.id

Declaration == [name : Names, kind : Kinds \cup {"function"}, depth : Nat \ {0}, id : Nat]

(* Inner declarations are younger than outer ones.                         *)
Ordered(decls, l, last) ==
    /\ decls \subseteq Declaration /\ l \in Nat \ {0} /\ last \in Nat
    /\ \A e \in decls : e.depth <= l /\ e.id <= last
    /\ \A d, e \in decls : d.depth < e.depth => d.id < e.id

(* What may be pushed on a stack: nothing of the same name in its scope.   *)
Fresh(e, kinds, decls, l) ==
    /\ e \in Declaration /\ e.depth = l /\ e.kind \in kinds
    /\ \A d \in decls : d.kind \in kinds /\ d.depth = l => d.name # e.name

(* All but the last element of a list.                                     *)
LEMMA FrontOf ==
    ASSUME NEW S, NEW s \in Seq(S), Len(s) \in Nat \ {0}
    PROVE  /\ Front(s) \in Seq(S) /\ Len(Front(s)) = Len(s) - 1
           /\ \A i \in 1 .. Len(s) - 1 : Front(s)[i] = s[i]
<1>1. 1 \in 1 .. Len(s) + 1 /\ Len(s) - 1 \in 1 - 1 .. Len(s)
  OBVIOUS
<1>2. \A i \in 1 .. Len(s) - 1 : i \in 1 .. (Len(s) - 1) - 1 + 1 /\ 1 + i - 1 = i
  OBVIOUS
<1>3. (Len(s) - 1) - 1 + 1 = Len(s) - 1
  OBVIOUS
<1> QED  BY <1>1, <1>2, <1>3, SubSeqProperties DEF Front

(* Entering a scope binds nothing.                                         *)
LEMMA Opened ==
    ASSUME NEW s, NEW kinds, NEW decls, NEW l, NEW last,
           Ordered(decls, l, last), Agrees(s, kinds, decls, l)
    PROVE  Agrees(Append(s, Empty), kinds, decls, l + 1)
<1> DEFINE t == Append(s, Empty)
<1>1. Empty \in Maps /\ DOMAIN Empty = {}
  BY DEF Empty, Maps
<1>2. /\ t \in Seq(Maps) /\ Len(t) = l + 1 /\ l \in Nat \ {0}
      /\ \A i \in 1 .. l : t[i] = s[i]
      /\ t[l + 1] = Empty
  BY <1>1, AppendProperties DEF Agrees, Ordered
<1> HIDE DEF t
<1>3. \A e \in decls : e.depth \in 1 .. l
  BY <1>2 DEF Declaration, Ordered
<1>4. ASSUME NEW i \in 1 .. l + 1, NEW n \in Names
      PROVE  n \in DOMAIN t[i] <=>
                \E e \in decls : e.name = n /\ e.depth = i /\ e.kind \in kinds
  <2>1. CASE i \in 1 .. l
    BY <1>2, <2>1 DEF Agrees
  <2>2. CASE i \notin 1 .. l
    <3>1. i = l + 1
      BY <1>2, <2>2
    <3> QED  BY <1>1, <1>2, <1>3, <2>2, <3>1
  <2> QED  BY <2>1, <2>2
<1>5. \A e \in decls : e.kind \in kinds => t[e.depth][e.name] = e.id
  BY <1>2, <1>3 DEF Agrees
<1> QED  BY <1>2, <1>4, <1>5 DEF Agrees, t

(* Leaving a scope forgets what it bound, and nothing else.                *)
LEMMA Closed ==
    ASSUME NEW s, NEW kinds, NEW decls, NEW l, NEW last,
           Ordered(decls, l, last), Agrees(s, kinds, decls, l)
    PROVE  Agrees(Front(s), kinds, {e \in decls : e.depth <= l - 1}, l - 1)
<1> DEFINE t == Front(s)
           left == {e \in decls : e.depth <= l - 1}
<1>1. /\ t \in Seq(Maps) /\ Len(t) = l - 1 /\ l \in Nat \ {0}
      /\ \A i \in 1 .. l - 1 : t[i] = s[i] /\ i \in 1 .. l
  <2>1. s \in Seq(Maps) /\ Len(s) = l /\ l \in Nat \ {0}
    BY DEF Agrees, Ordered
  <2>2. /\ t \in Seq(Maps) /\ Len(t) = l - 1
        /\ \A i \in 1 .. l - 1 : t[i] = s[i]
    BY <2>1, FrontOf
  <2> HIDE DEF t
  <2> QED  BY <2>1, <2>2
<1> HIDE DEF t
<1>2. \A e \in decls : e \in left <=> e.depth \in 1 .. l - 1
  BY <1>1 DEF Declaration, Ordered
<1>3. left \subseteq decls
  OBVIOUS
<1> HIDE DEF left
<1>4. ASSUME NEW i \in 1 .. l - 1, NEW n \in Names
      PROVE  n \in DOMAIN t[i] <=>
                \E e \in left : e.name = n /\ e.depth = i /\ e.kind \in kinds
  <2>1. n \in DOMAIN t[i] <=>
            \E e \in decls : e.name = n /\ e.depth = i /\ e.kind \in kinds
    BY <1>1 DEF Agrees
  <2> QED  BY <1>2, <1>3, <2>1
<1>5. ASSUME NEW e \in left, e.kind \in kinds PROVE t[e.depth][e.name] = e.id
  BY <1>1, <1>2, <1>3, <1>5 DEF Agrees
<1> QED  BY <1>1, <1>4, <1>5 DEF Agrees, t, left

(* A new binding of the innermost scope.                                   *)
LEMMA Pushed ==
    ASSUME NEW s, NEW kinds, NEW decls, NEW l, NEW last, NEW e,
           Ordered(decls, l, last), Agrees(s, kinds, decls, l), Fresh(e, kinds, decls, l)
    PROVE  Agrees(Push(s, e.name, e.id), kinds, decls \cup {e}, l)
<1> DEFINE top == s[l]
           new == [m \in DOMAIN top \cup {e.name} |-> IF m = e.name THEN e.id ELSE top[m]]
           t == Push(s, e.name, e.id)
<1>1. /\ e.name \in Names /\ e.id \in Nat /\ l \in Nat \ {0}
      /\ s \in Seq(Maps) /\ Len(s) = l /\ e.depth = l /\ e.kind \in kinds
  BY DEF Declaration, Agrees, Ordered, Fresh
<1>2. top \in Maps /\ Last(s) = top
  BY <1>1, ElementOfSeq DEF Last
<1>3. e.name \notin DOMAIN top
  BY <1>1 DEF Agrees, Fresh
<1>4. new \in Maps
  <2>1. PICK some \in SUBSET Names : top \in [some -> Nat]
    BY <1>2 DEF Maps
  <2>2. new \in [some \cup {e.name} -> Nat] /\ some \cup {e.name} \in SUBSET Names
    BY <1>1, <2>1
  <2> QED  BY <2>2 DEF Maps
<1>5. t = Append(Front(s), new)
  BY <1>2, <1>3 DEF Push
<1>6. /\ DOMAIN new = DOMAIN top \cup {e.name} /\ new[e.name] = e.id
      /\ \A m \in DOMAIN top : new[m] = top[m]
  BY <1>3
<1> HIDE DEF new, t
<1>7. /\ t \in Seq(Maps) /\ Len(t) = l /\ t[l] = new
      /\ \A i \in 1 .. l - 1 : t[i] = s[i]
  <2>1. /\ Front(s) \in Seq(Maps) /\ Len(Front(s)) = l - 1
        /\ \A i \in 1 .. l - 1 : Front(s)[i] = s[i]
    BY <1>1, FrontOf
  <2> DEFINE r == Front(s)
  <2> HIDE DEF r
  <2>2. /\ t \in Seq(Maps) /\ Len(t) = Len(r) + 1
        /\ t[Len(r) + 1] = new
        /\ \A i \in 1 .. Len(r) : t[i] = r[i]
    BY <1>4, <1>5, <2>1, AppendProperties DEF r
  <2>3. Len(r) = l - 1 /\ Len(r) + 1 = l /\ \A i \in 1 .. l - 1 : r[i] = s[i]
    BY <1>1, <2>1 DEF r
  <2> QED  BY <2>2, <2>3
<1> HIDE DEF top
<1>8. ASSUME NEW i \in 1 .. l, NEW n \in Names
      PROVE  n \in DOMAIN t[i] <=>
                \E d \in decls \cup {e} : d.name = n /\ d.depth = i /\ d.kind \in kinds
  <2>1. CASE i = l
    BY <1>1, <1>6, <1>7, <2>1 DEF Agrees, top
  <2>2. CASE i # l
    <3>1. i \in 1 .. l - 1
      BY <1>1, <2>2
    <3> QED  BY <1>1, <1>7, <2>2, <3>1 DEF Agrees
  <2> QED  BY <2>1, <2>2
<1>9. ASSUME NEW d \in decls \cup {e}, d.kind \in kinds
      PROVE  t[d.depth][d.name] = d.id
  <2>1. CASE d = e
    BY <1>1, <1>6, <1>7, <2>1
  <2>2. CASE d \in decls /\ d.depth = l
    <3>1. d.name \in Names /\ l \in 1 .. l
      BY <1>1, <2>2 DEF Declaration, Ordered
    <3>2. d.name \in DOMAIN top /\ top[d.name] = d.id
      BY <1>9, <2>2, <3>1 DEF Agrees, top
    <3> QED  BY <1>6, <1>7, <2>2, <3>2
  <2>3. CASE d \in decls /\ d.depth # l
    <3>1. d.depth \in 1 .. l - 1
      BY <1>1, <2>3 DEF Declaration, Ordered
    <3> QED  BY <1>7, <1>9, <2>3, <3>1 DEF Agrees
  <2> QED  BY <2>1, <2>2, <2>3
<1> QED  BY <1>7, <1>8, <1>9 DEF Agrees, t

(* A stack that a declaration is not pushed on.                            *)
LEMMA Passed ==
    ASSUME NEW s, NEW kinds, NEW decls, NEW l, NEW e,
           Agrees(s, kinds, decls, l), e.kind \notin kinds
    PROVE  Agrees(s, kinds, decls \cup {e}, l)
BY DEF Agrees

-----------------------------------------------------------------------------
(* Looking a name up.                                                      *)

(* A set of numbers with a bound has a greatest one.                       *)
LEMMA Greatest ==
    ASSUME NEW n \in Nat, NEW S, S \subseteq 0 .. n, S # {}
    PROVE  \E m \in S : \A x \in S : x <= m
<1> DEFINE T == {n - x : x \in S}
<1>1. \A x \in S : x \in Nat /\ n - x \in Nat /\ n - x \in T
  OBVIOUS
<1>2. \E t \in T : \A u \in T : ~(<<u, t>> \in OpToRel(<, Nat))
  <2>1. T \subseteq Nat
    BY <1>1
  <2>2. T # {}
    BY <1>1
  <2> HIDE DEF T
  <2> QED  BY <2>1, <2>2, NatLessThanWellFounded, WFMin
<1>3. PICK t \in T : \A u \in T : ~(u < t)
  <2>1. \A u \in T : u \in Nat
    BY <1>1
  <2> HIDE DEF T
  <2> QED  BY <1>2, <2>1 DEF OpToRel
<1>4. PICK m \in S : t = n - m
  OBVIOUS
<1>5. ASSUME NEW x \in S PROVE x <= m
  <2>1. ~(n - x < n - m)
    BY <1>1, <1>3, <1>4
  <2>2. x \in Nat /\ m \in Nat
    BY <1>1
  <2> QED  BY <2>1, <2>2
<1> QED  BY <1>5

(* find and its siblings return the binding of the deepest declaration.    *)
LEMMA FindDeepest ==
    ASSUME NEW s, NEW kinds, NEW decls, NEW l, NEW last,
           Ordered(decls, l, last), Agrees(s, kinds, decls, l),
           NEW n \in Names
    PROVE  /\ (\A e \in decls : e.name = n => e.kind \notin kinds) => Find(s, n) = None
           /\ \A e \in decls :
                 /\ e.name = n /\ e.kind \in kinds
                 /\ \A d \in decls : d.name = n /\ d.kind \in kinds => d.depth <= e.depth
                 => Find(s, n) = e.id
<1> DEFINE at == {i \in DOMAIN s : n \in DOMAIN s[i]}
<1>1. s \in Seq(Maps) /\ Len(s) = l /\ l \in Nat /\ DOMAIN s = 1 .. l
  BY LenProperties DEF Agrees, Ordered
<1>2. \A i : i \in at <=>
         /\ i \in 1 .. l
         /\ \E e \in decls : e.name = n /\ e.depth = i /\ e.kind \in kinds
  BY <1>1 DEF Agrees
<1>3. Find(s, n) = IF at = {} THEN None ELSE s[Max(at)][n]
  BY DEF Find
<1> HIDE DEF at
<1>4. ASSUME \A e \in decls : e.name = n => e.kind \notin kinds
      PROVE  Find(s, n) = None
  BY <1>2, <1>3, <1>4
<1>5. ASSUME NEW e \in decls, e.name = n, e.kind \in kinds,
             \A d \in decls : d.name = n /\ d.kind \in kinds => d.depth <= e.depth
      PROVE  Find(s, n) = e.id
  <2>1. e.depth \in 1 .. l
    BY <1>1 DEF Declaration, Ordered
  <2>2. e.depth \in at /\ \A i \in at : i \in Nat /\ i <= e.depth
    BY <1>2, <1>5, <2>1
  <2>3. Max(at) = e.depth
    BY <2>1, <2>2 DEF Max
  <2> QED  BY <1>3, <1>5, <2>2, <2>3 DEF Agrees
<1> QED  BY <1>4, <1>5

(* The latest declaration in force is also the deepest.                    *)
LEMMA LatestDeepest ==
    ASSUME Ordered(env, Depth, made), NEW n, NEW b \in BOOLEAN,
           Refers(n, b) # {}
    PROVE  /\ Latest(n, b) \in Refers(n, b)
           /\ \A d \in Refers(n, b) : d.depth <= Latest(n, b).depth
<1> DEFINE ids == {e.id : e \in Refers(n, b)}
<1>1. \A e \in Refers(n, b) :
         e \in env /\ e.id \in Nat /\ e.id <= made /\ e.depth \in Nat
  BY DEF Refers, Ordered, Declaration
<1>2. ids \subseteq 0 .. made /\ ids # {}
  BY <1>1
<1>3. \E m \in ids : \A x \in ids : x <= m
  <2>1. made \in Nat
    BY DEF Ordered
  <2> HIDE DEF ids
  <2> QED  BY <1>2, <2>1, Greatest
<1>4. \E e \in Refers(n, b) : \A d \in Refers(n, b) : d.id <= e.id
  BY <1>3
<1>5. /\ Latest(n, b) \in Refers(n, b)
      /\ \A d \in Refers(n, b) : d.id <= Latest(n, b).id
  BY <1>4 DEF Latest
<1>6. ASSUME NEW d \in Refers(n, b) PROVE d.depth <= Latest(n, b).depth
  <2>1. ~(Latest(n, b).depth < d.depth)
    BY <1>1, <1>5 DEF Ordered
  <2> QED  BY <1>1, <1>5, <2>1
<1> QED  BY <1>5, <1>6

-----------------------------------------------------------------------------
(* The four stacks have the same depth and each agrees with the            *)
(* declarations of its kinds.                                              *)
VarKinds == Kinds
ArrayKinds == {"array", "constArray"}

IInv ==
    /\ Ordered(env, Depth, made)
    /\ Agrees(vars_, VarKinds, env, Depth)
    /\ Agrees(funcs, {"function"}, env, Depth)
    /\ Agrees(params, ArrayKinds, env, Depth)
    /\ Agrees(consts, {"constArray"}, env, Depth)

(* The constructor leaves one empty scope.                                 *)
LEMMA InitInv == Init => IInv
<1> SUFFICES ASSUME Init PROVE IInv
  OBVIOUS
<1>1. /\ made = 0 /\ env = {}
      /\ vars_ = <<Empty>> /\ funcs = <<Empty>> /\ params = <<Empty>> /\ consts = <<Empty>>
  BY DEF Init
<1>2. Empty \in Maps /\ DOMAIN Empty = {}
  BY DEF Empty, Maps
<1>3. \A kinds : Agrees(<<Empty>>, kinds, {}, 1)
  <2>1. <<Empty>> \in Seq(Maps) /\ Len(<<Empty>>) = 1 /\ <<Empty>>[1] = Empty
    BY <1>2
  <2>2. \A i \in 1 .. Len(<<Empty>>) : <<Empty>>[i] = Empty
    BY <2>1
  <2> QED  BY <1>2, <2>1, <2>2 DEF Agrees
<1>4. Len(<<Empty>>) = 1
  OBVIOUS
<1> QED  BY <1>1, <1>3, <1>4 DEF IInv, Ordered, Depth

(* The invariant is enough for the property.                               *)
LEMMA LexicalInv == IInv => LookupIsLexical
<1> SUFFICES ASSUME IInv, NEW n \in Names
             PROVE  /\ LET id == IF Refers(n, TRUE) = {} THEN None ELSE Latest(n, TRUE).id
                       IN  Find(funcs, n) = id
                    /\ IF Refers(n, FALSE) = {}
                       THEN Find(vars_, n) = None /\ Find(params, n) = None /\ Find(consts, n) = None
                       ELSE LET e == Latest(n, FALSE) IN
                            /\ Find(vars_, n) = e.id
                            /\ e.kind \in {"array", "constArray"} => Find(params, n) = e.id
                            /\ e.kind = "constArray" => Find(consts, n) = e.id
  BY DEF LookupIsLexical
<1>1. /\ Ordered(env, Depth, made) /\ env \subseteq Declaration
      /\ Agrees(vars_, VarKinds, env, Depth) /\ Agrees(funcs, {"function"}, env, Depth)
      /\ Agrees(params, ArrayKinds, env, Depth) /\ Agrees(consts, {"constArray"}, env, Depth)
  BY DEF IInv, Ordered
<1>2. /\ \A e \in env : e.name = n /\ e.kind = "function" <=> e \in Refers(n, TRUE)
      /\ \A e \in env : e.name = n /\ e.kind \in VarKinds <=> e \in Refers(n, FALSE)
      /\ \A e : e \in Refers(n, TRUE) \cup Refers(n, FALSE) => e \in env
  BY <1>1 DEF Refers, IsFunction, VarKinds, Kinds, Declaration
<1>3. ArrayKinds \subseteq VarKinds /\ "constArray" \in ArrayKinds
  BY DEF ArrayKinds, VarKinds, Kinds
<1>4. Find(funcs, n) = IF Refers(n, TRUE) = {} THEN None ELSE Latest(n, TRUE).id
  <2>1. CASE Refers(n, TRUE) = {}
    <3>1. \A e \in env : e.name = n => e.kind \notin {"function"}
      BY <1>2, <2>1
    <3> QED  BY <1>1, <2>1, <3>1, FindDeepest
  <2>2. CASE Refers(n, TRUE) # {}
    <3> DEFINE e == Latest(n, TRUE)
    <3>1. e \in Refers(n, TRUE) /\ \A d \in Refers(n, TRUE) : d.depth <= e.depth
      BY <1>1, <2>2, LatestDeepest
    <3> HIDE DEF e
    <3>2. /\ e \in env /\ e.name = n /\ e.kind \in {"function"}
          /\ \A d \in env : d.name = n /\ d.kind \in {"function"} => d.depth <= e.depth
      BY <1>2, <3>1
    <3>3. Find(funcs, n) = e.id
      BY <1>1, <3>2, FindDeepest
    <3> QED  BY <2>2, <3>3 DEF e
  <2> QED  BY <2>1, <2>2
<1>5. ASSUME Refers(n, FALSE) = {}
      PROVE  Find(vars_, n) = None /\ Find(params, n) = None /\ Find(consts, n) = None
  <2>1. \A e \in env : e.name = n =>
           e.kind \notin VarKinds /\ e.kind \notin ArrayKinds /\ e.kind \notin {"constArray"}
    BY <1>2, <1>3, <1>5
  <2>2. Find(vars_, n) = None
    BY <1>1, <2>1, FindDeepest
  <2>3. Find(params, n) = None
    BY <1>1, <2>1, FindDeepest
  <2>4. Find(consts, n) = None
    BY <1>1, <2>1, FindDeepest
  <2> QED  BY <2>2, <2>3, <2>4
<1>6. ASSUME Refers(n, FALSE) # {}, NEW e, e = Latest(n, FALSE)
      PROVE  /\ Find(vars_, n) = e.id
             /\ e.kind \in ArrayKinds => Find(params, n) = e.id
             /\ e.kind \in {"constArray"} => Find(consts, n) = e.id
  <2>1. e \in Refers(n, FALSE) /\ \A d \in Refers(n, FALSE) : d.depth <= e.depth
    BY <1>1, <1>6, LatestDeepest
  <2>2. /\ e \in env /\ e.name = n /\ e.kind \in VarKinds
        /\ \A d \in env : d.name = n /\ d.kind \in VarKinds => d.depth <= e.depth
    BY <1>2, <2>1
  <2>3. Find(vars_, n) = e.id
    BY <1>1, <2>2, FindDeepest
  <2>4. \A d \in env : d.name = n /\ d.kind \in ArrayKinds => d.depth <= e.depth
    BY <1>3, <2>2
  <2>5. e.kind \in ArrayKinds => Find(params, n) = e.id
    BY <1>1, <2>2, <2>4, FindDeepest
  <2>6. e.kind \in {"constArray"} => Find(consts, n) = e.id
    <3>1. \A d \in env : d.name = n /\ d.kind \in {"constArray"} => d.depth <= e.depth
      BY <1>3, <2>4
    <3> QED  BY <1>1, <2>2, <3>1, FindDeepest
  <2> QED  BY <2>3, <2>5, <2>6
<1> QED  BY <1>4, <1>5, <1>6 DEF ArrayKinds

-----------------------------------------------------------------------------
(* One lemma per operation.                                                *)

(* An order stays one when a scope is entered.                             *)
LEMMA Deeper ==
    ASSUME NEW decls, NEW l, NEW last, Ordered(decls, l, last)
    PROVE  Ordered(decls, l + 1, last)
<1>1. \A e \in decls : e.depth \in Nat
  BY DEF Ordered, Declaration
<1> QED  BY <1>1 DEF Ordered

(* The same when the innermost scope is left.                              *)
LEMMA Shallower ==
    ASSUME NEW decls, NEW l, NEW last, Ordered(decls, l, last), l > 1
    PROVE  Ordered({e \in decls : e.depth <= l - 1}, l - 1, last)
BY DEF Ordered

(* The next declaration is younger than all the others.                    *)
LEMMA Younger ==
    ASSUME IInv, NEW e, e.id = made + 1, e.depth = Depth, e \in Declaration
    PROVE  Ordered(env \cup {e}, Depth, made + 1)
<1>1. /\ env \subseteq Declaration /\ made \in Nat /\ Depth \in Nat \ {0}
      /\ \A d \in env : d.depth <= Depth /\ d.id <= made
      /\ \A d, g \in env : d.depth < g.depth => d.id < g.id
  BY DEF IInv, Ordered
<1>2. \A d \in env : d.id \in Nat /\ d.depth \in Nat
  BY <1>1 DEF Declaration
<1>3. \A d \in env : d.id < made + 1 /\ ~(Depth < d.depth)
  BY <1>1, <1>2
<1>4. \A d \in env \cup {e} : d.depth <= Depth /\ d.id <= made + 1
  BY <1>1, <1>2
<1>5. \A d, g \in env \cup {e} : d.depth < g.depth => d.id < g.id
  BY <1>1, <1>3
<1> QED  BY <1>1, <1>4, <1>5 DEF Ordered

(* Block, and the branches of statements.                                  *)
LEMMA EnterStep ==
    ASSUME IInv, Enter
    PROVE  IInv'
<1>1. /\ vars_' = Append(vars_, Empty) /\ funcs' = Append(funcs, Empty)
      /\ params' = Append(params, Empty) /\ consts' = Append(consts, Empty)
      /\ made' = made /\ env' = env
  BY DEF Enter
<1>2. Agrees(vars_', VarKinds, env, Depth + 1)
  BY <1>1, Opened DEF IInv
<1>3. Agrees(funcs', {"function"}, env, Depth + 1)
  BY <1>1, Opened DEF IInv
<1>4. Agrees(params', ArrayKinds, env, Depth + 1)
  BY <1>1, Opened DEF IInv
<1>5. Agrees(consts', {"constArray"}, env, Depth + 1)
  BY <1>1, Opened DEF IInv
<1>6. Ordered(env, Depth + 1, made)
  BY Deeper DEF IInv
<1>7. Depth' = Depth + 1
  BY <1>2 DEF Depth, Agrees
<1> QED  BY <1>1, <1>2, <1>3, <1>4, <1>5, <1>6, <1>7 DEF IInv, VarKinds, ArrayKinds

(* Their end.                                                              *)
LEMMA ExitStep ==
    ASSUME IInv, Exit
    PROVE  IInv'
<1>1. /\ vars_' = Front(vars_) /\ funcs' = Front(funcs)
      /\ params' = Front(params) /\ consts' = Front(consts)
      /\ made' = made /\ env' = {e \in env : e.depth <= Depth - 1}
      /\ Depth > 1
  BY DEF Exit, BodyDepth, InForce, IInv, Ordered
<1>2. Agrees(vars_', VarKinds, env', Depth - 1)
  BY <1>1, Closed DEF IInv
<1>3. Agrees(funcs', {"function"}, env', Depth - 1)
  BY <1>1, Closed DEF IInv
<1>4. Agrees(params', ArrayKinds, env', Depth - 1)
  BY <1>1, Closed DEF IInv
<1>5. Agrees(consts', {"constArray"}, env', Depth - 1)
  BY <1>1, Closed DEF IInv
<1>6. Ordered(env', Depth - 1, made)
  BY <1>1, Shallower DEF IInv
<1>7. Depth' = Depth - 1
  BY <1>2 DEF Depth, Agrees
<1> QED  BY <1>1, <1>2, <1>3, <1>4, <1>5, <1>6, <1>7 DEF IInv, VarKinds, ArrayKinds

(* The end of a function leaves two scopes.                                *)
LEMMA FinishFunctionStep ==
    ASSUME IInv, FinishFunction
    PROVE  IInv'
<1> DEFINE two == Depth - 1
           one == two - 1
           left == {e \in env : e.depth <= two}
<1>1. /\ vars_' = Front(Front(vars_)) /\ funcs' = Front(Front(funcs))
      /\ params' = Front(Front(params)) /\ consts' = Front(Front(consts))
      /\ made' = made /\ env' = {e \in env : e.depth <= 1}
      /\ Depth = 3 /\ two = 2 /\ one = 1 /\ Depth > 1 /\ two > 1
  BY DEF FinishFunction, BodyDepth, InForce
<1>2. env' = {e \in left : e.depth <= one}
  <2>1. \A e \in env : e.depth \in Nat
    BY DEF IInv, Ordered, Declaration
  <2>2. \A e \in env : e.depth <= 1 <=> e.depth <= two /\ e.depth <= one
    BY <1>1, <2>1
  <2> HIDE DEF one, two
  <2> QED  BY <1>1, <2>2
<1>3. Ordered(left, two, made)
  BY <1>1, Shallower DEF IInv
<1>4. /\ Agrees(Front(vars_), VarKinds, left, two)
      /\ Agrees(Front(funcs), {"function"}, left, two)
      /\ Agrees(Front(params), ArrayKinds, left, two)
      /\ Agrees(Front(consts), {"constArray"}, left, two)
  BY Closed DEF IInv
<1> HIDE DEF two, left
<1>5. Agrees(vars_', VarKinds, env', one)
  BY <1>1, <1>2, <1>3, <1>4, Closed
<1>6. Agrees(funcs', {"function"}, env', one)
  BY <1>1, <1>2, <1>3, <1>4, Closed
<1>7. Agrees(params', ArrayKinds, env', one)
  BY <1>1, <1>2, <1>3, <1>4, Closed
<1>8. Agrees(consts', {"constArray"}, env', one)
  BY <1>1, <1>2, <1>3, <1>4, Closed
<1>9. Ordered(env', one, made)
  BY <1>1, <1>2, <1>3, Shallower
<1> HIDE DEF one
<1>10. Depth' = one
  BY <1>5 DEF Depth, Agrees
<1> QED  BY <1>1, <1>5, <1>6, <1>7, <1>8, <1>9, <1>10 DEF IInv, VarKinds, ArrayKinds

(* ConstDef, VarDef and the parameters.                                    *)
LEMMA BindStep ==
    ASSUME IInv, NEW n \in Names, NEW kind \in Kinds, Bind(n, kind)
    PROVE  IInv'
<1> DEFINE e == Entry(n, kind)
<1>1. /\ e.name = n /\ e.kind = kind /\ e.depth = Depth /\ e.id = made + 1
      /\ e \in Declaration
  BY DEF Entry, Declaration, IInv, Ordered
<1>2. /\ vars_' = Push(vars_, e.name, e.id)
      /\ params' = IF kind \in ArrayKinds THEN Push(params, e.name, e.id) ELSE params
      /\ consts' = IF kind = "constArray" THEN Push(consts, e.name, e.id) ELSE consts
      /\ made' = made + 1 /\ env' = env \cup {e} /\ funcs' = funcs
  BY DEF Bind, Entry, ArrayKinds
<1>3. /\ kind \in VarKinds /\ kind # "function"
      /\ ArrayKinds \subseteq VarKinds /\ "constArray" \in VarKinds
  BY DEF VarKinds, Kinds, ArrayKinds
<1>4. \A d \in env : d.kind \in VarKinds /\ d.depth = Depth => d.name # n
  BY DEF Bind, Declared, IsFunction, VarKinds, Kinds
<1> HIDE DEF e
<1>5. Agrees(vars_', VarKinds, env', Depth)
  <2>1. Fresh(e, VarKinds, env, Depth)
    BY <1>1, <1>3, <1>4 DEF Fresh
  <2> QED  BY <1>2, <2>1, Pushed DEF IInv
<1>6. Agrees(funcs', {"function"}, env', Depth)
  BY <1>1, <1>2, <1>3, Passed DEF IInv
<1>7. Agrees(params', ArrayKinds, env', Depth)
  <2>1. CASE kind \in ArrayKinds
    <3>1. Fresh(e, ArrayKinds, env, Depth)
      BY <1>1, <1>3, <1>4, <2>1 DEF Fresh
    <3> QED  BY <1>2, <2>1, <3>1, Pushed DEF IInv
  <2>2. CASE kind \notin ArrayKinds
    BY <1>1, <1>2, <2>2, Passed DEF IInv
  <2> QED  BY <2>1, <2>2
<1>8. Agrees(consts', {"constArray"}, env', Depth)
  <2>1. CASE kind = "constArray"
    <3>1. Fresh(e, {"constArray"}, env, Depth)
      BY <1>1, <1>3, <1>4, <2>1 DEF Fresh
    <3> QED  BY <1>2, <2>1, <3>1, Pushed DEF IInv
  <2>2. CASE kind # "constArray"
    BY <1>1, <1>2, <2>2, Passed DEF IInv
  <2> QED  BY <2>1, <2>2
<1>9. Ordered(env', Depth, made')
  BY <1>1, <1>2, Younger
<1>10. Depth' = Depth
  BY <1>5 DEF Depth, Agrees
<1> QED  BY <1>5, <1>6, <1>7, <1>8, <1>9, <1>10 DEF IInv, VarKinds, ArrayKinds

(* FuncDef: the name stays outside, the scope of the parameters is empty.  *)
LEMMA DefineFunctionStep ==
    ASSUME IInv, NEW n \in Names, DefineFunction(n)
    PROVE  IInv'
<1> DEFINE e == Entry(n, "function")
           fs == Push(funcs, e.name, e.id)
<1>1. /\ e.name = n /\ e.kind = "function" /\ e.depth = Depth /\ e.id = made + 1
      /\ e \in Declaration
  BY DEF Entry, Declaration, IInv, Ordered
<1>2. /\ vars_' = Append(vars_, Empty) /\ funcs' = Append(fs, Empty)
      /\ params' = Append(params, Empty) /\ consts' = Append(consts, Empty)
      /\ made' = made + 1 /\ env' = env \cup {e}
  BY DEF DefineFunction, Entry
<1> HIDE DEF e
<1>3. "function" \notin VarKinds /\ "function" \notin ArrayKinds
  BY DEF VarKinds, Kinds, ArrayKinds
<1>4. Agrees(fs, {"function"}, env', Depth)
  <2>1. Fresh(e, {"function"}, env, Depth)
    BY <1>1 DEF Fresh, DefineFunction, Declared, IsFunction
  <2> QED  BY <1>2, <2>1, Pushed DEF IInv
<1>5. /\ Agrees(vars_, VarKinds, env', Depth) /\ Agrees(params, ArrayKinds, env', Depth)
      /\ Agrees(consts, {"constArray"}, env', Depth)
  BY <1>1, <1>2, <1>3, Passed DEF IInv
<1> HIDE DEF fs
<1>6. Ordered(env', Depth, made')
  BY <1>1, <1>2, Younger
<1>7. Agrees(vars_', VarKinds, env', Depth + 1)
  BY <1>2, <1>5, <1>6, Opened
<1>8. Agrees(funcs', {"function"}, env', Depth + 1)
  BY <1>2, <1>4, <1>6, Opened
<1>9. Agrees(params', ArrayKinds, env', Depth + 1)
  BY <1>2, <1>5, <1>6, Opened
<1>10. Agrees(consts', {"constArray"}, env', Depth + 1)
  BY <1>2, <1>5, <1>6, Opened
<1>11. Ordered(env', Depth + 1, made')
  BY <1>6, Deeper
<1>12. Depth' = Depth + 1
  BY <1>7 DEF Depth, Agrees
<1> QED  BY <1>7, <1>8, <1>9, <1>10, <1>11, <1>12 DEF IInv, VarKinds, ArrayKinds

(* Every operation keeps the stacks in agreement.                          *)
LEMMA StepInv == IInv /\ [Next]_vars => IInv'
<1> SUFFICES ASSUME IInv, [Next]_vars PROVE IInv'
  OBVIOUS
<1>1. CASE UNCHANGED vars
  BY <1>1 DEF IInv, Ordered, Agrees, vars, tables, Depth, VarKinds, ArrayKinds
<1>2. CASE Enter
  BY <1>2, EnterStep
<1>3. CASE Exit
  BY <1>3, ExitStep
<1>4. CASE FinishFunction
  BY <1>4, FinishFunctionStep
<1>5. CASE \E n \in Names, kind \in Kinds : Declare(n, kind)
  BY <1>5, BindStep DEF Declare
<1>6. CASE \E n \in Names : DefineFunction(n)
  BY <1>6, DefineFunctionStep
<1>7. CASE \E n \in Names, kind \in {"scalar", "array"} : DeclareParameter(n, kind)
  BY <1>7, BindStep DEF DeclareParameter, Kinds
<1> QED  BY <1>1, <1>2, <1>3, <1>4, <1>5, <1>6, <1>7 DEF Next, EndOfProgram

(* The four stacks never get out of step with the program's scopes.        *)
THEOREM ScopeInvariant == Spec => []IInv
<1>1. Init => IInv
  BY InitInv
<1>2. IInv /\ [Next]_vars => IInv'
  BY StepInv
<1> QED  BY <1>1, <1>2, PTL DEF Spec

(* Through any nesting, shadowing and order of declarations, the look-ups  *)
(* of a variable, its dimensions and its initialiser find the declaration  *)
(* in force, and so does the look-up of a function.                        *)
THEOREM LookupsAreLexical == Spec => []LookupIsLexical
<1> QED  BY ScopeInvariant, LexicalInv, PTL

=============================================================================
