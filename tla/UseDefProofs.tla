---------------------------- MODULE UseDefProofs ----------------------------
(***************************************************************************)
(* The use-def graph stays exact for any number of values, users and       *)
(* operands: proofs of UseDef's type invariant, of UseListExact and        *)
(* NoDangling, and of the postcondition of replace_all_use_with.           *)
(***************************************************************************)
EXTENDS UseDef, SequenceTheorems, TLAPS

USE UsersAssumption, NullAssumption, MaxOperandsAssumption

(* The state between the steps of a replacement: the new value is still    *)
(* there, and a user under destruction has given up its operands.          *)
ReplaceState ==
    /\ rep.to \in alive \cup {Null}
    /\ rep.dtor /\ rep.from \in Users => operands[rep.from] = << >>

IInv == TypeOK /\ UseListExact /\ NoDangling /\ ReplaceState

-----------------------------------------------------------------------------
(* A use is a user with an operand number.                                 *)
LEMMA UseMember ==
    /\ \A u \in Users, i \in ArgNo : <<u, i>> \in Use
    /\ \A use \in Use : use[1] \in Users /\ use[2] \in ArgNo /\ use = <<use[1], use[2]>>
    /\ \A u, x \in Users, i, k \in ArgNo : <<u, i>> = <<x, k>> <=> u = x /\ i = k
BY DEF Use

(* add_use and remove_use keep use lists well-typed.                       *)
LEMMA AddUseType ==
    ASSUME NEW us \in [Values -> [Use -> Nat]], NEW v \in Values \cup {Null},
           NEW u \in Users, NEW i \in ArgNo
    PROVE  AddUse(us, v, u, i) \in [Values -> [Use -> Nat]]
<1>1. CASE v = Null
  BY <1>1 DEF AddUse
<1>2. CASE v \in Values
  <2> DEFINE row == [us[v] EXCEPT ![<<u, i>>] = @ + 1]
  <2>1. us[v] \in [Use -> Nat] /\ us[v][<<u, i>>] + 1 \in Nat
    BY <1>2, UseMember
  <2>2. row \in [Use -> Nat]
    BY <2>1
  <2>3. AddUse(us, v, u, i) = [us EXCEPT ![v] = row]
    BY <1>2 DEF AddUse
  <2> HIDE DEF row
  <2> QED
    BY <1>2, <2>2, <2>3
<1> QED
  BY <1>1, <1>2

LEMMA RemoveUseType ==
    ASSUME NEW us \in [Values -> [Use -> Nat]], NEW v \in Values \cup {Null},
           NEW u \in Users, NEW i \in ArgNo
    PROVE  RemoveUse(us, v, u, i) \in [Values -> [Use -> Nat]]
BY UseMember DEF RemoveUse

(* The constructor of the initial state establishes the invariant.         *)
LEMMA InitInv == Init => IInv
BY UseMember DEF Init, IInv, TypeOK, UseListExact, NoDangling, ReplaceState, Idle

(* set_operand(i, v) of u keeps the two sides of the graph in agreement.   *)
LEMMA SetOperandExact ==
    ASSUME TypeOK, UseListExact,
           NEW u \in Users, NEW i \in ArgNo, NEW v \in Values \cup {Null},
           SetOperandTo(u, i, v)
    PROVE  /\ operands' \in [Users -> Seq(Values \cup {Null})]
           /\ \A x \in Users : DOMAIN operands'[x] = DOMAIN operands[x]
           /\ \A x \in Users : Len(operands'[x]) = Len(operands[x])
           /\ uses' \in [Values -> [Use -> Nat]]
           /\ UseListExact'
<1>1. i \in DOMAIN operands[u] /\ operands[u][i] \in Values \cup {Null}
  BY DEF SetOperandTo, TypeOK
<1>2. /\ operands' \in [Users -> Seq(Values \cup {Null})]
      /\ \A x \in Users : DOMAIN operands'[x] = DOMAIN operands[x]
      /\ \A x \in Users : Len(operands'[x]) = Len(operands[x])
  BY <1>1 DEF SetOperandTo, TypeOK
<1>3. uses' \in [Values -> [Use -> Nat]]
  BY <1>1, AddUseType, RemoveUseType DEF SetOperandTo, TypeOK
<1>4. UseListExact'
  <2> SUFFICES ASSUME NEW w \in Values, NEW x \in Users, NEW k \in ArgNo
               PROVE  uses'[w][<<x, k>>] =
                        IF k \in DOMAIN operands'[x] /\ operands'[x][k] = w THEN 1 ELSE 0
    BY DEF UseListExact
  <2> DEFINE mid == RemoveUse(uses, operands[u][i], u, i)
  <2>1. mid \in [Values -> [Use -> Nat]]
    BY <1>1, RemoveUseType DEF TypeOK
  <2>2. uses[w][<<x, k>>] =
          IF k \in DOMAIN operands[x] /\ operands[x][k] = w THEN 1 ELSE 0
    BY DEF UseListExact
  <2>3. mid[w][<<x, k>>] = IF x = u /\ k = i THEN 0 ELSE uses[w][<<x, k>>]
    BY <1>1, <2>2, UseMember DEF RemoveUse, TypeOK
  <2>4. uses'[w][<<x, k>>] =
          IF x = u /\ k = i /\ v = w THEN mid[w][<<x, k>>] + 1 ELSE mid[w][<<x, k>>]
    BY <2>1, UseMember DEF SetOperandTo, AddUse
  <2>5. operands'[x][k] = IF x = u /\ k = i THEN v ELSE operands[x][k]
    BY <1>1 DEF SetOperandTo, TypeOK
  <2> QED
    BY <1>1, <1>2, <2>2, <2>3, <2>4, <2>5
<1> QED
  BY <1>2, <1>3, <1>4

(* The use lists of everyone once u has dropped all its operands.          *)
LEMMA UsesWithoutExact ==
    ASSUME TypeOK, UseListExact, NEW u \in Users,
           uses' = UsesWithout(u),
           operands' = [operands EXCEPT ![u] = << >>]
    PROVE  /\ uses' \in [Values -> [Use -> Nat]]
           /\ operands' \in [Users -> Seq(Values \cup {Null})]
           /\ \A x \in Users : operands'[x] = IF x = u THEN << >> ELSE operands[x]
           /\ UseListExact'
<1>1. uses' \in [Values -> [Use -> Nat]]
  BY DEF UsesWithout, TypeOK
<1>2. \A x \in Users : operands'[x] = IF x = u THEN << >> ELSE operands[x]
  BY DEF TypeOK
<1>3. operands' \in [Users -> Seq(Values \cup {Null})]
  BY DEF TypeOK
<1>4. UseListExact'
  <2> SUFFICES ASSUME NEW w \in Values, NEW x \in Users, NEW k \in ArgNo
               PROVE  uses'[w][<<x, k>>] =
                        IF k \in DOMAIN operands'[x] /\ operands'[x][k] = w THEN 1 ELSE 0
    BY DEF UseListExact
  <2>1. uses[w][<<x, k>>] =
          IF k \in DOMAIN operands[x] /\ operands[x][k] = w THEN 1 ELSE 0
    BY DEF UseListExact
  <2>2. <<x, k>> \in Use /\ <<x, k>>[1] = x /\ <<x, k>>[2] = k
    BY UseMember
  <2>3. uses'[w][<<x, k>>] =
          IF x = u /\ k \in DOMAIN operands[u] /\ operands[u][k] = w
          THEN 0 ELSE uses[w][<<x, k>>]
    BY <2>2 DEF UsesWithout
  <2> QED
    BY <1>2, <2>1, <2>3
<1> QED
  BY <1>1, <1>2, <1>3, <1>4

-----------------------------------------------------------------------------
(* One lemma per action of UseDef.                                         *)
LEMMA CreateInv == ASSUME IInv, NEW v \in Values, Create(v) PROVE IInv'
<1>1. v \in Users => operands[v] = << >>
  BY DEF IInv, NoDangling, Create
<1>2. \A x \in Users : operands'[x] = operands[x]
  BY <1>1 DEF Create, IInv, TypeOK
<1>3. \A use \in Use : uses[v][use] = 0
  BY UseMember DEF IInv, NoDangling, Create, UseListExact, TypeOK
<1>4. \A w \in Values, use \in Use : uses'[w][use] = uses[w][use]
  BY <1>3 DEF Create, IInv, TypeOK
<1>5. uses' \in [Values -> [Use -> Nat]] /\ operands' \in [Users -> Seq(Values \cup {Null})]
  BY DEF Create, IInv, TypeOK
<1>6. TypeOK'
  BY <1>2, <1>5 DEF Create, IInv, TypeOK, Idle
<1>7. UseListExact'
  <2> SUFFICES ASSUME NEW w \in Values, NEW x \in Users, NEW k \in ArgNo
               PROVE  uses'[w][<<x, k>>] =
                        IF k \in DOMAIN operands'[x] /\ operands'[x][k] = w THEN 1 ELSE 0
    BY DEF UseListExact
  <2>1. uses'[w][<<x, k>>] = uses[w][<<x, k>>]
    BY <1>4, UseMember
  <2> QED
    BY <1>2, <2>1 DEF IInv, UseListExact
<1>8. NoDangling' /\ ReplaceState'
  BY <1>2 DEF Create, IInv, NoDangling, ReplaceState, Idle
<1> QED
  BY <1>6, <1>7, <1>8 DEF IInv

LEMMA AddOperandInv ==
    ASSUME IInv, NEW u \in Users, NEW v \in Values, AddOperand(u, v) PROVE IInv'
<1> DEFINE n == Len(operands[u]) + 1
<1>1. /\ operands[u] \in Seq(Values \cup {Null})
      /\ n \in ArgNo
      /\ n \notin DOMAIN operands[u]
  BY DEF IInv, TypeOK, AddOperand, Idle, ArgNo
<1>2. uses' \in [Values -> [Use -> Nat]]
  BY <1>1, AddUseType DEF AddOperand, IInv, TypeOK
<1>3. operands' \in [Users -> Seq(Values \cup {Null})]
  BY DEF AddOperand, IInv, TypeOK
<1>4. /\ \A x \in Users : Len(operands'[x]) = IF x = u THEN n ELSE Len(operands[x])
      /\ \A x \in Users : \A k \in ArgNo :
            k \in DOMAIN operands'[x] <=> (k \in DOMAIN operands[x] \/ (x = u /\ k = n))
      /\ \A x \in Users : \A k \in DOMAIN operands'[x] :
            operands'[x][k] = IF x = u /\ k = n THEN v ELSE operands[x][k]
  BY <1>1 DEF AddOperand, IInv, TypeOK
<1>5. UseListExact'
  <2> SUFFICES ASSUME NEW w \in Values, NEW x \in Users, NEW k \in ArgNo
               PROVE  uses'[w][<<x, k>>] =
                        IF k \in DOMAIN operands'[x] /\ operands'[x][k] = w THEN 1 ELSE 0
    BY DEF UseListExact
  <2>1. uses[w][<<x, k>>] =
          IF k \in DOMAIN operands[x] /\ operands[x][k] = w THEN 1 ELSE 0
    BY DEF UseListExact, IInv
  <2>2. uses'[w][<<x, k>>] =
          IF w = v /\ x = u /\ k = n THEN uses[w][<<x, k>>] + 1 ELSE uses[w][<<x, k>>]
    <3>1. uses' = [uses EXCEPT ![v][<<u, n>>] = @ + 1]
      BY DEF AddOperand, AddUse
    <3>2. uses \in [Values -> [Use -> Nat]] /\ n \in ArgNo
      BY <1>1 DEF IInv, TypeOK
    <3>3. /\ <<u, n>> \in Use
          /\ <<x, k>> \in Use
          /\ <<u, n>> = <<x, k>> <=> u = x /\ n = k
      BY <3>2, UseMember
    <3> HIDE DEF n
    <3> QED
      BY <3>1, <3>2, <3>3
  <2> QED
    BY <1>1, <1>4, <2>1, <2>2
<1>6. TypeOK'
  BY <1>1, <1>2, <1>3, <1>4 DEF AddOperand, IInv, TypeOK
<1>7. NoDangling'
  BY <1>1, <1>3, <1>4 DEF AddOperand, IInv, TypeOK, NoDangling
<1>8. ReplaceState'
  BY DEF AddOperand, IInv, ReplaceState, Idle
<1> QED
  BY <1>5, <1>6, <1>7, <1>8 DEF IInv

LEMMA SetOperandInv ==
    ASSUME IInv, NEW u \in Users, NEW i \in ArgNo, NEW v \in Values \cup {Null},
           SetOperand(u, i, v)
    PROVE  IInv'
<1>1. SetOperandTo(u, i, v) /\ v \in alive \cup {Null} /\ u \in alive
  BY DEF SetOperand
<1>2. /\ TypeOK' /\ UseListExact'
      /\ \A x \in Users : DOMAIN operands'[x] = DOMAIN operands[x]
  BY <1>1, SetOperandExact DEF SetOperand, IInv, TypeOK, Idle
<1>3. \A x \in Users : \A k \in DOMAIN operands[x] :
          operands'[x][k] = IF x = u /\ k = i THEN v ELSE operands[x][k]
  BY <1>1 DEF SetOperandTo, IInv, TypeOK
<1>4. NoDangling'
  BY <1>1, <1>2, <1>3 DEF SetOperand, IInv, TypeOK, NoDangling
<1>5. ReplaceState'
  BY DEF SetOperand, IInv, ReplaceState, Idle
<1> QED
  BY <1>2, <1>4, <1>5 DEF IInv

LEMMA RemoveAllOperandsInv ==
    ASSUME IInv, NEW u \in Users, RemoveAllOperands(u) PROVE IInv'
<1>1. /\ uses' \in [Values -> [Use -> Nat]]
      /\ operands' \in [Users -> Seq(Values \cup {Null})]
      /\ \A x \in Users : operands'[x] = IF x = u THEN << >> ELSE operands[x]
      /\ UseListExact'
  BY UsesWithoutExact DEF IInv, RemoveAllOperands
<1>2. TypeOK'
  BY <1>1 DEF RemoveAllOperands, IInv, TypeOK, Idle
<1>3. NoDangling' /\ ReplaceState'
  BY <1>1 DEF RemoveAllOperands, IInv, NoDangling, ReplaceState, Idle
<1> QED
  BY <1>1, <1>2, <1>3 DEF IInv

LEMMA ReplaceAllUseWithInv ==
    ASSUME IInv, NEW v \in Values, NEW w \in Values, ReplaceAllUseWith(v, w)
    PROVE  IInv'
BY DEF ReplaceAllUseWith, IInv, TypeOK, UseListExact, NoDangling, ReplaceState, Idle

LEMMA ReplaceOneInv == ASSUME IInv, ReplaceOne PROVE IInv'
<1>1. PICK use \in Use : /\ uses[rep.from][use] > 0
                         /\ SetOperandTo(use[1], use[2], rep.to)
  BY DEF ReplaceOne
<1> DEFINE u == use[1]
           i == use[2]
<1>2. u \in Users /\ i \in ArgNo
  BY UseMember
<1>3. rep.to \in alive \cup {Null} /\ rep.to \in Values \cup {Null}
  BY DEF IInv, TypeOK, ReplaceState
<1>4. /\ operands' \in [Users -> Seq(Values \cup {Null})]
      /\ uses' \in [Values -> [Use -> Nat]]
      /\ UseListExact'
      /\ \A x \in Users : DOMAIN operands'[x] = DOMAIN operands[x]
      /\ \A x \in Users : Len(operands'[x]) = Len(operands[x])
  BY <1>1, <1>2, <1>3, SetOperandExact DEF IInv
<1>5. TypeOK'
  BY <1>4 DEF ReplaceOne, IInv, TypeOK, Idle
<1>6. i \in DOMAIN operands[u]
  BY <1>1 DEF SetOperandTo
<1>7. \A x \in Users : \A k \in DOMAIN operands[x] :
          operands'[x][k] = IF x = u /\ k = i THEN rep.to ELSE operands[x][k]
  BY <1>1, <1>2 DEF SetOperandTo, IInv, TypeOK
<1>8. \A x \in Users : operands[x] = << >> => operands'[x] = << >>
  BY <1>4 DEF IInv, TypeOK
<1>9. NoDangling'
  <2> SUFFICES ASSUME NEW x \in Users
               PROVE  /\ \A k \in DOMAIN operands[x] :
                            operands'[x][k] \in alive \cup {Null}
                      /\ x \notin alive => operands'[x] = << >>
    BY <1>4 DEF ReplaceOne, NoDangling
  <2>1. \A k \in DOMAIN operands[x] : operands[x][k] \in alive \cup {Null}
    BY DEF IInv, NoDangling
  <2>2. x \notin alive => operands[x] = << >>
    BY DEF IInv, NoDangling
  <2> HIDE DEF u, i
  <2> QED
    BY <1>3, <1>7, <1>8, <2>1, <2>2
<1>10. ReplaceState'
  BY <1>8 DEF ReplaceOne, IInv, ReplaceState
<1> QED
  BY <1>4, <1>5, <1>9, <1>10 DEF IInv

(* Once the use list of the replaced value is empty, nobody has it as an   *)
(* operand any more.                                                       *)
LEMMA NoUserLeft ==
    ASSUME IInv, ReplaceDone, NEW u \in Users, NEW i \in DOMAIN operands[u]
    PROVE  operands[u][i] # rep.from
<1>1. rep.from \in Values
  BY DEF ReplaceDone, IInv, TypeOK
<1>2. i \in ArgNo
  BY DEF IInv, TypeOK, ArgNo
<1>3. uses[rep.from][<<u, i>>] = 0
  BY <1>2, UseMember DEF ReplaceDone
<1> QED
  BY <1>1, <1>2, <1>3 DEF IInv, UseListExact

LEMMA ReplaceDoneInv == ASSUME IInv, ReplaceDone PROVE IInv'
<1>1. TypeOK'
  BY DEF ReplaceDone, IInv, TypeOK, Idle
<1>2. UseListExact' /\ ReplaceState'
  BY DEF ReplaceDone, IInv, UseListExact, ReplaceState, Idle
<1>3. NoDangling'
  BY NoUserLeft DEF ReplaceDone, IInv, NoDangling, ReplaceState
<1> QED
  BY <1>1, <1>2, <1>3 DEF IInv

LEMMA DestroyInv == ASSUME IInv, NEW v \in Values, Destroy(v) PROVE IInv'
<1>1. CASE v \in Users
  <2>1. /\ uses' \in [Values -> [Use -> Nat]]
        /\ operands' \in [Users -> Seq(Values \cup {Null})]
        /\ \A x \in Users : operands'[x] = IF x = v THEN << >> ELSE operands[x]
        /\ UseListExact'
    BY <1>1, UsesWithoutExact DEF IInv, Destroy
  <2>2. TypeOK'
    BY <2>1 DEF Destroy, IInv, TypeOK, Idle
  <2>3. NoDangling' /\ ReplaceState'
    BY <1>1, <2>1 DEF Destroy, IInv, NoDangling, ReplaceState
  <2> QED
    BY <2>1, <2>2, <2>3 DEF IInv
<1>2. CASE v \notin Users
  BY <1>2 DEF Destroy, IInv, TypeOK, UseListExact, NoDangling, ReplaceState, Idle
<1> QED
  BY <1>1, <1>2

LEMMA ReplaceUseWithIfInv ==
    ASSUME IInv, NEW v \in Values, NEW w \in Values, NEW S \in SUBSET Use,
           ReplaceUseWithIf(v, w, S)
    PROVE  IInv'
<1>1. v # w /\ w \in alive
  BY DEF ReplaceUseWithIf
<1>2. \A x \in Users, k \in ArgNo :
          <<x, k>> \in S => k \in DOMAIN operands[x] /\ operands[x][k] = v
  BY UseMember DEF ReplaceUseWithIf, IInv, UseListExact
<1>3. /\ uses' \in [Values -> [Use -> Nat]]
      /\ \A y \in Values, use \in Use :
            uses'[y][use] = IF y = v /\ use \in S THEN 0
                            ELSE IF y = w /\ use \in S THEN uses[y][use] + 1
                            ELSE uses[y][use]
  <2> DEFINE rowV == [use \in Use |-> IF use \in S THEN 0 ELSE uses[v][use]]
             rowW == [use \in Use |-> IF use \in S THEN uses[w][use] + 1 ELSE uses[w][use]]
  <2>1. uses \in [Values -> [Use -> Nat]]
    BY DEF IInv, TypeOK
  <2>2. uses' = [uses EXCEPT ![v] = rowV, ![w] = rowW]
    BY <1>1, <2>1 DEF ReplaceUseWithIf
  <2>3. rowV \in [Use -> Nat] /\ rowW \in [Use -> Nat]
    BY <2>1
  <2>4. /\ \A z \in Use : rowV[z] = IF z \in S THEN 0 ELSE uses[v][z]
        /\ \A z \in Use : rowW[z] = IF z \in S THEN uses[w][z] + 1 ELSE uses[w][z]
    BY <2>1
  <2> HIDE DEF rowV, rowW
  <2> QED
    BY <1>1, <2>1, <2>2, <2>3, <2>4
<1>4. \A x \in Users :
          /\ operands'[x] \in Seq(Values \cup {Null})
          /\ DOMAIN operands'[x] = DOMAIN operands[x]
          /\ Len(operands'[x]) = Len(operands[x])
          /\ \A k \in DOMAIN operands[x] :
                operands'[x][k] = IF <<x, k>> \in S THEN w ELSE operands[x][k]
  <2> TAKE x \in Users
  <2>1. operands[x] \in Seq(Values \cup {Null})
    BY DEF IInv, TypeOK
  <2>2. operands'[x] = [k \in DOMAIN operands[x] |->
                          IF <<x, k>> \in S THEN w ELSE operands[x][k]]
    BY DEF ReplaceUseWithIf
  <2>3. operands'[x] \in [1 .. Len(operands[x]) -> Values \cup {Null}]
    BY <2>1, <2>2
  <2>4. /\ operands'[x] \in Seq(Values \cup {Null})
        /\ Len(operands'[x]) = Len(operands[x])
    BY <2>1, <2>3, SeqDef, LenProperties
  <2> QED
    BY <2>1, <2>2, <2>4
<1>5. TypeOK'
  <2>1. operands' \in [Users -> Seq(Values \cup {Null})]
    BY <1>4 DEF ReplaceUseWithIf
  <2> QED
    BY <1>3, <1>4, <2>1 DEF ReplaceUseWithIf, IInv, TypeOK, Idle
<1>6. UseListExact'
  <2> SUFFICES ASSUME NEW y \in Values, NEW x \in Users, NEW k \in ArgNo
               PROVE  uses'[y][<<x, k>>] =
                        IF k \in DOMAIN operands'[x] /\ operands'[x][k] = y THEN 1 ELSE 0
    BY DEF UseListExact
  <2>1. uses[y][<<x, k>>] =
          IF k \in DOMAIN operands[x] /\ operands[x][k] = y THEN 1 ELSE 0
    BY DEF IInv, UseListExact
  <2>2. uses'[y][<<x, k>>] = IF y = v /\ <<x, k>> \in S THEN 0
                             ELSE IF y = w /\ <<x, k>> \in S THEN uses[y][<<x, k>>] + 1
                             ELSE uses[y][<<x, k>>]
    BY <1>3, UseMember
  <2> QED
    BY <1>1, <1>2, <1>4, <2>1, <2>2
<1>7. NoDangling'
  BY <1>1, <1>4 DEF ReplaceUseWithIf, IInv, TypeOK, NoDangling
<1>8. ReplaceState'
  BY DEF ReplaceUseWithIf, IInv, ReplaceState, Idle
<1> QED
  BY <1>5, <1>6, <1>7, <1>8 DEF IInv

LEMMA NextInv == IInv /\ [Next]_vars => IInv'
<1> SUFFICES ASSUME IInv, [Next]_vars PROVE IInv'
  OBVIOUS
<1>1. CASE UNCHANGED vars
  BY <1>1 DEF vars, IInv, TypeOK, UseListExact, NoDangling, ReplaceState, Idle
<1>2. CASE Next
  BY <1>2, CreateInv, AddOperandInv, SetOperandInv, RemoveAllOperandsInv,
     ReplaceAllUseWithInv, ReplaceOneInv, ReplaceDoneInv, DestroyInv,
     ReplaceUseWithIfInv DEF Next
<1> QED
  BY <1>1, <1>2

LEMMA Invariance == Spec => []IInv
BY InitInv, NextInv, PTL DEF Spec

-----------------------------------------------------------------------------
(* Operand vectors and use lists stay well-formed, and no replacement of a *)
(* value with itself is ever entered, however many objects there are.      *)
THEOREM UseDefTypeCorrect == Spec => []TypeOK
<1>1. IInv => TypeOK
  BY DEF IInv
<1> QED
  BY <1>1, Invariance, PTL

(* Value::use_list_ and User::operands_ agree in every reachable state, in *)
(* the middle of replace_all_use_with too.                                 *)
THEOREM UseListsAreExact == Spec => []UseListExact
<1>1. IInv => UseListExact
  BY DEF IInv
<1> QED
  BY <1>1, Invariance, PTL

(* No operand points to a destroyed object: the destructors detach a user  *)
(* from its operands and from its own users before it goes.                *)
THEOREM OperandsNeverDangle == Spec => []NoDangling
<1>1. IInv => NoDangling
  BY DEF IInv
<1> QED
  BY <1>1, Invariance, PTL

(* A finished replace_all_use_with has left no operand equal to the        *)
(* replaced value in any user.                                             *)
THEOREM ReplacementIsComplete == Spec => ReplaceComplete
<1> DEFINE Step == rep # Idle /\ rep' = Idle =>
                     \A u \in Users : \A i \in DOMAIN operands'[u] :
                         operands'[u][i] # rep.from
<1>1. IInv /\ [Next]_vars => [Step]_vars
  <2> SUFFICES ASSUME IInv, Next, rep # Idle, rep' = Idle
               PROVE  \A u \in Users : \A i \in DOMAIN operands'[u] :
                          operands'[u][i] # rep.from
    BY DEF vars
  <2>1. ReplaceDone
    BY DEF Next, Create, AddOperand, SetOperand, RemoveAllOperands, ReplaceAllUseWith,
           ReplaceOne, Destroy, ReplaceUseWithIf
  <2> QED
    BY <2>1, NoUserLeft DEF ReplaceDone
<1> QED
  BY <1>1, Invariance, PTL DEF Spec, ReplaceComplete

=============================================================================
