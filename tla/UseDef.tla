------------------------------- MODULE UseDef -------------------------------
(***************************************************************************)
(* The use-def graph of the lightir: every Value keeps the list of its     *)
(* uses (use_list_), every User keeps the vector of its operands, and the  *)
(* two are updated by separate loops in Value.cpp and User.cpp.  Dead-code *)
(* elimination, mem2reg and the purity analysis read one side to change    *)
(* the other, so they are correct only while the two sides agree.          *)
(*                                                                         *)
(* A use list is modelled as a bag, uses[v][<<u, i>>] being the number of  *)
(* list nodes Use(u, i) of v: the order of the list only decides the order *)
(* in which replace_all_use_with visits it, which is left open here.       *)
(* Operand numbers start at 1 where the code starts at 0.                  *)
(***************************************************************************)
EXTENDS Integers, Sequences

CONSTANTS
    Values,      \* addresses of Value objects
    Users,       \* those of them that are User objects (instructions)
    Null,        \* nullptr
    MaxOperands  \* bound: longest operand vector explored

ASSUME UsersAssumption == Users \subseteq Values
ASSUME NullAssumption == Null \notin Values
ASSUME MaxOperandsAssumption == MaxOperands \in Nat

VARIABLES
    alive,     \* the objects constructed and not destroyed
    operands,  \* User::operands_
    uses,      \* Value::use_list_
    rep        \* the replace_all_use_with in progress, or Idle

vars == <<alive, operands, uses, rep>>

ArgNo == 1 .. MaxOperands
Use == Users \X ArgNo
Idle == [from |-> Null, to |-> Null, dtor |-> FALSE]

-----------------------------------------------------------------------------
(* Value::add_use appends a node, Value::remove_use drops every equal one; *)
(* both are called behind a test for nullptr.                              *)
AddUse(us, v, u, i) ==
    IF v = Null THEN us ELSE [us EXCEPT ![v][<<u, i>>] = @ + 1]

RemoveUse(us, v, u, i) ==
    IF v = Null THEN us ELSE [us EXCEPT ![v][<<u, i>>] = 0]

Init ==
    /\ alive = {}
    /\ operands = [u \in Users |-> << >>]
    /\ uses = [v \in Values |-> [use \in Use |-> 0]]
    /\ rep = Idle

(* The constructors: a Value starts unused, a User without operands. *)
Create(v) ==
    /\ rep = Idle
    /\ v \notin alive
    /\ alive' = alive \cup {v}
    /\ uses' = [uses EXCEPT ![v] = [use \in Use |-> 0]]
    /\ operands' = IF v \in Users THEN [operands EXCEPT ![v] = << >>] ELSE operands
    /\ UNCHANGED rep

(* Fault: the operand is stored and the use is not recorded. *)
AddOperandUnrecorded(u, v) ==
    /\ rep = Idle
    /\ {u, v} \subseteq alive
    /\ Len(operands[u]) < MaxOperands
    /\ operands' = [operands EXCEPT ![u] = Append(@, v)]
    /\ UNCHANGED <<alive, uses, rep>>

AddOperand(u, v) ==
    /\ rep = Idle
    /\ {u, v} \subseteq alive
    /\ Len(operands[u]) < MaxOperands
    /\ uses' = AddUse(uses, v, u, Len(operands[u]) + 1)
    /\ operands' = [operands EXCEPT ![u] = Append(@, v)]
    /\ UNCHANGED <<alive, rep>>

(* Fault: the old operand keeps the use. *)
SetOperandToKeepOld(u, i, v) ==
    /\ i \in DOMAIN operands[u]
    /\ uses' = AddUse(uses, v, u, i)
    /\ operands' = [operands EXCEPT ![u][i] = v]

(* The body of set_operand, which replace_all_use_with calls as well. *)
SetOperandTo(u, i, v) ==
    /\ i \in DOMAIN operands[u]
    /\ uses' = AddUse(RemoveUse(uses, operands[u][i], u, i), v, u, i)
    /\ operands' = [operands EXCEPT ![u][i] = v]

SetOperand(u, i, v) ==
    /\ rep = Idle
    /\ u \in alive
    /\ v \in alive \cup {Null}
    /\ SetOperandTo(u, i, v)
    /\ UNCHANGED <<alive, rep>>

(* The uses after remove_all_operands of u has walked its operand vector. *)
UsesWithout(u) ==
    [v \in Values |->
        [use \in Use |->
            IF /\ use[1] = u
               /\ use[2] \in DOMAIN operands[u]
               /\ operands[u][use[2]] = v
            THEN 0 ELSE uses[v][use]]]

RemoveAllOperands(u) ==
    /\ rep = Idle
    /\ u \in alive
    /\ uses' = UsesWithout(u)
    /\ operands' = [operands EXCEPT ![u] = << >>]
    /\ UNCHANGED <<alive, rep>>

-----------------------------------------------------------------------------
(* replace_all_use_with returns at once for new_val = this, and otherwise  *)
(* calls set_operand on the front use until the list is empty.             *)
ReplaceAllUseWithSelf(v, w) ==          \* Fault: no early return
    /\ rep = Idle
    /\ {v, w} \subseteq alive
    /\ rep' = [from |-> v, to |-> w, dtor |-> FALSE]
    /\ UNCHANGED <<alive, operands, uses>>

ReplaceAllUseWith(v, w) ==
    /\ rep = Idle
    /\ v # w
    /\ {v, w} \subseteq alive
    /\ rep' = [from |-> v, to |-> w, dtor |-> FALSE]
    /\ UNCHANGED <<alive, operands, uses>>

ReplaceOne ==
    /\ rep # Idle
    /\ \E use \in Use :
          /\ uses[rep.from][use] > 0
          /\ SetOperandTo(use[1], use[2], rep.to)
    /\ UNCHANGED <<alive, rep>>

ReplaceDone ==
    /\ rep # Idle
    /\ \A use \in Use : uses[rep.from][use] = 0
    /\ rep' = Idle
    /\ alive' = IF rep.dtor THEN alive \ {rep.from} ELSE alive
    /\ UNCHANGED <<operands, uses>>

(* The destructors: ~User is remove_all_operands, then ~Value is           *)
(* replace_all_use_with(nullptr).                                          *)
DestroyKeepOperands(v) ==               \* Fault: ~User forgets its operands
    /\ rep = Idle
    /\ v \in alive
    /\ rep' = [from |-> v, to |-> Null, dtor |-> TRUE]
    /\ UNCHANGED <<alive, operands, uses>>

Destroy(v) ==
    /\ rep = Idle
    /\ v \in alive
    /\ rep' = [from |-> v, to |-> Null, dtor |-> TRUE]
    /\ IF v \in Users
       THEN /\ uses' = UsesWithout(v)
            /\ operands' = [operands EXCEPT ![v] = << >>]
       ELSE UNCHANGED <<operands, uses>>
    /\ UNCHANGED alive

(* replace_use_with_if walks the list once; S are the uses the predicate   *)
(* accepts.                                                                *)
ReplaceUseWithIf(v, w, S) ==
    /\ rep = Idle
    /\ v # w
    /\ {v, w} \subseteq alive
    /\ S \subseteq {use \in Use : uses[v][use] > 0}
    /\ uses' = [uses EXCEPT
                  ![v] = [use \in Use |-> IF use \in S THEN 0 ELSE @[use]],
                  ![w] = [use \in Use |-> IF use \in S THEN @[use] + 1 ELSE @[use]]]
    /\ operands' = [u \in Users |-> [i \in DOMAIN operands[u] |->
                       IF <<u, i>> \in S THEN w ELSE operands[u][i]]]
    /\ UNCHANGED <<alive, rep>>

Next ==
    \/ \E v \in Values : Create(v)
    \/ \E u \in Users, v \in Values : AddOperand(u, v)
    \/ \E u \in Users, i \in ArgNo, v \in Values \cup {Null} : SetOperand(u, i, v)
    \/ \E u \in Users : RemoveAllOperands(u)
    \/ \E v, w \in Values : ReplaceAllUseWith(v, w)
    \/ ReplaceOne
    \/ ReplaceDone
    \/ \E v \in Values : Destroy(v)
    \/ \E v, w \in Values : \E S \in SUBSET Use : ReplaceUseWithIf(v, w, S)

(* One thread runs the compiler: a loop it has entered keeps running. *)
Spec == Init /\ [][Next]_vars /\ WF_vars(ReplaceOne \/ ReplaceDone)

-----------------------------------------------------------------------------
(* Types, and the early return of replace_all_use_with: a value is never   *)
(* being replaced with itself.                                             *)
TypeOK ==
    /\ alive \in SUBSET Values
    /\ operands \in [Users -> Seq(Values \cup {Null})]
    /\ \A u \in Users : Len(operands[u]) <= MaxOperands
    /\ uses \in [Values -> [Use -> Nat]]
    /\ rep \in [from : Values \cup {Null}, to : Values \cup {Null}, dtor : BOOLEAN]
    /\ rep = Idle \/ (rep.from \in alive /\ rep.from # rep.to)

(* The two sides of the graph agree: value v records Use(u, i) exactly     *)
(* once if it is operand i of u, and not at all otherwise (Value.hpp: "who *)
(* use this value"), in the middle of a replacement loop too.              *)
UseListExact ==
    \A v \in Values, u \in Users, i \in ArgNo :
        uses[v][<<u, i>>] =
            IF i \in DOMAIN operands[u] /\ operands[u][i] = v THEN 1 ELSE 0

(* No operand points to a destroyed object, and a destroyed user has no    *)
(* operands left, so that by UseListExact no use list names it.            *)
NoDangling ==
    \A u \in Users :
        /\ \A i \in DOMAIN operands[u] : operands[u][i] \in alive \cup {Null}
        /\ u \notin alive => operands[u] = << >>

(* When replace_all_use_with (or a destructor) returns, no user anywhere   *)
(* still has the replaced value as an operand.                             *)
ReplaceComplete ==
    [][ rep # Idle /\ rep' = Idle =>
          \A u \in Users : \A i \in DOMAIN operands'[u] :
              operands'[u][i] # rep.from ]_vars

(* The loop of replace_all_use_with, which runs "while use_list_.size()"   *)
(* and only shrinks the list through set_operand, terminates.              *)
ReplaceTerminates == (rep # Idle) ~> (rep = Idle)

=============================================================================
