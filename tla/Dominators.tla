----------------------------- MODULE Dominators -----------------------------
(***************************************************************************)
(* The dominator analysis of one function (passes/Dominators.cpp): a       *)
(* depth-first walk numbers the blocks in post-order, a fixed-point        *)
(* iteration in reverse post-order finds the immediate dominators, and two *)
(* passes over the blocks derive the dominance frontiers and the children  *)
(* in the dominator tree.  Mem2Reg places and fills phis from the result.  *)
(*                                                                         *)
(* The control-flow graph is input: succ[b] is the successor list of b.    *)
(* The order of a predecessor list is the order in which branches were     *)
(* built, any order here.  Null stands for nullptr.                        *)
(***************************************************************************)
EXTENDS Integers, Sequences, FiniteSets, SequencesExt

CONSTANTS
    BlockList, \* the basic blocks of the function, in order
    Entry,     \* its entry block
    Null,      \* nullptr
    Graphs     \* the successor functions to analyse

Blocks == ToSet(BlockList)

ASSUME BlockListAssumption == BlockList \in Seq(Blocks) /\ IsInjective(BlockList)
ASSUME EntryAssumption == Entry \in Blocks
ASSUME NullAssumption == Null \notin Blocks
(* A terminator has at most two targets, and nothing branches to the entry. *)
ASSUME GraphsAssumption ==
    \A g \in Graphs :
        /\ g \in [Blocks -> Seq(Blocks \ {Entry})]
        /\ \A b \in Blocks : Len(g[b]) <= 2

VARIABLES
    succ,     \* BasicBlock::succ_bbs_
    pc,       \* the phase of run(), or "throw" after std::out_of_range
    stack,    \* activations of post_order_visit: block and next successor
    visited,
    rpo,      \* reverse_post_order_
    poId,     \* post_order_id_
    idom,     \* idom_
    changed,  \* the flag of create_idom
    todo,     \* what the current loop over a list has left
    df,       \* dom_frontier_
    tree      \* dom_tree_succ_blocks_

graphVars == <<stack, visited, rpo, poId>>
idomVars == <<idom, changed>>
resultVars == <<df, tree>>
vars == <<succ, pc, stack, visited, rpo, poId, idom, changed, todo, df, tree>>

PredEdges(b) ==
    {e \in Blocks \X {1, 2} : e[2] \in DOMAIN succ[e[1]] /\ succ[e[1]][e[2]] = b}
Preds(b) == {e[1] : e \in PredEdges(b)}

(* The members before and at the call of create_reverse_post_order.        *)
InitFor(g) ==
    /\ succ = g
    /\ stack = <<[bb |-> Entry, next |-> 1]>>
    /\ visited = {Entry}
    /\ rpo = << >>
    /\ poId = [b \in Blocks |-> 0]
    /\ idom = [b \in Blocks |-> Null]
    /\ changed = FALSE
    /\ todo = << >>
    /\ df = [b \in Blocks \cup {Null} |-> {}]
    /\ tree = [b \in Blocks \cup {Null} |-> {}]

Init == pc = "visit" /\ \E g \in Graphs : InitFor(g)

-----------------------------------------------------------------------------
(* post_order_visit: the next successor of the block on top, entered if it *)
(* has not been visited.                                                   *)
VisitSucc ==
    LET top == Last(stack)
        s == succ[top.bb][top.next]
        rest == [stack EXCEPT ![Len(stack)].next = @ + 1]
    IN
    /\ pc = "visit"
    /\ stack # << >>
    /\ top.next \in DOMAIN succ[top.bb]
    /\ IF s \in visited
       THEN stack' = rest /\ UNCHANGED visited
       ELSE stack' = Append(rest, [bb |-> s, next |-> 1]) /\ visited' = visited \cup {s}
    /\ UNCHANGED <<succ, pc, rpo, poId, todo, idomVars, resultVars>>

VisitDone ==
    LET top == Last(stack) IN
    /\ pc = "visit"
    /\ stack # << >>
    /\ top.next \notin DOMAIN succ[top.bb]
    /\ poId' = [poId EXCEPT ![top.bb] = Len(rpo)]
    /\ rpo' = Append(rpo, top.bb)
    /\ stack' = Front(stack)
    /\ UNCHANGED <<succ, pc, visited, todo, idomVars, resultVars>>

(* create_reverse_post_order returns; create_idom resets idom_ and enters  *)
(* its loop.                                                               *)
StartIdom ==
    /\ pc = "visit"
    /\ stack = << >>
    /\ pc' = "idom"
    /\ rpo' = Reverse(rpo)
    /\ todo' = Reverse(rpo)
    /\ idom' = [b \in Blocks |-> IF b = Entry THEN Entry ELSE Null]
    /\ changed' = FALSE
    /\ UNCHANGED <<succ, stack, visited, poId, resultVars>>

-----------------------------------------------------------------------------
(* The blocks create_idom has given a dominator so far.                     *)
Processed == {b \in Blocks : idom[b] # Null}

(* intersect: the finger with the smaller number climbs until both meet.   *)
Intersect(b1, b2) ==
    LET meet[finger \in Processed \X Processed] ==
            IF finger[1] = finger[2] THEN finger[1]
            ELSE IF poId[finger[1]] < poId[finger[2]]
            THEN meet[<<idom[finger[1]], finger[2]>>]
            ELSE meet[<<finger[1], idom[finger[2]]>>]
    IN  meet[<<b1, b2>>]

(* Fault: the block's first processed predecessor is taken as it is.       *)
NewIdomFirst(pres) == IF pres = << >> THEN Null ELSE Head(pres)

(* The value create_idom computes for a block from its processed           *)
(* predecessors, in the order of the list: all of them intersected,        *)
(* nullptr if there is none.                                               *)
NewIdom(pres) ==
    LET new_idom[k \in DOMAIN pres] ==
            IF k = 1 THEN pres[1] ELSE Intersect(pres[k], new_idom[k - 1])
    IN  IF pres = << >> THEN Null ELSE new_idom[Len(pres)]

IdomBlock ==
    /\ pc = "idom"
    /\ todo # << >>
    /\ LET bb == Head(todo) IN
       IF bb = Entry THEN UNCHANGED idomVars
       ELSE \E pres \in SetToSeqs(Preds(bb) \cap Processed) :
              /\ idom' = [idom EXCEPT ![bb] = NewIdom(pres)]
              /\ changed' = (changed \/ idom'[bb] # idom[bb])
    /\ todo' = Tail(todo)
    /\ UNCHANGED <<succ, pc, graphVars, resultVars>>

(* Fault: one sweep, whatever it changed.                                  *)
IdomSweepOnce ==
    /\ pc = "idom"
    /\ todo = << >>
    /\ changed' = FALSE
    /\ pc' = "frontier" /\ todo' = BlockList
    /\ UNCHANGED <<succ, graphVars, idom, resultVars>>

(* Fault: the flag is not cleared before the next sweep.                   *)
IdomSweepKeepsFlag ==
    /\ pc = "idom"
    /\ todo = << >>
    /\ IF changed
       THEN pc' = pc /\ todo' = rpo
       ELSE pc' = "frontier" /\ todo' = BlockList
    /\ UNCHANGED <<succ, graphVars, idomVars, resultVars>>

(* The end of a sweep: another one while something changed.                *)
IdomSweepDone ==
    /\ pc = "idom"
    /\ todo = << >>
    /\ changed' = FALSE
    /\ IF changed
       THEN pc' = pc /\ todo' = rpo
       ELSE pc' = "frontier" /\ todo' = BlockList
    /\ UNCHANGED <<succ, graphVars, idom, resultVars>>

-----------------------------------------------------------------------------
(* The runners from predecessor p up to, and without, idom(bb).  A runner  *)
(* that leaves the tree is Null, and get_idom(nullptr) throws.             *)
Runners(bb, p) ==
    LET climb[r \in Blocks \cup {Null}] ==
            IF r = idom[bb] THEN {}
            ELSE IF r = Null THEN {Null}
            ELSE {r} \cup climb[idom[r]]
    IN  climb[p]

FrontierThreePreds ==                   \* Fault: > 2 for >= 2
    /\ pc = "frontier"
    /\ todo # << >>
    /\ LET bb == Head(todo)
           runners == IF Cardinality(PredEdges(bb)) > 2
                      THEN UNION {Runners(bb, p) : p \in Preds(bb)} ELSE {}
       IN  /\ df' = [r \in DOMAIN df |-> IF r \in runners THEN df[r] \cup {bb} ELSE df[r]]
           /\ pc' = IF Null \in runners THEN "throw" ELSE pc
    /\ todo' = Tail(todo)
    /\ UNCHANGED <<succ, graphVars, idomVars, tree>>

FrontierBlock ==
    /\ pc = "frontier"
    /\ todo # << >>
    /\ LET bb == Head(todo)
           runners == IF Cardinality(PredEdges(bb)) >= 2
                      THEN UNION {Runners(bb, p) : p \in Preds(bb)} ELSE {}
       IN  /\ df' = [r \in DOMAIN df |-> IF r \in runners THEN df[r] \cup {bb} ELSE df[r]]
           /\ pc' = IF Null \in runners THEN "throw" ELSE pc
    /\ todo' = Tail(todo)
    /\ UNCHANGED <<succ, graphVars, idomVars, tree>>

(* create_dom_tree_succ: unreachable blocks are filed under nullptr.       *)
CreateTree ==
    /\ pc = "frontier"
    /\ todo = << >>
    /\ pc' = "done"
    /\ tree' = [d \in DOMAIN tree |-> {b \in Blocks : idom[b] = d /\ d # b}]
    /\ UNCHANGED <<succ, todo, graphVars, idomVars, df>>

Finished == pc \in {"done", "throw"} /\ UNCHANGED vars

Step == \/ VisitSucc \/ VisitDone \/ StartIdom
        \/ IdomBlock \/ IdomSweepDone
        \/ FrontierBlock \/ CreateTree

Next == Step \/ Finished

(* The analysis is one thread that never waits.                            *)
Spec == Init /\ [][Next]_vars /\ WF_vars(Step)

-----------------------------------------------------------------------------
(* Reference definitions, from the paths of the graph: what the entry      *)
(* reaches without passing through cut is the least set with the entry in  *)
(* it that no edge leaves, but to cut.                                     *)
ClosedBut(cut, S) ==
    /\ Entry # cut => Entry \in S
    /\ \A b \in S : ToSet(succ[b]) \ {cut} \subseteq S

ReachAvoiding(cut) ==
    LET closed == {S \in SUBSET Blocks : ClosedBut(cut, S)}
    IN  {b \in Blocks : \A S \in closed : b \in S}

Reachable == ReachAvoiding(Null)

(* d dominates b: without d the entry does not reach b.                    *)
Dom(d, b) == d = b \/ b \notin ReachAvoiding(d)
StrictDom(d, b) == d # b /\ Dom(d, b)

(* create_idom ends with the immediate dominator of every reachable block: *)
(* a strict dominator that every other strict dominator dominates.  Blocks *)
(* the entry does not reach have none.                                     *)
IdomCorrect ==
    pc \in {"frontier", "done", "throw"} =>
      \A b \in Blocks :
        IF b = Entry THEN idom[b] = Entry
        ELSE IF b \notin Reachable THEN idom[b] = Null
        ELSE /\ idom[b] \in Blocks
             /\ StrictDom(idom[b], b)
             /\ \A d \in Reachable : StrictDom(d, b) => Dom(d, idom[b])

(* The dominance frontier of a block is where its dominance ends: the      *)
(* blocks with a predecessor it dominates that it does not itself strictly *)
(* dominate.  Phi placement is complete only if none is missing.           *)
FrontierCorrect ==
    pc = "done" =>
      \A b \in Reachable :
        df[b] \cap Reachable =
          {y \in Reachable : ~StrictDom(b, y) /\ \E p \in Preds(y) \cap Reachable : Dom(b, p)}

(* The frontier walk throws exactly when a reachable join has a            *)
(* predecessor the entry does not reach.                                   *)
ThrowsOnlyOnDeadPred ==
    /\ pc = "throw" =>
         \E b \in Reachable : Cardinality(PredEdges(b)) >= 2 /\ ~(Preds(b) \subseteq Reachable)
    /\ pc = "done" =>
         \A b \in Reachable : Cardinality(PredEdges(b)) >= 2 => Preds(b) \subseteq Reachable

(* A block that has an immediate dominator only ever exchanges it for one  *)
(* further up (a larger post-order number), so the iteration terminates.   *)
IdomOnlyClimbs ==
    [][ pc = "idom" /\ pc' = "idom" =>
          \A b \in Blocks : idom[b] # Null =>
              idom'[b] # Null /\ poId[idom'[b]] >= poId[idom[b]] ]_vars

(* The analysis ends on every graph, by returning or by throwing.          *)
Terminates == <>(pc \in {"done", "throw"})

=============================================================================
