---------------------------- MODULE MCDominators ----------------------------
(* Every function of four blocks: loops, joins, dead blocks and irreducible *)
(* graphs among them.                                                       *)
EXTENDS Dominators

MCBlockList == <<1, 2, 3, 4>>

Terminators ==
    {<< >>} \cup {<<x>> : x \in 2 .. 4} \cup {<<x, y>> : x, y \in 2 .. 4}

MCGraphs == [Blocks -> {t \in Terminators : IsInjective(t)}]

=============================================================================
