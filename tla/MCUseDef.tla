------------------------------ MODULE MCUseDef ------------------------------
(* Two instructions that may use each other and themselves, and two plain  *)
(* values (a constant and an argument).                                    *)
EXTENDS UseDef

CONSTANTS i1, i2, a, b

MCUsers == {i1, i2}
MCValues == {i1, i2, a, b}

=============================================================================
