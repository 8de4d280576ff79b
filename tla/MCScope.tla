------------------------------ MODULE MCScope ------------------------------
(* Two names, a variable and a function among them or both the same.      *)
EXTENDS Scope

CONSTANTS a, f

MCNames == {a, f}

=============================================================================
