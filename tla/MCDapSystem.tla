---------------------------- MODULE MCDapSystem ----------------------------
(* Model checking of DapSystem with one source file under one name: the    *)
(* lines are interchangeable.                                              *)
EXTENDS DapSystem, TLC

NoAlias == [a \in {} |-> Nil]

Symmetry == Permutations(LineNumbers)
=============================================================================
