------------------------ MODULE MCDapContextHistory ------------------------
(* Model checking of DapContextHistory.                                    *)
EXTENDS DapContextHistory, TLC

(* Lines and values are only ever compared with each other.                *)
Symmetry == Permutations(Lines) \cup Permutations(Values)
=============================================================================
