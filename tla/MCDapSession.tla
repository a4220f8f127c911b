---------------------------- MODULE MCDapSession ----------------------------
(* Model checking of DapSession: source files one of which has a second    *)
(* name.                                                                   *)
EXTENDS DapSession

CONSTANTS file, other, alias

OneFile       == {file}
TwoFiles      == {file, other}
MCAliases     == {alias}
MCCanonicalOf == [a \in {alias} |-> file]
=============================================================================
