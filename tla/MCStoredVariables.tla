------------------------- MODULE MCStoredVariables -------------------------
(* Model checking of StoredVariables: a struct with a vector and a number  *)
(* in it, two stops that differ in what they show, and offsets so close    *)
(* that the frames fill the range between them.                            *)
EXTENDS StoredVariables

CONSTANTS number, vector, struct, other, args, invalid, nothing

MCDebugValues == {number, vector, struct, other, args, invalid}
MCCompound    == {vector, struct, other, args}
MCChildren    ==
    [v \in MCDebugValues |->
        CASE v = struct -> <<number, vector>>
          [] v = vector -> <<number>>
          [] v = args   -> <<vector, number>>
          [] OTHER      -> <<>>]
MCSnapshots   ==
    {<< <<struct, invalid>>, <<vector>> >>, << <<number, other>> >>}
=============================================================================
