SPECIFICATION HSpec
CONSTANTS
    Lines = {l1}
    NoLine = NoLine
    Locals = {x}
    NoLocal = NoLocal
    Values = {v1, v2}
    Invalid = Invalid
    MaxDepth = 1
SYMMETRY Symmetry
INVARIANTS
    MovedLocalsFaithful
