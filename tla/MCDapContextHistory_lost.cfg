SPECIFICATION HSpec
CONSTANTS
    Lines = {l1, l2}
    NoLine = NoLine
    Locals = {x}
    NoLocal = NoLocal
    Values = {v1}
    Invalid = Invalid
    MaxDepth = 1
INVARIANT NothingMovedIsLost
