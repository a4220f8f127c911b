SPECIFICATION FairHSpec
CONSTANTS
    Lines = {l1, l2}
    NoLine = NoLine
    Locals = {}
    NoLocal = NoLocal
    Values = {}
    Invalid = Invalid
    MaxDepth = 2
INVARIANTS
    TypeOK
    NoMissedBreakpoint
    SlotInv
    StepEndsWhereAsked
PROPERTIES
    DuplicateHitOnlyAfterNestedHit
    KeepsPromise
