SPECIFICATION Spec
CONSTANTS
    number = number
    vector = vector
    struct = struct
    other = other
    args = args
    invalid = invalid
    nothing = nothing
    DebugValues <- MCDebugValues
    Compound <- MCCompound
    Children <- MCChildren
    TxnArgs = args
    Replay = TRUE
    Snapshots <- MCSnapshots
    NoSnapshot = nothing
    FRAME_LOCALS_OFFSET = 10
    EXPANDABLE_VARS_OFFSET = 12
    MaxExpandable = 4
INVARIANTS
    TypeOK
    ReferencesStayGood
    TableIsOfThisStop
