SPECIFICATION Spec
CONSTANTS
    Numbers = {3, 4}
    Bytes = {65, 255}
    Addresses = {"0x1", "0x2"}
    MaxLen = 2
    StringName = "String"
    Declared <- MCDeclared
    Source <- MCSource
    LocalTypes <- MCLocalTypes
    TypeArgs <- MCTypeArgs
CHECK_DEADLOCK FALSE
INVARIANTS
    KnownLocalIsShownInFull
    NothingIsHidden
    ArgumentAgreesWithLocal
