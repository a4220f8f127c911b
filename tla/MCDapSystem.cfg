SPECIFICATION SysSpec
CONSTANTS
    Files = {file}
    Aliases = {}
    CanonicalOf <- NoAlias
    MaxSessions = 1
    LineNumbers = {l1,l2}
    Replay = FALSE
    Nil = Nil
    MaxDepth = 1
    MaxStops = 3
    MaxCmds = 2
    MaxRenews = 1
SYMMETRY Symmetry
CHECK_DEADLOCK FALSE
INVARIANTS
    SysTypeOK
    ClientStopsAtBreakpoints
PROPERTIES
    SystemIsSession
    ClientStopsAreAskedFor
