SPECIFICATION SysSpec
CONSTANTS
    Files = {file}
    Aliases = {}
    CanonicalOf <- NoAlias
    MaxSessions = 1
    LineNumbers = {l1, l2}
    Replay = TRUE
    Nil = Nil
    MaxDepth = 1
    MaxStops = 2
    MaxCmds = 2
    MaxRenews = 0
CHECK_DEADLOCK FALSE
PROPERTY EntryBreakpointIsReported
