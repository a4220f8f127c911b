SPECIFICATION SafetySpec
CONSTANTS
    file = file
    other = other
    alias = alias
    Files <- OneFile
    Aliases <- MCAliases
    CanonicalOf <- MCCanonicalOf
    LineNumbers = {1}
    Replay = FALSE
    MaxSessions = 2
    MaxStops = 2
    MaxCmds = 2
    MaxRenews = 1
CHECK_DEADLOCK FALSE
INVARIANTS
    TypeOK
    Lockstep
    ClientSeesCurrentStop
    ClientHearsHowItEnded
    NoMutualWait
    BreakpointsInSync
    CommandsAreForThisStop
