SPECIFICATION Spec
CONSTANTS
    file = file
    other = other
    alias = alias
    Files <- OneFile
    Aliases <- MCAliases
    CanonicalOf <- MCCanonicalOf
    LineNumbers = {1}
    Replay = TRUE
    MaxSessions = 2
    MaxStops = 1
    MaxCmds = 2
    MaxRenews = 0
CHECK_DEADLOCK FALSE
PROPERTIES
    HandlersEnd
    AbandonedThreadsEnd
