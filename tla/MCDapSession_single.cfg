SPECIFICATION Spec
CONSTANTS
    file = file
    other = other
    alias = alias
    Files <- TwoFiles
    Aliases <- MCAliases
    CanonicalOf <- MCCanonicalOf
    LineNumbers = {1}
    Replay = FALSE
    MaxSessions = 1
    MaxStops = 3
    MaxCmds = 2
    MaxRenews = 1
CHECK_DEADLOCK FALSE
INVARIANT FilesKeepLastRequest
PROPERTIES
    HandlersEnd
    FirstThreadKeepsPromise
    EveryStopIsTaken
    EveryStepCounts
