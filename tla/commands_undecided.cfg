SPECIFICATION Spec
CONSTANTS
    Names <- MCNames
    Versions <- MCVersions
    Worlds <- UndecidedWorlds
    Requests <- UndecidedRequests
    FetchCache = FALSE
    MaxCommands = 2
    MaxFaults = 0
    MaxIterations = 60
INVARIANT NeverAsserted
