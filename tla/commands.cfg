SPECIFICATION Spec
CONSTANTS
    Names <- MCNames
    Versions <- MCVersions
    Worlds <- MCWorlds
    Requests <- MCRequests
    FetchCache = FALSE
    MaxCommands = 2
    MaxFaults = 1
    MaxIterations = 60
INVARIANT NeverRefused
INVARIANT UnusedDropped
INVARIANT RequestMet
INVARIANT AdjustmentsNeeded
INVARIANT NeverAsserted
INVARIANT DowngradedForAReason
INVARIANT Terminates
PROPERTY ConfigurationKept
