SPECIFICATION Spec
CONSTANTS
    None = None
    HostVersion = 2
    Kind <- MCKind
    Worlds <- MCWorlds
    Others = {"xdev"}
    MaxOutside = 1
INVARIANT PromiseKept
INVARIANT NotForced
INVARIANT AssertedOnlyIfShared
INVARIANT VersionMeant
