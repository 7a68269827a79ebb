SPECIFICATION Spec
CONSTANTS
    p1 = p1
    p2 = p2
    s1 = s1
    s2 = s2
    Period = {p1}
    Slot = {s1}
    NULL = NULL
    Kinds = {"image", "spi"}
    Bumps = {"major"}
    MaxId = 2
INVARIANTS
    VersionsHaveFiles
    FlaggedRowNotShared
    TrashedRowWithdrawn
    IInv
VIEW FilesOfVersions
