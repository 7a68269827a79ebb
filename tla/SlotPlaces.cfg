SPECIFICATION PlacesSpec
CONSTANTS
    p1 = p1
    p2 = p2
    s1 = s1
    s2 = s2
    Period = {p1, p2}
    Slot = {s1, s2}
    NULL = NULL
    Kinds = {"pdf"}
    Bumps = {}
    MaxId = 2
SYMMETRY MatrixSymmetry
INVARIANTS
    VersionsOwned
    RowShowsOwnVersion
PROPERTIES
    ImplementsMatrix
CHECK_DEADLOCK FALSE
VIEW FilesOfVersions
