SPECIFICATION VersionsSpec
CONSTANTS
    p1 = p1
    p2 = p2
    s1 = s1
    s2 = s2
    Period = {p1}
    Slot = {s1}
    NULL = NULL
    Kinds = {"pdf"}
    Bumps = {"minor", "major", "audit_start"}
    MaxId = 4

INVARIANTS
    CurrentOwned
    CurrentIsLatest
    ApprovedNamesVersion
CHECK_DEADLOCK FALSE
VIEW FilesOfVersions
