SPECIFICATION FairSpec
CONSTANTS
  Slots = {a, b}
  Nothing = Nothing
  MaxRevs = 3
  MaxRequests = 3
INVARIANTS
  LinksResolve
  HonestWhenAlone
PROPERTIES
  DirtyIsSaved
CHECK_DEADLOCK FALSE
