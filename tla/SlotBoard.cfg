SPECIFICATION Spec
CONSTANTS
  Slots = {s, t}
  MaxDocs = 2
  MaxFiles = 2
  MaxRequests = 4
  Nothing = Nothing
INVARIANTS
  ShownIsThere
  NothingMissing
  ActiveIsShown
SYMMETRY SlotSymmetry
CONSTRAINT Undisturbed
CHECK_DEADLOCK FALSE
