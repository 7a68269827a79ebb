SPECIFICATION Spec
CONSTANTS
  Slots = {a, b}
  Nothing = Nothing
  MaxRevs = 3
  MaxRequests = 3
PROPERTIES
  UnsavedIsFlushed
CHECK_DEADLOCK FALSE
