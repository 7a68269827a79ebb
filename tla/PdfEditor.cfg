SPECIFICATION FairSpec
CONSTANTS
  Docs = {a, b}
  Nothing = Nothing
  MaxEdits = 3
  UndoLimit = 2
INVARIANTS
  StacksBounded
  UndoChains
  OwnFile
  NothingForgotten
PROPERTIES
  EditsReachServer
CHECK_DEADLOCK FALSE
CONSTRAINT Undisturbed
