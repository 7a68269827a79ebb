SPECIFICATION FairSpec
CONSTANTS
  Nothing = Nothing
  Initial = Initial
  Phantom = Phantom
  Meta = Meta
  Event = Event
  MaxVersions = 2
  MaxTasks = 2
  MaxClicks = 2
  MaxPosts = 2
  MaxEffort = 4
INVARIANTS
  ShownIsHeld
  StoredWithItsVersion
  ScreenIsStored
PROPERTIES
  LinksKept
  AddedIsStored
CHECK_DEADLOCK FALSE
CONSTRAINT Explored
