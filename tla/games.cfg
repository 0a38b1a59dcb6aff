SPECIFICATION Spec
CONSTANTS
  b1 = b1
  b2 = b2
  Badges <- MCBadges
  Games <- MCGames
  MaxFlight = 2
  MaxDrops = 1
  MaxTexts = 1
  MaxEntries = 2
SYMMETRY Symmetry
INVARIANTS
  AppsTypeOK
  TasksFollowApps
  SnakeInFrontNotOver
PROPERTIES
  StrandedByRestore
CHECK_DEADLOCK FALSE
