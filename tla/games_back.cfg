SPECIFICATION Spec
CONSTANTS
  b1 = b1
  b2 = b2
  Badges <- MCBadges
  Games <- MCGames
  MaxFlight = 1
  MaxDrops = 0
  MaxTexts = 0
  MaxEntries = 2
INVARIANT EndsItself
CHECK_DEADLOCK FALSE
