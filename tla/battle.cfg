SPECIFICATION FairSpec
CONSTANTS
  b1 = b1
  b2 = b2
  Badges <- MCBadges
  Raws <- MCRaws
  Crit = 9
  Frames = 4
  MaxHp = 1
  MaxLevel = 2
  Prize = 1
  MaxLost = 1
  MaxLead = 2
  MaxEntries = 3
  MaxUpsets = 1
INVARIANTS
  PetTypeOK
  VerdictsAgree
PROPERTIES
  BattleEnds
CHECK_DEADLOCK FALSE
