SPECIFICATION Spec
CONSTANTS
  NPages = 4
  EraseUnit = 2
  PerRun = 1
  EraseTimeout = 1
  MaxBlockers = 1
  EraseMayHang = TRUE
  Erased = Erased
  Garbage = Garbage
  Val = {v0, v1}
  DefaultVal = v0
  OldRecords <- MCOldRecords
  RecLen = 2
  WarmUp = 1
  MinInterval = 2
  MaxGen = 4
  MaxResets = 1
INVARIANT CleanMeansDurable
INVARIANT GenerationAboveFlash
INVARIANT SuspendedForErase
PROPERTY DurableSpec
