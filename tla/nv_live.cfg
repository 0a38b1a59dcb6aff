SPECIFICATION FairSpec
CONSTANTS
  NPages = 3
  EraseUnit = 2
  PerRun = 1
  EraseTimeout = 1
  MaxBlockers = 1
  EraseMayHang = FALSE
  Erased = Erased
  Garbage = Garbage
  Val = {v0, v1}
  DefaultVal = v0
  OldRecords <- MCOldRecords
  RecLen = 2
  WarmUp = 1
  MinInterval = 2
  MaxGen = 3
  MaxResets = 1
INVARIANT ProgramsErasedCells
PROPERTY FlushCompletes
