SPECIFICATION UsbSpec
CONSTANTS
  NPages = 3
  EraseUnit = 2
  PerRun = 1
  EraseTimeout = 0
  MaxBlockers = 0
  EraseMayHang = FALSE
  Erased = Erased
  Garbage = Garbage
  Val <- MCVal
  DefaultVal <- MCDefault
  Rests = {r0, r1}
  Names = {whole, mixed}
  Mixed = mixed
  OldRecords <- MCOldRecords
  RecLen = 2
  WarmUp = 0
  MinInterval = 1
  MaxGen = 3
  MaxResets = 1
  Chunks = {c1}
  ScriptLens = {4}
  MaxSessions = 2
  MaxAnswers = 2
  EraseMayCutIn = FALSE
INVARIANT UsbTypeOK
INVARIANT ScriptPageReserved
PROPERTY RestDurableSpec
