SPECIFICATION FairSpec
CONSTANTS
  Payloads <- MCPayloads
  PayloadMax = 3
  TxSize = 5
  RxSize = 8
  BytesPerRun = 2
  RestartAfter = 1
  MaxFrames = 2
  MaxNoise = 2
  KickMayStall = FALSE
  NoByte = NoByte
INVARIANT LinkTypeOK
INVARIANT SentInOrder
INVARIANT NeverSkipsWhole
INVARIANT GotInOrder
PROPERTY TxDrains
PROPERTY RxDrains
