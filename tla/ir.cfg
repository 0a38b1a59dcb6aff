SPECIFICATION FairSpec
CONSTANTS
  Lengths <- MCLengths
  Payloads <- MCPayloads
  Pulls = 2
  MaxHeld = 1
  RxSlack = 1
  MaxNoise = 1
INVARIANTS
  BlockersBalance
PROPERTIES
  AirInOrder
  ReceiverKeepsUp
  PacketGoesOut
  FlashGetsIn
