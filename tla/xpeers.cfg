SPECIFICATION FairSpec
CONSTANTS
  b1 = b1
  b2 = b2
  q = q
  Boards = {b1, b2, q}
  Kind <- MCKind
  Cables <- MCCables
  PeerType = {"Peer2025", "QRStn2026"}
  None = None
  MaxRounds = 2
  MaxEvents = 2
INVARIANT PeersTypeOK
INVARIANT PeerIsReal
INVARIANT BlockersMatchPeer
PROPERTY StaysConnected
PROPERTY PeersSettle
