--------------------------- MODULE MCXBoardPeers ---------------------------
(* Small instances of XBoardPeers for TLC. *)
EXTENDS XBoardPeers

CONSTANTS b1, b2, q

(* Two badges and a QR station. *)
MCKind == [b \in {b1, b2, q} |-> IF b = q THEN "QRStn2026" ELSE "Peer2025"]

(* One badge is plugged into the other and into the station. *)
MCCables == {{b1, b2}, {b1, q}}

=============================================================================
