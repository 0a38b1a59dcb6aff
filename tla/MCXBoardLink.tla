---------------------------- MODULE MCXBoardLink ----------------------------
(* Small instances of XBoardLink for TLC. *)
EXTENDS XBoardLink

(* A payload that looks like the start of a packet. *)
MCPayloads == {<<Pre, Data>>}

=============================================================================
