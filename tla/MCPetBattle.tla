---- MODULE MCPetBattle ----
(* Two badges for TLC, and the scores of a QTE. *)
EXTENDS PetBattle, TLC
CONSTANTS b1, b2
MCBadges == {b1, b2}
MCRaws == {1}
====
