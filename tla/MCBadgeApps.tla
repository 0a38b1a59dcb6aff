---- MODULE MCBadgeApps ----
(* Two badges for TLC. *)
EXTENDS BadgeApps, TLC
CONSTANTS b1, b2
MCBadges == {b1, b2}
MCGames == {"snake", "tetris"}
Symmetry == Permutations(MCBadges)
====
