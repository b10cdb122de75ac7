------------------------------ MODULE MCProfiles ------------------------------
(* Two players in three chunks in a row, with an area of interest of radius *)
(* 1: the ends do not see each other.                                       *)
EXTENDS Profiles, TLC

CONSTANTS c1, c2, c3

RowOfChunks == [c \in Chunk |-> CASE c = c1 -> {c1, c2}
                                  [] c = c2 -> {c1, c2, c3}
                                  [] c = c3 -> {c2, c3}]

Symmetry == Permutations(Player) \cup Permutations(Equipment) \cup Permutations(Name)

=============================================================================
