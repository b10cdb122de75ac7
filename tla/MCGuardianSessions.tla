------------------------- MODULE MCGuardianSessions -------------------------
(* Instances of GuardianSessions: chunks in a row, with an area of interest *)
(* of radius 1, so that two of three chunks do not see each other.          *)
EXTENDS GuardianSessions, TLC

CONSTANTS c1, c2, c3

TwoChunks == [c \in Chunk |-> {c}]

RowOfChunks == [c \in Chunk |-> CASE c = c1 -> {c1, c2}
                                  [] c = c2 -> {c1, c2, c3}
                                  [] c = c3 -> {c2, c3}]

(* "out" is written by every step and read by none: states that differ only *)
(* in it have the same future, and what is said of it is said of the steps.  *)
View == <<sockets, session, expired, stale, topics, players, retired, player,
          rooms, nextId, pending>>

Symmetry ==
    Permutations(Socket) \cup Permutations(Player) \cup Permutations(Wallet)

=============================================================================
