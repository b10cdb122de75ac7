----------------------------- MODULE MCPresence -----------------------------
(* Three clients in three chunks in a row, where c1 and c3 are out of each *)
(* other's area of interest.                                                *)
EXTENDS Presence, SequencesExt

CONSTANTS c1, c2, c3

RowOfChunks == [c \in Chunk |-> CASE c = c1 -> {c1, c2}
                                  [] c = c2 -> {c1, c2, c3}
                                  [] c = c3 -> {c2, c3}]

(* Every state without "out", which no step reads. *)
View == <<sockets, session, expired, stale, topics, players, retired, player,
          rooms, nextId, pending, scene, settled>>

Symmetry ==
    Permutations(Socket) \cup Permutations(Player) \cup Permutations(Wallet)

=============================================================================
