--------------------------- MODULE RoomMembership ---------------------------
(***************************************************************************)
(* What the chunk rooms promise, without vectors, indexes or room objects: *)
(* every chunk has a set of occupants, a player occupies at most one        *)
(* chunk, and one player's arrival, departure or transfer leaves every      *)
(* other player where it was.                                               *)
(***************************************************************************)
CONSTANTS
    Player,   \* the players that can be seated
    Chunk     \* the chunks they can be seated in

VARIABLE occupants   \* who a broadcast to each chunk's room would count

Seated(p) == \E c \in Chunk : p \in occupants[c]

Init == occupants = [c \in Chunk |-> {}]

Enter(p, c) ==
    /\ ~Seated(p)
    /\ occupants' = [occupants EXCEPT ![c] = @ \cup {p}]

Exit(p) ==
    /\ Seated(p)
    /\ occupants' = [c \in Chunk |-> occupants[c] \ {p}]

Transfer(p, c) ==
    /\ Seated(p)
    /\ p \notin occupants[c]
    /\ occupants' = [d \in Chunk |-> IF d = c
                                     THEN occupants[d] \cup {p}
                                     ELSE occupants[d] \ {p}]

Next ==
    \E p \in Player :
        \/ Exit(p)
        \/ \E c \in Chunk : Enter(p, c) \/ Transfer(p, c)

Spec == Init /\ [][Next]_occupants

=============================================================================
