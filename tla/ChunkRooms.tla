----------------------------- MODULE ChunkRooms -----------------------------
(***************************************************************************)
(* The chunk rooms as a component: one action per operation that           *)
(* GuardianState performs on them.  create_player seats a new player,       *)
(* move_player_chunk transfers one, and remove_player or                    *)
(* retire_players_with_wallet take one out.                                 *)
(***************************************************************************)
EXTENDS RoomTable

VARIABLE rooms   \* rooms_ and the players' seats in it

RoomsInit == rooms = EmptyTable

(* The tail of create_player: a fresh Player has no room yet. *)
CreateIn(p, c) ==
    /\ rooms.room[p] = NoRoom
    /\ rooms' = Seat(rooms, p, c)

(* remove_player and retire_players_with_wallet. *)
RemovePlayer(p) ==
    /\ rooms.room[p] # NoRoom
    /\ rooms' = RemovePlayerFromRoom(rooms, p)

(* move_player_chunk; it returns early when the chunk is the current one. *)
MovePlayerChunk(p, c) ==
    /\ rooms.room[p] # NoRoom
    /\ rooms.room[p] # c
    /\ rooms' = Seat(RemovePlayerFromRoom(rooms, p), p, c)

RoomsNext ==
    \E p \in Player :
        \/ RemovePlayer(p)
        \/ \E c \in Chunk : CreateIn(p, c) \/ MovePlayerChunk(p, c)

RoomsSpec == RoomsInit /\ [][RoomsNext]_rooms

-----------------------------------------------------------------------------

(* The rooms and seats are those of a table of known players and chunks. *)
RoomsTyped == rooms \in RoomTables

(* The two sides of the seat bookkeeping agree: the pointers and indexes   *)
(* the players keep, and the vectors of the rooms (add_player_to_room,     *)
(* remove_player_from_room).  A wrong index makes a later swap-and-pop     *)
(* drop somebody else from broadcasts.                                     *)
SeatsConsistent ==
    /\ RoomHasSeat(rooms)
    /\ SeatHasRoom(rooms)

(* A ChunkRoom exists exactly while somebody is in it, so the map never    *)
(* keeps a room nobody will erase (remove_player_from_room).               *)
RoomsAreOccupied == NoEmptyRoom(rooms)

(* The rooms implement plain membership: the swap-and-pop removes exactly  *)
(* the player that leaves, and a transfer never shows a player twice or    *)
(* loses another one.                                                      *)
Membership ==
    INSTANCE RoomMembership WITH
        occupants <- [c \in Chunk |-> Occupants(rooms, c)]

ImplementsMembership == Membership!Spec

=============================================================================
