------------------------------ MODULE RoomTable ------------------------------
(***************************************************************************)
(* The chunk rooms of GuardianState as a value: rooms_ (one ChunkRoom per   *)
(* occupied chunk, each with a vector of raw Player pointers) together with *)
(* the two fields every Player keeps about its seat in that vector,         *)
(* current_chunk_room and index_in_chunk_vector.  The operators are the     *)
(* bodies of the functions of guardian.cpp; the state machines that own a   *)
(* table (ChunkRooms, GuardianSessions) assign their results.               *)
(*                                                                         *)
(* A table is a record:                                                     *)
(*   chunks   the keys of rooms_: the chunks that have a ChunkRoom          *)
(*   players  ChunkRoom::players, read only for the chunks in "chunks"      *)
(*   room     Player::current_chunk_room, NoRoom for the null pointer       *)
(*   index    Player::index_in_chunk_vector, counted from 1; 0 when the     *)
(*            player has no room (the code keeps the old number there, and  *)
(*            never reads it before add_player_to_room overwrites it)       *)
(***************************************************************************)
EXTENDS Integers, Sequences

CONSTANTS
    Player,   \* the Player objects
    Chunk,    \* the chunks of the service region
    NoRoom    \* the null current_chunk_room

ASSUME NoRoomAssumption == NoRoom \notin Chunk

RoomTables ==
    [ chunks  : SUBSET Chunk,
      players : [Chunk -> Seq(Player)],
      room    : [Player -> Chunk \cup {NoRoom}],
      index   : [Player -> Nat] ]

EmptyTable ==
    [ chunks  |-> {},
      players |-> [c \in Chunk |-> <<>>],
      room    |-> [p \in Player |-> NoRoom],
      index   |-> [p \in Player |-> 0] ]

-----------------------------------------------------------------------------

GetOrCreateRoom(t, c) ==
    [ chunks  |-> t.chunks \cup {c},
      players |-> IF c \in t.chunks THEN t.players
                                    ELSE [t.players EXCEPT ![c] = <<>>],
      room    |-> t.room,
      index   |-> t.index ]

AddPlayerToRoom(t, p, c) ==
    [ chunks  |-> t.chunks,
      players |-> [t.players EXCEPT ![c] = Append(@, p)],
      room    |-> [t.room EXCEPT ![p] = c],
      index   |-> [t.index EXCEPT ![p] = Len(t.players[c]) + 1] ]

(* create_player and move_player_chunk always make the two calls together. *)
Seat(t, p, c) == AddPlayerToRoom(GetOrCreateRoom(t, c), p, c)

(* The vector loses its last entry, which takes the place of the one at i; *)
(* nothing happens when i is beyond the vector.                            *)
SwapWithLastAndPop(ps, i) ==
    IF i > Len(ps)
    THEN ps
    ELSE [k \in 1 .. Len(ps) - 1 |-> IF k = i THEN ps[Len(ps)] ELSE ps[k]]

(* Faulty variant: the player moved into the gap keeps its old index. *)
NothingReindexed(index, ps, i) == index

(* The player that takes the place at i gets that index. *)
Reindexed(index, ps, i) ==
    IF i > Len(ps) THEN index ELSE [index EXCEPT ![ps[Len(ps)]] = i]

(* A room whose vector became empty is erased from rooms_. *)
EraseRoomIfEmpty(chunks, c, ps) ==
    IF ps = <<>> THEN chunks \ {c} ELSE chunks

RemovePlayerFromRoom(t, p) ==
    LET c  == t.room[p]
        i  == t.index[p]
        ps == SwapWithLastAndPop(t.players[c], i)
    IN  IF c = NoRoom
        THEN t
        ELSE [ chunks  |-> EraseRoomIfEmpty(t.chunks, c, ps),
               players |-> [t.players EXCEPT ![c] = ps],
               room    |-> [t.room EXCEPT ![p] = NoRoom],
               index   |-> [Reindexed(t.index, t.players[c], i) EXCEPT ![p] = 0] ]

-----------------------------------------------------------------------------

(* A player that has a room sits in that room's vector, at its own index. *)
RoomHasSeat(t) ==
    \A p \in Player :
        t.room[p] # NoRoom =>
            /\ t.room[p] \in t.chunks
            /\ t.index[p] \in 1 .. Len(t.players[t.room[p]])
            /\ t.players[t.room[p]][t.index[p]] = p

(* Every entry of a room's vector points back at that room and that place. *)
SeatHasRoom(t) ==
    \A c \in t.chunks : \A i \in 1 .. Len(t.players[c]) :
        /\ t.room[t.players[c][i]] = c
        /\ t.index[t.players[c][i]] = i

(* rooms_ holds no empty room: an empty one is erased by the last to leave. *)
NoEmptyRoom(t) ==
    \A c \in t.chunks : t.players[c] # <<>>

(* Who a broadcast or a snapshot that walks the room's vector would find. *)
Occupants(t, c) ==
    IF c \in t.chunks
    THEN {t.players[c][i] : i \in 1 .. Len(t.players[c])}
    ELSE {}

=============================================================================
