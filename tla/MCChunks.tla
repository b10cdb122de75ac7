------------------------------- MODULE MCChunks -------------------------------
(* The chunks of a Guardian, as numbers and as rooms.  A behaviour is of one  *)
(* part or the other.                                                       *)
(*                                                                          *)
(* Numbers: bytes of 8 values and words of 32, with regions in the middle    *)
(* and at two ends of the world.  Rooms: four players fill, share and empty   *)
(* three rooms, in every order of arrivals, transfers and departures.        *)
EXTENDS ChunkGrid, ChunkRooms

VARIABLE part   \* "grid" or "rooms"

Centers == {<<0, 0>>, <<0, -16>>, <<15, 14>>, <<-3, 2>>}

ChunksInit ==
    /\ part \in {"grid", "rooms"}
    /\ Init
    /\ RoomsInit
    /\ part = "rooms" => center = <<0, 0>> /\ radius = 0 /\ aoi = 0

ChunksNext ==
    \/ part = "grid" /\ Next /\ UNCHANGED <<part, rooms>>
    \/ part = "rooms" /\ RoomsNext /\ UNCHANGED <<part, vars>>

ChunksSpec == ChunksInit /\ [][ChunksNext]_<<part, vars, rooms>>

=============================================================================
