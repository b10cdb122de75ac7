------------------------------ MODULE ChunkGrid -------------------------------
(***************************************************************************)
(* chunk.cpp and aoi.cpp: which chunks a Guardian serves, their numbers on  *)
(* the wire, in the table of topics and as keys of rooms_, and which of     *)
(* them a broadcast reaches, with the widths of the integers of the code.   *)
(*                                                                          *)
(* The state is a configuration that validate_config accepts and one player *)
(* that arrives by HELLO with a chunk and walks by MOVEs with local         *)
(* coordinates.                                                             *)
(***************************************************************************)
EXTENDS Integers

CONSTANTS
    HalfByte,   \* 128 in the code: half of the values of 8 bits
    HalfWord,   \* 2^31 in the code: half of the values of 32 bits
    Center      \* guardian_center_chunk_x, guardian_center_chunk_z

Byte == 2 * HalfByte
Word == 2 * HalfWord

Int32 == -HalfWord .. HalfWord - 1
UInt8 == 0 .. Byte - 1

ASSUME WidthAssumption == HalfByte \in Nat \ {0} /\ HalfWord \in Nat /\ Byte <= HalfWord

ASSUME CenterAssumption == Center \subseteq Int32 \X Int32

VARIABLES
    center,   \* of the configuration
    radius,   \* service_radius_chunks
    aoi,      \* player_aoi_radius_chunks
    chunk,    \* current_chunk_x and _z, NoChunk before HELLO
    local     \* local_chunk_x and _z

vars == <<center, radius, aoi, chunk, local>>

NoChunk == <<>>

(* What validate_config lets pass: its player_aoi_chunks is 2 * aoi + 1.    *)
ValidRadius == 0 .. HalfByte - 1

ValidAoi == UInt8

-----------------------------------------------------------------------------

(* A number as it is after a cast to a signed type.                         *)
Signed(n, half) == ((n + half) % (2 * half)) - half

(* contains_chunk *)
Contains(c) ==
    /\ center[1] - radius <= c[1] /\ c[1] <= center[1] + radius
    /\ center[2] - radius <= c[2] /\ c[2] <= center[2] + radius

Region == {c \in Int32 \X Int32 : Contains(c)}

(* Faulty variant: the west edge of the region is 1. *)
ToLocalFromOne(n, mid) == (n - (mid - radius) + 1) % Byte

(* to_local_chunk_x, to_local_chunk_z *)
ToLocal(n, mid) == (n - (mid - radius)) % Byte

LocalOf(c) == <<ToLocal(c[1], center[1]), ToLocal(c[2], center[2])>>

(* from_local_chunk_x, from_local_chunk_z *)
FromLocal(l, mid) == Signed(mid - radius + l, HalfWord)

ChunkAt(l) == <<FromLocal(l[1], center[1]), FromLocal(l[2], center[2])>>

(* Faulty variant: a row is a chunk too short. *)
DiameterShort == 2 * radius

Diameter == 2 * radius + 1

(* local_chunk_index; topics_ has Diameter * Diameter entries.              *)
LocalIndex(c) == LocalOf(c)[2] * Diameter + LocalOf(c)[1]

(* chunk_key *)
Key(c) == (c[1] % Word) * Word + (c[2] % Word)

(* Faulty variant: the last row and column are left out. *)
StepsHalfOpen == -aoi .. aoi - 1

(* build_aoi_offsets: the loop's counters, and what is stored of them.      *)
Steps == -aoi .. aoi

Offset(d) == Signed(d, HalfByte)

(* Where the broadcast of someone in c goes at a pair of the loop's counters.*)
Target(c, d) ==
    <<Signed(c[1] + Offset(d[1]), HalfWord), Signed(c[2] + Offset(d[2]), HalfWord)>>

-----------------------------------------------------------------------------

Init ==
    /\ center \in Center
    /\ radius \in ValidRadius
    /\ aoi \in ValidAoi
    /\ chunk = NoChunk
    /\ local = NoChunk

(* create_player: any 32 bits may come with HELLO. *)
Hello(c) ==
    /\ chunk = NoChunk
    /\ Contains(c)
    /\ chunk' = c
    /\ local' = LocalOf(c)
    /\ UNCHANGED <<center, radius, aoi>>

(* local_to_global, move_player_chunk: any bytes may come with MOVE.        *)
Move(l) ==
    /\ chunk # NoChunk
    /\ Contains(ChunkAt(l))
    /\ chunk' = ChunkAt(l)
    /\ local' = IF ChunkAt(l) = chunk THEN local ELSE LocalOf(ChunkAt(l))
    /\ UNCHANGED <<center, radius, aoi>>

(* A MOVE out of the region, and the end of any other connection.           *)
Leave ==
    /\ chunk # NoChunk
    /\ chunk' = NoChunk
    /\ local' = NoChunk
    /\ UNCHANGED <<center, radius, aoi>>

Next ==
    \/ \E c \in Int32 \X Int32 : Hello(c)
    \/ \E l \in UInt8 \X UInt8 : Move(l)
    \/ Leave

Spec == Init /\ [][Next]_vars

-----------------------------------------------------------------------------
(* Properties *)

(* The player is in the region, and the local coordinates that others are   *)
(* sent with its JOIN and its moves name its chunk and no other, up to the  *)
(* widest region and where the region reaches the end of the 32 bits.       *)
LocalCoordinatesAreExact ==
    chunk # NoChunk =>
        /\ chunk \in Region
        /\ ChunkAt(local) = chunk
        /\ \A l \in UInt8 \X UInt8 : ChunkAt(l) = chunk => l = local

(* No two chunks share a room or a topic, and every chunk has a topic.      *)
ChunksHaveOwnRooms ==
    chunk # NoChunk =>
        /\ LocalIndex(chunk) \in 0 .. Diameter * Diameter - 1
        /\ \A c \in Region :
              Key(c) = Key(chunk) \/ LocalIndex(c) = LocalIndex(chunk) => c = chunk

Near(c, d) ==
    /\ d[1] - aoi <= c[1] /\ c[1] <= d[1] + aoi
    /\ d[2] - aoi <= c[2] /\ c[2] <= d[2] + aoi

(* Sums of a chunk and an offset fit into 32 bits: otherwise they are not    *)
(* defined in C++.                                                          *)
SumsFit(c) ==
    /\ c[1] - HalfByte \in Int32 /\ c[1] + HalfByte \in Int32
    /\ c[2] - HalfByte \in Int32 /\ c[2] + HalfByte \in Int32

IsSquare(c) ==
    \A d \in Region :
        /\ (\E s \in Steps \X Steps : Target(c, s) = d) <=> Near(c, d)
        /\ \A s, t \in Steps \X Steps : Target(c, s) = d /\ Target(c, t) = d => s = t

(* A broadcast reaches every chunk of the square around its sender that is  *)
(* in the region, each of them once, and nothing else, for a radius that    *)
(* fits into the type of an offset.                                         *)
BroadcastIsSquare ==
    chunk # NoChunk /\ SumsFit(chunk) /\ aoi < HalfByte => IsSquare(chunk)

(* The help text of --aoi calls it the "Nearby broadcast diameter": for      *)
(* every diameter that is accepted, a broadcast reaches all of that square.  *)
BroadcastHasDiameter ==
    chunk # NoChunk /\ SumsFit(chunk) =>
        \A d \in Region :
            Near(chunk, d) => \E s \in Steps \X Steps : Target(chunk, s) = d

=============================================================================
