---------------------------- MODULE Chunks_proofs ----------------------------
(***************************************************************************)
(* The chunks of a Guardian, as rooms and as numbers.                       *)
(*                                                                          *)
(* Rooms: they keep their bookkeeping straight and implement plain          *)
(* membership, for any number of players and chunks.  The invariant is      *)
(* Consistent of RoomTable_proofs; the lemmas there say that each operation *)
(* on a table preserves it.                                                 *)
(*                                                                          *)
(* Numbers: the arithmetic is exact within its widths, whatever they are,   *)
(* for any configuration that is accepted, any chunk a client may say       *)
(* HELLO with, and any bytes it may send with MOVE.                         *)
(***************************************************************************)
EXTENDS ChunkGrid, ChunkRooms, RoomTable_proofs

-----------------------------------------------------------------------------
(* The rooms *)

(* The rooms of a server that has just started are consistent. *)
LEMMA ConsistentInit == RoomsInit => Consistent(rooms)
BY EmptyTableConsistent DEF RoomsInit

(* create_player, move_player_chunk and the departures keep them so. *)
LEMMA ConsistentNext == Consistent(rooms) /\ [RoomsNext]_rooms => Consistent(rooms)'
<1> SUFFICES ASSUME Consistent(rooms), [RoomsNext]_rooms
             PROVE  Consistent(rooms')
  BY DEF Consistent, RoomHasSeat, SeatHasRoom, NoEmptyRoom
<1>1. CASE UNCHANGED rooms
  BY <1>1
<1>2. ASSUME NEW p \in Player, RemovePlayer(p)
      PROVE  Consistent(rooms')
  BY <1>2, RemoveConsistent DEF RemovePlayer
<1>3. ASSUME NEW p \in Player, NEW c \in Chunk, CreateIn(p, c)
      PROVE  Consistent(rooms')
  BY <1>3, SeatConsistent DEF CreateIn
<1>4. ASSUME NEW p \in Player, NEW c \in Chunk, MovePlayerChunk(p, c)
      PROVE  Consistent(rooms')
  <2> DEFINE t == RemovePlayerFromRoom(rooms, p)
  <2>1. Consistent(t) /\ t.room = [rooms.room EXCEPT ![p] = NoRoom]
    BY <1>4, RemoveConsistent DEF MovePlayerChunk
  <2>2. t.room[p] = NoRoom
    BY <2>1 DEF Consistent, RoomTables
  <2>3. rooms' = Seat(t, p, c)
    BY <1>4 DEF MovePlayerChunk
  <2> QED BY <2>1, <2>2, <2>3, SeatConsistent
<1> QED
  BY <1>1, <1>2, <1>3, <1>4 DEF RoomsNext

(* So they are consistent after any sequence of these calls. *)
LEMMA AlwaysConsistent == RoomsSpec => []Consistent(rooms)
BY ConsistentInit, ConsistentNext, PTL DEF RoomsSpec

(* rooms_ and the seats of the players are well formed. *)
THEOREM TypeCorrect == RoomsSpec => []RoomsTyped
<1>1. Consistent(rooms) => RoomsTyped
  BY DEF Consistent, RoomsTyped
<1> QED BY <1>1, AlwaysConsistent, PTL

(* However players come, walk and go, every current_chunk_room and         *)
(* index_in_chunk_vector names the vector entry that holds the player, and *)
(* every entry names a player that points back at it.                      *)
THEOREM SeatsAlwaysConsistent == RoomsSpec => []SeatsConsistent
<1>1. Consistent(rooms) => SeatsConsistent
  BY DEF Consistent, SeatsConsistent
<1> QED BY <1>1, AlwaysConsistent, PTL

(* rooms_ never keeps a room that nobody is in. *)
THEOREM RoomsAlwaysOccupied == RoomsSpec => []RoomsAreOccupied
<1>1. Consistent(rooms) => RoomsAreOccupied
  BY DEF Consistent, RoomsAreOccupied
<1> QED BY <1>1, AlwaysConsistent, PTL

(* Refinement *)

(* remove_player_from_room takes exactly that player out of every room's  *)
(* vector: the player swapped into the gap stays an occupant.              *)
LEMMA OccupantsAfterRemove ==
    ASSUME NEW t, Consistent(t), NEW p \in Player, t.room[p] # NoRoom, NEW c \in Chunk
    PROVE  Occupants(RemovePlayerFromRoom(t, p), c) = Occupants(t, c) \ {p}
<1>1. /\ Consistent(RemovePlayerFromRoom(t, p))
      /\ RemovePlayerFromRoom(t, p).room = [t.room EXCEPT ![p] = NoRoom]
  BY RemoveConsistent
<1>2. t.room \in [Player -> Chunk \cup {NoRoom}]
  BY DEF Consistent, RoomTables
<1> QED
  BY <1>1, <1>2, OccupantsByRoom, NoRoomAssumption

(* get_or_create_room and add_player_to_room add exactly that player. *)
LEMMA OccupantsAfterSeat ==
    ASSUME NEW t, Consistent(t), NEW p \in Player, t.room[p] = NoRoom,
           NEW d \in Chunk, NEW c \in Chunk
    PROVE  Occupants(Seat(t, p, d), c) =
             IF c = d THEN Occupants(t, c) \cup {p} ELSE Occupants(t, c)
<1>1. Consistent(Seat(t, p, d))
  BY SeatConsistent
<1>2. t \in RoomTables
  BY DEF Consistent
<1>3. \A q \in Player : Seat(t, p, d).room[q] = IF q = p THEN d ELSE t.room[q]
  BY <1>2, SeatRoom
<1>4. /\ Occupants(Seat(t, p, d), c) = {q \in Player : Seat(t, p, d).room[q] = c}
      /\ Occupants(t, c) = {q \in Player : t.room[q] = c}
  BY <1>1, OccupantsByRoom
<1>5. c # NoRoom
  BY NoRoomAssumption
<1>6. CASE c = d
  BY <1>3, <1>4, <1>6
<1>7. CASE c # d
  BY <1>3, <1>4, <1>5, <1>7
<1> QED
  BY <1>6, <1>7

(* A server that has just started has nobody in any room. *)
LEMMA InitRefines == RoomsInit => Membership!Init
BY DEF RoomsInit, EmptyTable, Occupants, Membership!Init

(* Every call on the rooms is a step of plain membership: create_player    *)
(* enters, a departure exits, move_player_chunk transfers.                 *)
LEMMA StepRefines ==
    Consistent(rooms) /\ [RoomsNext]_rooms
        => [Membership!Next]_([c \in Chunk |-> Occupants(rooms, c)])
<1> DEFINE occ == [c \in Chunk |-> Occupants(rooms, c)]
<1> SUFFICES ASSUME Consistent(rooms), [RoomsNext]_rooms
             PROVE  Membership!Next \/ UNCHANGED occ
  OBVIOUS
<1>1. CASE UNCHANGED rooms
  BY <1>1 DEF Occupants
<1>2. ASSUME NEW p \in Player
      PROVE  rooms.room[p] # NoRoom <=> Membership!Seated(p)
  BY <1>2, OccupantsByRoom, NoRoomAssumption
     DEF Membership!Seated, Consistent, RoomTables
<1>3. ASSUME NEW p \in Player, RemovePlayer(p)
      PROVE  Membership!Exit(p)
  BY <1>2, <1>3, OccupantsAfterRemove DEF RemovePlayer, Membership!Exit
<1>4. ASSUME NEW p \in Player, NEW c \in Chunk, CreateIn(p, c)
      PROVE  Membership!Enter(p, c)
  <2>1. ASSUME NEW d \in Chunk
        PROVE  Occupants(rooms', d) = IF d = c THEN Occupants(rooms, d) \cup {p}
                                               ELSE Occupants(rooms, d)
    BY <1>4, OccupantsAfterSeat DEF CreateIn
  <2>2. ~Membership!Seated(p)
    BY <1>2, <1>4 DEF CreateIn
  <2> QED BY <2>1, <2>2 DEF Membership!Enter
<1>5. ASSUME NEW p \in Player, NEW c \in Chunk, MovePlayerChunk(p, c)
      PROVE  Membership!Transfer(p, c)
  <2> DEFINE t == RemovePlayerFromRoom(rooms, p)
  <2>1. Consistent(t) /\ t.room = [rooms.room EXCEPT ![p] = NoRoom]
    BY <1>5, RemoveConsistent DEF MovePlayerChunk
  <2>2. t.room[p] = NoRoom
    BY <2>1 DEF Consistent, RoomTables
  <2>3. ASSUME NEW d \in Chunk
        PROVE  Occupants(rooms', d) = IF d = c THEN Occupants(rooms, d) \cup {p}
                                               ELSE Occupants(rooms, d) \ {p}
    <3>1. Occupants(t, d) = Occupants(rooms, d) \ {p}
      BY <1>5, OccupantsAfterRemove DEF MovePlayerChunk
    <3>2. Occupants(rooms', d) = IF d = c THEN Occupants(t, d) \cup {p} ELSE Occupants(t, d)
      BY <1>5, <2>1, <2>2, OccupantsAfterSeat DEF MovePlayerChunk
    <3> QED BY <3>1, <3>2
  <2>4. p \notin Occupants(rooms, c)
    BY <1>5, OccupantsByRoom DEF MovePlayerChunk
  <2>5. Membership!Seated(p)
    BY <1>2, <1>5 DEF MovePlayerChunk
  <2> QED BY <2>3, <2>4, <2>5 DEF Membership!Transfer
<1> QED
  BY <1>1, <1>3, <1>4, <1>5 DEF RoomsNext, Membership!Next

(* The vectors, indexes and swap-and-pop of the rooms implement plain set  *)
(* membership, for every sequence of arrivals, walks and departures.       *)
THEOREM RoomsImplementMembership == RoomsSpec => ImplementsMembership
<1>1. Consistent(rooms) /\ [RoomsNext]_rooms
        => [Membership!Next]_([c \in Chunk |-> Occupants(rooms, c)])
  BY StepRefines
<1> QED
  BY <1>1, InitRefines, AlwaysConsistent, PTL
     DEF RoomsSpec, ImplementsMembership, Membership!Spec

-----------------------------------------------------------------------------
(* Chunks as numbers *)


(* A number in range, or off by less than one turn, under modulus.          *)
LEMMA ModSmall ==
    ASSUME NEW n \in Nat \ {0}, NEW v \in 0 .. n - 1
    PROVE  v % n = v
  OBVIOUS

LEMMA ModUp ==
    ASSUME NEW n \in Nat \ {0}, NEW v \in Int, v < 0, -n <= v
    PROVE  v % n = v + n
  OBVIOUS

LEMMA ModDown ==
    ASSUME NEW n \in Nat \ {0}, NEW v \in Int, n <= v, v < 2 * n
    PROVE  v % n = v - n
  OBVIOUS

LEMMA ModRange ==
    ASSUME NEW n \in Nat \ {0}, NEW v \in Int
    PROVE  v % n \in 0 .. n - 1
  OBVIOUS

(* Numbers that are laid out in rows of d determine row and column.         *)
LEMMA RowMajor ==
    ASSUME NEW d \in Nat, NEW a \in 0 .. d - 1, NEW b \in 0 .. d - 1,
           NEW e \in 0 .. d - 1, NEW f \in 0 .. d - 1, a * d + b = e * d + f
    PROVE  a = e /\ b = f
<1>1. CASE a < e
  <2>1. (a + 1) * d <= e * d
    BY <1>1
  <2> QED BY <1>1, <2>1
<1>2. CASE e < a
  <2>1. (e + 1) * d <= a * d
    BY <1>2
  <2> QED BY <1>2, <2>1
<1>3. CASE a = e
  BY <1>3
<1> QED BY <1>1, <1>2, <1>3

(* ... and stay within the d rows.                                          *)
LEMMA RowMajorRange ==
    ASSUME NEW d \in Nat, NEW a \in 0 .. d - 1, NEW b \in 0 .. d - 1
    PROVE  a * d + b \in 0 .. d * d - 1
<1>1. (a + 1) * d <= d * d
  OBVIOUS
<1>2. 0 <= a * d
  OBVIOUS
<1> QED BY <1>1, <1>2

(* A cast to a signed type keeps what fits, and brings one turn back.       *)
LEMMA SignedFits ==
    ASSUME NEW half \in Nat \ {0}, NEW n \in -half .. half - 1
    PROVE  Signed(n, half) = n
<1>1. n + half \in 0 .. 2 * half - 1 /\ 2 * half \in Nat \ {0}
  OBVIOUS
<1> QED BY <1>1, ModSmall DEF Signed

LEMMA SignedBelow ==
    ASSUME NEW half \in Nat \ {0}, NEW n \in Int, n < -half, -3 * half <= n
    PROVE  Signed(n, half) = n + 2 * half
<1> DEFINE v == n + half
           w == 2 * half
<1>1. v \in Int /\ v < 0 /\ -w <= v /\ w \in Nat \ {0}
  OBVIOUS
<1> HIDE DEF v, w
<1>2. v % w = v + w
  BY <1>1, ModUp
<1> USE DEF v, w
<1> QED BY <1>2 DEF Signed

LEMMA SignedAbove ==
    ASSUME NEW half \in Nat \ {0}, NEW n \in Int, half <= n, n < 3 * half
    PROVE  Signed(n, half) = n - 2 * half
<1> DEFINE v == n + half
           w == 2 * half
<1>1. v \in Int /\ w <= v /\ v < 2 * w /\ w \in Nat \ {0}
  OBVIOUS
<1> HIDE DEF v, w
<1>2. v % w = v - w
  BY <1>1, ModDown
<1> USE DEF v, w
<1> QED BY <1>2 DEF Signed

LEMMA SignedType ==
    ASSUME NEW half \in Nat \ {0}, NEW n \in Int
    PROVE  Signed(n, half) \in -half .. half - 1
<1>1. (n + half) % (2 * half) \in 0 .. (2 * half) - 1
  BY ModRange
<1> QED BY <1>1 DEF Signed

-----------------------------------------------------------------------------

(* One axis.  A chunk of the region has the local number that counts from   *)
(* the region's edge, and that number is in reach of a byte.                *)
LEMMA ToLocalExact ==
    ASSUME NEW mid \in Int32, radius \in ValidRadius, NEW n \in Int,
           mid - radius <= n, n <= mid + radius
    PROVE  /\ ToLocal(n, mid) = n - (mid - radius)
           /\ ToLocal(n, mid) \in 0 .. 2 * radius
           /\ ToLocal(n, mid) \in UInt8
<1>1. n - (mid - radius) \in 0 .. 2 * radius /\ 2 * radius <= Byte - 1 /\ Byte \in Nat \ {0}
  BY WidthAssumption DEF Int32, ValidRadius, Byte
<1>2. n - (mid - radius) \in 0 .. Byte - 1
  BY <1>1 DEF ValidRadius
<1>3. ToLocal(n, mid) = n - (mid - radius)
  BY <1>1, <1>2, ModSmall DEF ToLocal
<1> QED BY <1>1, <1>2, <1>3 DEF UInt8

(* What a byte that came with a MOVE stands for, wherever the region is:    *)
(* a chunk within 32 bits, one turn off if the edge of the world is near.   *)
LEMMA FromLocalCases ==
    ASSUME NEW mid \in Int32, radius \in ValidRadius, NEW l \in UInt8
    PROVE  /\ FromLocal(l, mid) \in Int32
           /\ FromLocal(l, mid) \in {mid - radius + l, mid - radius + l + Word,
                                     (mid - radius + l) - Word}
<1> DEFINE n == mid - radius + l
<1>1. /\ HalfWord \in Nat \ {0} /\ n \in Int
      /\ -3 * HalfWord <= n /\ n < 3 * HalfWord
  BY WidthAssumption DEF Int32, ValidRadius, UInt8, Byte
<1>2. FromLocal(l, mid) = Signed(n, HalfWord)
  BY DEF FromLocal
<1> HIDE DEF n
<1>3. FromLocal(l, mid) \in Int32
  BY <1>1, <1>2, SignedType DEF Int32
<1>4. FromLocal(l, mid) \in {n, n + Word, n - Word}
  <2>1. CASE n < -HalfWord
    BY <1>1, <1>2, <2>1, SignedBelow DEF Word
  <2>2. CASE HalfWord <= n
    BY <1>1, <1>2, <2>2, SignedAbove DEF Word
  <2>3. CASE n \in -HalfWord .. HalfWord - 1
    BY <1>1, <1>2, <2>3, SignedFits
  <2> QED BY <1>1, <2>1, <2>2, <2>3
<1> USE DEF n
<1> QED BY <1>3, <1>4

(* A byte that stands for a chunk of the region is that chunk's number: a   *)
(* turn off is never in the region.                                         *)
LEMMA FromLocalInRegion ==
    ASSUME NEW mid \in Int32, radius \in ValidRadius, NEW l \in UInt8,
           mid - radius <= FromLocal(l, mid), FromLocal(l, mid) <= mid + radius
    PROVE  /\ FromLocal(l, mid) = mid - radius + l
           /\ ToLocal(FromLocal(l, mid), mid) = l
<1>1. Word > Byte /\ radius \in Int /\ 2 * radius < Byte /\ mid \in Int /\ l \in 0 .. Byte - 1
  BY WidthAssumption DEF Word, Byte, ValidRadius, Int32, UInt8
<1>2. FromLocal(l, mid) = mid - radius + l
  BY <1>1, FromLocalCases, WidthAssumption DEF Word, Byte
<1> QED BY <1>1, <1>2, ToLocalExact

(* ... and every chunk of the region comes back from its number.            *)
LEMMA RoundTrip ==
    ASSUME NEW mid \in Int32, radius \in ValidRadius, NEW n \in Int32,
           mid - radius <= n, n <= mid + radius
    PROVE  FromLocal(ToLocal(n, mid), mid) = n
<1>1. HalfWord \in Nat \ {0} /\ n \in -HalfWord .. HalfWord - 1
  BY WidthAssumption DEF Int32, Byte
<1>2. mid - radius + ToLocal(n, mid) = n
  BY ToLocalExact, WidthAssumption DEF Int32, ValidRadius
<1> QED BY <1>1, <1>2, SignedFits DEF FromLocal

-----------------------------------------------------------------------------

IInv ==
    /\ center \in Int32 \X Int32
    /\ radius \in ValidRadius
    /\ aoi \in ValidAoi
    /\ chunk # NoChunk => chunk \in Region /\ local = LocalOf(chunk)

(* The configuration stays, and the player is in the region under its local *)
(* coordinates.                                                             *)
LEMMA IInvHolds == Spec => []IInv
<1>1. Init => IInv
  BY CenterAssumption DEF Init, IInv
<1>2. IInv /\ [Next]_vars => IInv'
  <2> SUFFICES ASSUME IInv, [Next]_vars PROVE IInv'
    OBVIOUS
  <2>1. ASSUME NEW c \in Int32 \X Int32, Hello(c) PROVE IInv'
    BY <2>1 DEF IInv, Hello, Region, Contains, LocalOf, ToLocal
  <2>2. ASSUME NEW l \in UInt8 \X UInt8, Move(l) PROVE IInv'
    <3>1. ChunkAt(l) \in Int32 \X Int32
      BY FromLocalCases DEF IInv, ChunkAt
    <3>2. ChunkAt(l) \in Region
      BY <2>2, <3>1 DEF Move, Region
    <3>3. chunk' = ChunkAt(l) /\ local' = LocalOf(ChunkAt(l))
      BY <2>2 DEF Move, IInv
    <3>4. center' = center /\ radius' = radius /\ aoi' = aoi
      BY <2>2 DEF Move
    <3> QED BY <3>2, <3>3, <3>4 DEF IInv, Region, Contains, LocalOf, ToLocal
  <2>3. CASE Leave
    BY <2>3 DEF Leave, IInv
  <2>4. CASE UNCHANGED vars
    BY <2>4 DEF vars, IInv, Region, Contains, LocalOf, ToLocal
  <2> QED BY <2>1, <2>2, <2>3, <2>4 DEF Next
<1> QED
  BY <1>1, <1>2, PTL DEF Spec

(* Both axes of a chunk of the region, as the lemmas on one axis want them. *)
LEMMA RegionAxes ==
    ASSUME IInv, NEW c \in Region
    PROVE  /\ c = <<c[1], c[2]>>
           /\ \A i \in {1, 2} : /\ center[i] \in Int32 /\ c[i] \in Int32
                                /\ center[i] - radius <= c[i]
                                /\ c[i] <= center[i] + radius
  BY DEF IInv, Region, Contains

(* The local coordinates that go out with a player name its chunk and no    *)
(* other, at both ends of the 32 bits too.                                  *)
THEOREM LocalCoordinatesAlwaysExact == Spec => []LocalCoordinatesAreExact
<1>1. IInv => LocalCoordinatesAreExact
  <2> SUFFICES ASSUME IInv, chunk # NoChunk PROVE
          /\ chunk \in Region
          /\ ChunkAt(local) = chunk
          /\ \A l \in UInt8 \X UInt8 : ChunkAt(l) = chunk => l = local
    BY DEF LocalCoordinatesAreExact
  <2>1. chunk \in Region /\ local = LocalOf(chunk) /\ radius \in ValidRadius
    BY DEF IInv
  <2>2. ChunkAt(local) = chunk
    BY <2>1, RegionAxes, RoundTrip DEF ChunkAt, LocalOf
  <2>3. ASSUME NEW l \in UInt8 \X UInt8, ChunkAt(l) = chunk PROVE l = local
    <3>1. chunk[1] = FromLocal(l[1], center[1]) /\ chunk[2] = FromLocal(l[2], center[2])
      BY <2>3 DEF ChunkAt
    <3>2. ToLocal(chunk[1], center[1]) = l[1] /\ ToLocal(chunk[2], center[2]) = l[2]
      BY <2>1, <3>1, RegionAxes, FromLocalInRegion
    <3> QED BY <2>1, <3>2 DEF LocalOf
  <2> QED BY <2>1, <2>2, <2>3
<1> QED
  BY IInvHolds, <1>1, PTL

(* chunk_key and local_chunk_index tell the chunks of the region apart, and *)
(* the index stays within topics_.                                          *)
LEMMA IndexIsExact ==
    ASSUME IInv, NEW c \in Region, NEW d \in Region
    PROVE  /\ LocalIndex(c) \in 0 .. Diameter * Diameter - 1
           /\ LocalIndex(c) = LocalIndex(d) => c = d
<1>1. Diameter \in Nat /\ radius \in Nat /\ Diameter - 1 = 2 * radius
  BY WidthAssumption DEF IInv, ValidRadius, Diameter
<1>2. /\ radius \in ValidRadius
      /\ LocalOf(c)[1] = ToLocal(c[1], center[1]) /\ LocalOf(c)[2] = ToLocal(c[2], center[2])
      /\ LocalOf(d)[1] = ToLocal(d[1], center[1]) /\ LocalOf(d)[2] = ToLocal(d[2], center[2])
  BY DEF IInv, LocalOf
<1>3. \A i \in {1, 2} :
          /\ LocalOf(c)[i] \in 0 .. Diameter - 1 /\ LocalOf(c)[i] = c[i] - (center[i] - radius)
          /\ LocalOf(d)[i] \in 0 .. Diameter - 1 /\ LocalOf(d)[i] = d[i] - (center[i] - radius)
  <2>1. Int32 \subseteq Int
    BY WidthAssumption DEF Int32
  <2> QED BY <1>1, <1>2, <2>1, RegionAxes, ToLocalExact
<1>4. LocalIndex(c) \in 0 .. Diameter * Diameter - 1
  BY <1>1, <1>3, RowMajorRange DEF LocalIndex
<1>5. ASSUME LocalIndex(c) = LocalIndex(d) PROVE c = d
  <2>1. LocalOf(c)[2] = LocalOf(d)[2] /\ LocalOf(c)[1] = LocalOf(d)[1]
    <3>1. LocalOf(c)[2] * Diameter + LocalOf(c)[1] = LocalOf(d)[2] * Diameter + LocalOf(d)[1]
      BY <1>5 DEF LocalIndex
    <3>2. /\ LocalOf(c)[2] \in 0 .. Diameter - 1 /\ LocalOf(c)[1] \in 0 .. Diameter - 1
          /\ LocalOf(d)[2] \in 0 .. Diameter - 1 /\ LocalOf(d)[1] \in 0 .. Diameter - 1
      BY <1>3
    <3>3. \A a, b, e, f \in 0 .. Diameter - 1 :
              a * Diameter + b = e * Diameter + f => a = e /\ b = f
      BY <1>1, RowMajor
    <3> QED BY <3>1, <3>2, <3>3
  <2>2. c[1] = d[1] /\ c[2] = d[2]
    <3>1. \A i \in {1, 2} : c[i] \in Int /\ d[i] \in Int /\ center[i] \in Int
      BY RegionAxes, WidthAssumption DEF Int32
    <3> QED BY <1>1, <1>3, <2>1, <3>1
  <2> QED BY <2>2, RegionAxes
<1> QED BY <1>4, <1>5

(* Two words in one of 64 bits.                                              *)
LEMMA KeyIsExact ==
    ASSUME NEW c \in Int32 \X Int32, NEW d \in Int32 \X Int32, Key(c) = Key(d)
    PROVE  c = d
<1>1. Word \in Nat \ {0} /\ Int32 \subseteq Int
  BY WidthAssumption DEF Word, Int32, Byte
<1>2. \A n \in Int32 : n % Word = IF n < 0 THEN n + Word ELSE n
  <2> SUFFICES ASSUME NEW n \in Int32 PROVE n % Word = IF n < 0 THEN n + Word ELSE n
    OBVIOUS
  <2>1. CASE n < 0
    <3>1. n \in Int /\ -Word <= n
      BY <1>1, WidthAssumption DEF Int32, Word
    <3> QED BY <1>1, <2>1, <3>1, ModUp
  <2>2. CASE ~(n < 0)
    <3>1. n \in 0 .. Word - 1
      BY <1>1, <2>2, WidthAssumption DEF Int32, Word
    <3> QED BY <1>1, <2>2, <3>1, ModSmall
  <2> QED BY <2>1, <2>2
<1>3. \A n, m \in Int32 : n % Word = m % Word => n = m
  <2>1. \A n \in Int32 : n \in Int /\ -HalfWord <= n /\ n < HalfWord
    BY WidthAssumption DEF Int32
  <2>2. HalfWord \in Nat /\ Word = 2 * HalfWord
    BY WidthAssumption DEF Word
  <2> QED BY <1>2, <2>1, <2>2
<1>4. \A n \in Int32 : n % Word \in 0 .. Word - 1
  BY <1>1, ModRange
<1>5. c[1] % Word = d[1] % Word /\ c[2] % Word = d[2] % Word
  <2>1. /\ c[1] % Word \in 0 .. Word - 1 /\ c[2] % Word \in 0 .. Word - 1
        /\ d[1] % Word \in 0 .. Word - 1 /\ d[2] % Word \in 0 .. Word - 1
    BY <1>4
  <2>2. (c[1] % Word) * Word + (c[2] % Word) = (d[1] % Word) * Word + (d[2] % Word)
    BY DEF Key
  <2>3. Word \in Nat
    BY <1>1
  <2> QED BY <2>1, <2>2, <2>3, RowMajor
<1> QED BY <1>3, <1>5

(* No two chunks of the region share a room or a topic, and every topic     *)
(* index is one of topics_.                                                 *)
THEOREM ChunksAlwaysHaveOwnRooms == Spec => []ChunksHaveOwnRooms
<1>1. IInv => ChunksHaveOwnRooms
  <2> SUFFICES ASSUME IInv, chunk # NoChunk PROVE
          /\ LocalIndex(chunk) \in 0 .. Diameter * Diameter - 1
          /\ \A c \in Region :
                Key(c) = Key(chunk) \/ LocalIndex(c) = LocalIndex(chunk) => c = chunk
    BY DEF ChunksHaveOwnRooms
  <2>1. chunk \in Region /\ Region \subseteq Int32 \X Int32
    BY DEF IInv, Region
  <2> QED BY <2>1, IndexIsExact, KeyIsExact
<1> QED
  BY IInvHolds, <1>1, PTL

-----------------------------------------------------------------------------

(* A loop's counter is kept by an offset if the radius fits into 7 bits.    *)
LEMMA TargetIsExact ==
    ASSUME IInv, NEW c \in Int32 \X Int32, SumsFit(c), aoi < HalfByte,
           NEW s \in Steps \X Steps
    PROVE  Target(c, s) = <<c[1] + s[1], c[2] + s[2]>>
<1>1. /\ HalfByte \in Nat \ {0} /\ HalfWord \in Nat \ {0}
      /\ c[1] \in Int /\ c[2] \in Int /\ aoi \in Nat
  BY WidthAssumption DEF Int32, IInv, ValidAoi, UInt8, Byte
<1>2. s[1] \in -HalfByte .. HalfByte - 1 /\ s[2] \in -HalfByte .. HalfByte - 1
  BY <1>1 DEF Steps
<1>3. Offset(s[1]) = s[1] /\ Offset(s[2]) = s[2]
  BY <1>1, <1>2, SignedFits DEF Offset
<1>4. /\ c[1] + s[1] \in -HalfWord .. HalfWord - 1
      /\ c[2] + s[2] \in -HalfWord .. HalfWord - 1
  BY <1>1, <1>2 DEF SumsFit, Int32
<1> QED BY <1>1, <1>3, <1>4, SignedFits DEF Target

(* A broadcast reaches the square around its sender, each chunk once.  In   *)
(* particular the relation "reaches" is reflexive and symmetric, as the     *)
(* modules of the sessions and the profiles assume of their Near.           *)
THEOREM BroadcastAlwaysSquare == Spec => []BroadcastIsSquare
<1>1. IInv => BroadcastIsSquare
  <2> SUFFICES ASSUME IInv, chunk # NoChunk, SumsFit(chunk), aoi < HalfByte,
                      NEW d \in Region
               PROVE  /\ (\E s \in Steps \X Steps : Target(chunk, s) = d) <=> Near(chunk, d)
                      /\ \A s, t \in Steps \X Steps :
                            Target(chunk, s) = d /\ Target(chunk, t) = d => s = t
    BY DEF BroadcastIsSquare, IsSquare
  <2>1. chunk \in Int32 \X Int32 /\ d \in Int32 \X Int32
    BY DEF IInv, Region
  <2>2. /\ chunk[1] \in Int /\ chunk[2] \in Int /\ d[1] \in Int /\ d[2] \in Int
        /\ d = <<d[1], d[2]>> /\ aoi \in Nat
    BY <2>1, WidthAssumption DEF Int32, IInv, ValidAoi, UInt8, Byte
  <2>3. \A s \in Steps \X Steps : Target(chunk, s) = <<chunk[1] + s[1], chunk[2] + s[2]>>
    BY <2>1, TargetIsExact
  <2>4. ASSUME NEW s \in Steps \X Steps, Target(chunk, s) = d PROVE Near(chunk, d)
    <3>1. /\ s[1] \in -aoi .. aoi /\ s[2] \in -aoi .. aoi
          /\ d[1] = chunk[1] + s[1] /\ d[2] = chunk[2] + s[2]
      BY <2>2, <2>3, <2>4 DEF Steps
    <3> QED BY <2>2, <3>1 DEF Near
  <2>5. ASSUME Near(chunk, d) PROVE \E s \in Steps \X Steps : Target(chunk, s) = d
    <3> DEFINE s == <<d[1] - chunk[1], d[2] - chunk[2]>>
    <3>1. s \in Steps \X Steps
      BY <2>2, <2>5 DEF Near, Steps
    <3>2. Target(chunk, s) = <<chunk[1] + (d[1] - chunk[1]), chunk[2] + (d[2] - chunk[2])>>
      BY <2>3, <3>1
    <3>3. Target(chunk, s) = d
      BY <2>2, <3>2
    <3> QED BY <3>1, <3>3
  <2>6. ASSUME NEW s \in Steps \X Steps, NEW t \in Steps \X Steps,
               Target(chunk, s) = d, Target(chunk, t) = d
        PROVE  s = t
    <3>1. chunk[1] + s[1] = chunk[1] + t[1] /\ chunk[2] + s[2] = chunk[2] + t[2]
      BY <2>3, <2>6
    <3>2. s = <<s[1], s[2]>> /\ t = <<t[1], t[2]>>
          /\ s[1] \in Int /\ s[2] \in Int /\ t[1] \in Int /\ t[2] \in Int
      BY <2>2 DEF Steps
    <3> QED BY <2>2, <3>1, <3>2
  <2> QED BY <2>4, <2>5, <2>6
<1> QED
  BY IInvHolds, <1>1, PTL

=============================================================================
