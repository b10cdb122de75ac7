-------------------------- MODULE RoomTable_proofs --------------------------
(***************************************************************************)
(* What the operations on the chunk rooms do to a table, for any players   *)
(* and any chunks: they keep its type and the agreement between seats and  *)
(* vectors, and they change who is in a room exactly as their names say.   *)
(* The state machines that own a table cite these facts.                   *)
(***************************************************************************)
EXTENDS RoomTable, TLAPS

Consistent(t) ==
    /\ t \in RoomTables
    /\ RoomHasSeat(t)
    /\ SeatHasRoom(t)
    /\ NoEmptyRoom(t)

(* The table of a server that has just started is consistent. *)
LEMMA EmptyTableConsistent == Consistent(EmptyTable)
BY NoRoomAssumption
   DEF Consistent, EmptyTable, RoomTables, RoomHasSeat, SeatHasRoom, NoEmptyRoom

-----------------------------------------------------------------------------

(* The table after get_or_create_room and add_player_to_room, field by     *)
(* field: the vector the player is appended to is the room's own one, or   *)
(* an empty one if the room had to be created.                             *)
SeatVector(t, c) == IF c \in t.chunks THEN t.players[c] ELSE <<>>

LEMMA SeatFields ==
    ASSUME NEW t \in RoomTables, NEW p \in Player, NEW c \in Chunk
    PROVE  Seat(t, p, c) =
             [ chunks  |-> t.chunks \cup {c},
               players |-> [t.players EXCEPT ![c] = Append(SeatVector(t, c), p)],
               room    |-> [t.room EXCEPT ![p] = c],
               index   |-> [t.index EXCEPT ![p] = Len(SeatVector(t, c)) + 1] ]
BY DEF Seat, GetOrCreateRoom, AddPlayerToRoom, SeatVector, RoomTables

(* Only the seated player's current_chunk_room changes. *)
LEMMA SeatRoom ==
    ASSUME NEW t \in RoomTables, NEW p \in Player, NEW c \in Chunk, NEW q \in Player
    PROVE  Seat(t, p, c).room[q] = IF q = p THEN c ELSE t.room[q]
BY DEF Seat, GetOrCreateRoom, AddPlayerToRoom, RoomTables

(* create_player and move_player_chunk seat a player that has no room:     *)
(* the table stays consistent, the player sits in the room, and every      *)
(* other seat is where it was.                                             *)
LEMMA SeatConsistent ==
    ASSUME NEW t, Consistent(t), NEW p \in Player, NEW c \in Chunk,
           t.room[p] = NoRoom
    PROVE  Consistent(Seat(t, p, c))
<1> DEFINE u == Seat(t, p, c)
           v == SeatVector(t, c)
<1>1. t \in RoomTables
  BY DEF Consistent
<1>2. u = [ chunks  |-> t.chunks \cup {c},
            players |-> [t.players EXCEPT ![c] = Append(v, p)],
            room    |-> [t.room EXCEPT ![p] = c],
            index   |-> [t.index EXCEPT ![p] = Len(v) + 1] ]
  BY <1>1, SeatFields
<1>3. /\ v \in Seq(Player)
      /\ v = IF c \in t.chunks THEN t.players[c] ELSE <<>>
      /\ \A i \in 1 .. Len(v) : v[i] # p /\ t.room[v[i]] = c /\ t.index[v[i]] = i
  BY <1>1, NoRoomAssumption DEF Consistent, SeatHasRoom, RoomTables, SeatVector
<1> HIDE DEF u, v
<1>4. /\ Append(v, p) \in Seq(Player)
      /\ Len(Append(v, p)) = Len(v) + 1
      /\ \A i \in 1 .. Len(v) : Append(v, p)[i] = v[i]
      /\ Append(v, p)[Len(v) + 1] = p
  BY <1>3
<1>5. u \in RoomTables
  <2>1. /\ t.chunks \cup {c} \in SUBSET Chunk
        /\ [t.players EXCEPT ![c] = Append(v, p)] \in [Chunk -> Seq(Player)]
        /\ [t.room EXCEPT ![p] = c] \in [Player -> Chunk \cup {NoRoom}]
        /\ [t.index EXCEPT ![p] = Len(v) + 1] \in [Player -> Nat]
    BY <1>1, <1>3, <1>4 DEF RoomTables
  <2> QED BY <1>2, <2>1 DEF RoomTables
<1>6. RoomHasSeat(u)
  <2> SUFFICES ASSUME NEW q \in Player, u.room[q] # NoRoom
               PROVE  /\ u.room[q] \in u.chunks
                      /\ u.index[q] \in 1 .. Len(u.players[u.room[q]])
                      /\ u.players[u.room[q]][u.index[q]] = q
    BY DEF RoomHasSeat
  <2>1. CASE q = p
    BY <1>1, <1>2, <1>3, <1>4, <2>1 DEF RoomTables
  <2>2. CASE q # p
    <3>1. /\ u.room[q] = t.room[q]
          /\ u.index[q] = t.index[q]
          /\ t.room[q] \in t.chunks
          /\ t.index[q] \in 1 .. Len(t.players[t.room[q]])
          /\ t.players[t.room[q]][t.index[q]] = q
      BY <1>1, <1>2, <2>2 DEF Consistent, RoomHasSeat, RoomTables
    <3>2. CASE t.room[q] = c
      BY <1>1, <1>2, <1>3, <1>4, <3>1, <3>2 DEF RoomTables, SeatVector
    <3>3. CASE t.room[q] # c
      BY <1>1, <1>2, <3>1, <3>3 DEF RoomTables
    <3> QED BY <3>2, <3>3
  <2> QED BY <2>1, <2>2
<1>7. SeatHasRoom(u)
  <2> SUFFICES ASSUME NEW d \in u.chunks, NEW i \in 1 .. Len(u.players[d])
               PROVE  /\ u.room[u.players[d][i]] = d
                      /\ u.index[u.players[d][i]] = i
    BY DEF SeatHasRoom
  <2>1. CASE d = c
    BY <1>1, <1>2, <1>3, <1>4, <2>1 DEF RoomTables
  <2>2. CASE d # c
    <3>1. /\ d \in t.chunks
          /\ u.players[d] = t.players[d]
          /\ t.players[d][i] \in Player
          /\ t.room[t.players[d][i]] = d
          /\ t.index[t.players[d][i]] = i
      BY <1>1, <1>2, <2>2 DEF Consistent, SeatHasRoom, RoomTables
    <3>2. t.players[d][i] # p
      BY <1>1, <3>1, NoRoomAssumption DEF RoomTables
    <3> QED BY <1>1, <1>2, <3>1, <3>2 DEF RoomTables
  <2> QED BY <2>1, <2>2
<1>8. NoEmptyRoom(u)
  <2> SUFFICES ASSUME NEW d \in u.chunks PROVE u.players[d] # <<>>
    BY DEF NoEmptyRoom
  <2>1. CASE d = c
    <3>1. u.players[d] = Append(v, p)
      BY <1>1, <1>2, <2>1 DEF RoomTables
    <3> QED BY <1>3, <1>4, <3>1
  <2>2. CASE d # c
    BY <1>1, <1>2, <2>2 DEF Consistent, NoEmptyRoom, RoomTables
  <2> QED BY <2>1, <2>2
<1> QED
  BY <1>5, <1>6, <1>7, <1>8 DEF Consistent, u

-----------------------------------------------------------------------------

(* remove_player_from_room takes one player out: the table stays           *)
(* consistent although another player's index was rewritten, and apart     *)
(* from that player every one keeps its room.                              *)
LEMMA RemoveConsistent ==
    ASSUME NEW t, Consistent(t), NEW p \in Player, t.room[p] # NoRoom
    PROVE  /\ Consistent(RemovePlayerFromRoom(t, p))
           /\ RemovePlayerFromRoom(t, p).room = [t.room EXCEPT ![p] = NoRoom]
<1> DEFINE u  == RemovePlayerFromRoom(t, p)
           c  == t.room[p]
           i  == t.index[p]
           ps == t.players[c]
           q  == ps[Len(ps)]
           ns == SwapWithLastAndPop(ps, i)
<1>1. t \in RoomTables
  BY DEF Consistent
<1>2. /\ c \in Chunk /\ c \in t.chunks /\ c = t.room[p]
      /\ ps \in Seq(Player) /\ ps = t.players[c]
      /\ i \in 1 .. Len(ps) /\ i = t.index[p]
      /\ ps[i] = p
      /\ q = ps[Len(ps)]
      /\ q \in Player
      /\ \A k \in 1 .. Len(ps) : ps[k] \in Player /\ t.room[ps[k]] = c /\ t.index[ps[k]] = k
  <2>1. c \in t.chunks /\ i \in 1 .. Len(ps) /\ ps[i] = p
    BY DEF Consistent, RoomHasSeat
  <2>2. c \in Chunk
    BY <1>1, <2>1 DEF RoomTables
  <2>3. ps \in Seq(Player)
    BY <1>1, <2>2 DEF RoomTables
  <2>4. \A k \in 1 .. Len(ps) : t.room[ps[k]] = c /\ t.index[ps[k]] = k
    BY <2>1 DEF Consistent, SeatHasRoom
  <2>5. \A k \in 1 .. Len(ps) : ps[k] \in Player
    BY <2>3
  <2>6. Len(ps) \in 1 .. Len(ps)
    <3>1. Len(ps) \in Nat
      BY <2>3
    <3> QED BY <2>1, <3>1
  <2>7. q \in Player
    BY <2>5, <2>6
  <2> QED BY <2>1, <2>2, <2>3, <2>4, <2>5, <2>7
<1>2a. /\ c \in Chunk /\ i \in Nat /\ 1 <= i /\ i <= Len(ps) /\ ~(i > Len(ps))
       /\ Len(ps) \in Nat /\ Len(ps) >= 1 /\ Len(ps) - 1 \in Nat
       /\ Len(ps) \in 1 .. Len(ps)
  <2>1. ps \in Seq(Player) /\ i \in 1 .. Len(ps) /\ c \in Chunk
    BY <1>2, Zenon
  <2> HIDE DEF c, i, ps
  <2>2. Len(ps) \in Nat
    BY <2>1
  <2> QED BY <2>1, <2>2
<1>3. /\ ns = [k \in 1 .. Len(ps) - 1 |-> IF k = i THEN q ELSE ps[k]]
      /\ ns \in Seq(Player)
      /\ Len(ns) = Len(ps) - 1
  <2>1. ~(i > Len(ps))
    BY <1>2a, Zenon
  <2>2. ns = [k \in 1 .. Len(ps) - 1 |-> IF k = i THEN q ELSE ps[k]]
    BY <2>1, Zenon DEF SwapWithLastAndPop
  <2> HIDE DEF ns, q, ps, i, c
  <2>3. \A k \in 1 .. Len(ps) - 1 : (IF k = i THEN q ELSE ps[k]) \in Player
    <3> SUFFICES ASSUME NEW k \in 1 .. Len(ps) - 1
                 PROVE  (IF k = i THEN q ELSE ps[k]) \in Player
      OBVIOUS
    <3>1. k \in 1 .. Len(ps)
      BY <1>2a
    <3>2. q \in Player /\ ps[k] \in Player
      BY <1>2, <3>1, Zenon
    <3> QED BY <3>2, Zenon
  <2> QED BY <1>2a, <2>2, <2>3
<1>4. u = [ chunks  |-> IF ns = <<>> THEN t.chunks \ {c} ELSE t.chunks,
            players |-> [t.players EXCEPT ![c] = ns],
            room    |-> [t.room EXCEPT ![p] = NoRoom],
            index   |-> [[t.index EXCEPT ![q] = i] EXCEPT ![p] = 0] ]
  <2>1. Reindexed(t.index, ps, i) = [t.index EXCEPT ![q] = i]
    BY <1>2a, Zenon DEF Reindexed
  <2>2. u = [ chunks  |-> EraseRoomIfEmpty(t.chunks, c, ns),
              players |-> [t.players EXCEPT ![c] = ns],
              room    |-> [t.room EXCEPT ![p] = NoRoom],
              index   |-> [Reindexed(t.index, ps, i) EXCEPT ![p] = 0] ]
    BY Zenon DEF RemovePlayerFromRoom
  <2> QED BY <2>1, <2>2, Zenon DEF EraseRoomIfEmpty
<1> HIDE DEF u, ns, q, ps, i, c
<1>5. /\ Len(ps) \in Nat /\ Len(ps) >= 1
      /\ i \in Nat /\ 1 <= i /\ i <= Len(ps)
      /\ t.room[q] = c /\ t.index[q] = Len(ps)
      /\ (q = p) <=> (i = Len(ps))
  <2>1. Len(ps) \in Nat /\ i \in Nat /\ 1 <= i /\ i <= Len(ps)
    BY <1>2a, Zenon
  <2>2. Len(ps) \in 1 .. Len(ps)
    BY <1>2a, Zenon
  <2>3. t.room[q] = c /\ t.index[q] = Len(ps)
    <3>1. q = ps[Len(ps)] /\ \A k \in 1 .. Len(ps) : t.room[ps[k]] = c /\ t.index[ps[k]] = k
      BY <1>2
    <3> QED BY <2>2, <3>1, Zenon
  <2>4. q = p => i = Len(ps)
    <3>1. i = t.index[p]
      BY <1>2
    <3> QED BY <2>3, <3>1, Zenon
  <2>5. i = Len(ps) => q = p
    <3>1. q = ps[Len(ps)] /\ ps[i] = p
      BY <1>2
    <3> QED BY <3>1, Zenon
  <2>6. Len(ps) >= 1
    BY <1>2a, Zenon
  <2> QED BY <2>1, <2>3, <2>4, <2>5, <2>6, Zenon
<1>5a. /\ Len(ns) \in Nat /\ Len(ns) = Len(ps) - 1
       /\ \A k \in 1 .. Len(ns) : ns[k] = IF k = i THEN q ELSE ps[k]
       /\ (Len(ns) > 0) => (ns # <<>>)
  <2>1. Len(ns) \in Nat /\ Len(ns) = Len(ps) - 1
    BY <1>3, <1>5
  <2>2. \A k \in 1 .. Len(ns) : ns[k] = IF k = i THEN q ELSE ps[k]
    BY <1>3, <2>1, Zenon
  <2> QED BY <2>1, <2>2
<1>6. /\ u.chunks = IF ns = <<>> THEN t.chunks \ {c} ELSE t.chunks
      /\ u.players[c] = ns
      /\ \A d \in Chunk : d # c => u.players[d] = t.players[d]
      /\ u.room = [t.room EXCEPT ![p] = NoRoom]
      /\ \A x \in Player : u.room[x] = IF x = p THEN NoRoom ELSE t.room[x]
      /\ \A x \in Player : u.index[x] = IF x = p THEN 0 ELSE IF x = q THEN i ELSE t.index[x]
  <2>1. /\ t.players \in [Chunk -> Seq(Player)]
        /\ t.room \in [Player -> Chunk \cup {NoRoom}]
        /\ t.index \in [Player -> Nat]
    BY <1>1 DEF RoomTables
  <2> QED BY <1>2, <1>4, <2>1
<1>7. u \in RoomTables
  <2>1. /\ u.chunks \in SUBSET Chunk
        /\ [t.players EXCEPT ![c] = ns] \in [Chunk -> Seq(Player)]
        /\ [t.room EXCEPT ![p] = NoRoom] \in [Player -> Chunk \cup {NoRoom}]
        /\ [[t.index EXCEPT ![q] = i] EXCEPT ![p] = 0] \in [Player -> Nat]
    <3>1. /\ t.chunks \in SUBSET Chunk
          /\ t.players \in [Chunk -> Seq(Player)]
          /\ t.room \in [Player -> Chunk \cup {NoRoom}]
          /\ t.index \in [Player -> Nat]
      BY <1>1 DEF RoomTables
    <3>2. ns \in Seq(Player) /\ i \in Nat /\ c \in Chunk
      BY <1>2a, <1>3, Zenon
    <3>3. t.chunks \ {c} \in SUBSET Chunk
      BY <3>1
    <3>4. u.chunks \in SUBSET Chunk
      BY <1>6, <3>1, <3>3, Zenon
    <3>5. [t.players EXCEPT ![c] = ns] \in [Chunk -> Seq(Player)]
      BY <3>1, <3>2
    <3>6. [t.room EXCEPT ![p] = NoRoom] \in [Player -> Chunk \cup {NoRoom}]
      BY <3>1
    <3>7. [[t.index EXCEPT ![q] = i] EXCEPT ![p] = 0] \in [Player -> Nat]
      BY <3>1, <3>2
    <3> QED BY <3>4, <3>5, <3>6, <3>7
  <2> QED BY <1>4, <2>1 DEF RoomTables
<1>8. RoomHasSeat(u)
  <2> SUFFICES ASSUME NEW x \in Player, u.room[x] # NoRoom
               PROVE  /\ u.room[x] \in u.chunks
                      /\ u.index[x] \in 1 .. Len(u.players[u.room[x]])
                      /\ u.players[u.room[x]][u.index[x]] = x
    BY DEF RoomHasSeat
  <2>1. /\ x # p
        /\ u.room[x] = t.room[x]
        /\ t.room[x] \in t.chunks /\ t.room[x] \in Chunk
        /\ t.index[x] \in 1 .. Len(t.players[t.room[x]])
        /\ t.players[t.room[x]][t.index[x]] = x
    BY <1>1, <1>6 DEF Consistent, RoomHasSeat, RoomTables
  <2>2. CASE t.room[x] # c
    <3>1. x # q
      BY <1>5, <2>2
    <3> QED BY <1>6, <2>1, <2>2, <3>1
  <2>3. CASE t.room[x] = c /\ x = q
    <3>1. i \in 1 .. Len(ns) /\ ns[i] = q /\ ns # <<>>
      <4>1. i \in Nat /\ 1 <= i /\ i <= Len(ps) /\ i # Len(ps)
        BY <1>5, <2>1, <2>3
      <4> QED BY <1>5, <1>5a, <4>1
    <3> QED BY <1>6, <2>1, <2>3, <3>1
  <2>4. CASE t.room[x] = c /\ x # q
    <3> DEFINE j == t.index[x]
    <3>1. j \in 1 .. Len(ps) /\ ps[j] = x
      BY <1>2, <2>1, <2>4
    <3>2. j # Len(ps) /\ j # i
      BY <1>2, <2>1, <2>4, <3>1
    <3>3. j \in 1 .. Len(ns) /\ ns[j] = x /\ ns # <<>>
      BY <1>5, <1>5a, <3>1, <3>2
    <3> QED BY <1>6, <2>1, <2>4, <3>3
  <2> QED BY <2>2, <2>3, <2>4
<1>9. SeatHasRoom(u)
  <2> SUFFICES ASSUME NEW d \in u.chunks, NEW k \in 1 .. Len(u.players[d])
               PROVE  /\ u.room[u.players[d][k]] = d
                      /\ u.index[u.players[d][k]] = k
    BY DEF SeatHasRoom
  <2>1. d \in t.chunks /\ d \in Chunk
    BY <1>1, <1>6 DEF RoomTables
  <2>2. CASE d # c
    <3> DEFINE y == t.players[d][k]
    <3>1. /\ u.players[d] = t.players[d]
          /\ y \in Player /\ t.room[y] = d /\ t.index[y] = k
      BY <1>1, <1>6, <2>1, <2>2 DEF Consistent, SeatHasRoom, RoomTables
    <3>2. y # p /\ y # q
      BY <1>2, <1>5, <2>2, <3>1
    <3> HIDE DEF y
    <3> QED BY <1>6, <3>1, <3>2 DEF y
  <2>3. CASE d = c
    <3>1. /\ k \in 1 .. Len(ps) /\ k # Len(ps)
          /\ u.players[d][k] = IF k = i THEN q ELSE ps[k]
      <4>1. k \in 1 .. Len(ns) /\ u.players[d] = ns
        BY <1>6, <2>3
      <4> QED BY <1>5, <1>5a, <4>1
    <3>2. CASE k = i
      <4>1. u.players[d][k] = q /\ q # p
        BY <1>5, <3>1, <3>2
      <4>2. q \in Player
        BY <1>2
      <4> QED BY <1>5, <1>6, <2>3, <3>2, <4>1, <4>2
    <3>3. CASE k # i
      <4> DEFINE y == ps[k]
      <4>1. y \in Player /\ t.room[y] = c /\ t.index[y] = k
        BY <1>2, <3>1
      <4>2. y # p /\ y # q
        BY <1>2, <1>5, <3>1, <3>3, <4>1
      <4>3. u.players[d][k] = y
        BY <3>1, <3>3
      <4> HIDE DEF y
      <4> QED BY <1>6, <2>3, <4>1, <4>2, <4>3
    <3> QED BY <3>2, <3>3
  <2> QED BY <2>2, <2>3
<1>10. NoEmptyRoom(u)
  <2> SUFFICES ASSUME NEW d \in u.chunks PROVE u.players[d] # <<>>
    BY DEF NoEmptyRoom
  <2>1. d \in t.chunks /\ d \in Chunk /\ (d = c => ns # <<>>)
    BY <1>1, <1>6 DEF RoomTables
  <2>2. t.players[d] # <<>>
    BY <2>1, Zenon DEF Consistent, NoEmptyRoom
  <2> QED BY <1>6, <2>1, <2>2, Zenon
<1> QED
  BY <1>6, <1>7, <1>8, <1>9, <1>10 DEF Consistent, u

(* The occupants of a chunk's room are the players whose                   *)
(* current_chunk_room it is: vectors and pointers tell the same story.     *)
LEMMA OccupantsByRoom ==
    ASSUME NEW t, Consistent(t), NEW c \in Chunk
    PROVE  Occupants(t, c) = {p \in Player : t.room[p] = c}
<1>1. CASE c \in t.chunks
  <2>1. ASSUME NEW i \in 1 .. Len(t.players[c])
        PROVE  t.players[c][i] \in Player /\ t.room[t.players[c][i]] = c
    BY <1>1 DEF Consistent, RoomTables, SeatHasRoom
  <2>2. ASSUME NEW p \in Player, t.room[p] = c
        PROVE  \E i \in 1 .. Len(t.players[c]) : t.players[c][i] = p
    BY <2>2, NoRoomAssumption DEF Consistent, RoomHasSeat
  <2> QED BY <1>1, <2>1, <2>2 DEF Occupants
<1>2. CASE c \notin t.chunks
  BY <1>2, NoRoomAssumption DEF Consistent, RoomHasSeat, Occupants
<1> QED BY <1>1, <1>2

=============================================================================
