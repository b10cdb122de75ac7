----------------------- MODULE GuardianSessions_proofs -----------------------
(***************************************************************************)
(* The session core keeps its books straight for any number of connections, *)
(* wallets, chunks and ids.  The inductive invariant IInv is the type       *)
(* invariant with the properties that need each other: a HELLO finds one    *)
(* session to retire because there is at most one per wallet, that session  *)
(* leaves the one room it is in because the rooms hold exactly the active   *)
(* players, and a close deletes an object nobody else points to because     *)
(* every object belongs to one connection.                                  *)
(* The second half is about Presence: what the server tells a settled       *)
(* client adds up to who is around it.  The server keeps no list of what it *)
(* told whom, so the argument has to show for every callback that the       *)
(* messages it publishes are the difference between who was around before   *)
(* and who is after, for every listener at once.                            *)
(***************************************************************************)
EXTENDS Presence, RoomTable_proofs, FiniteSetTheorems, SequenceTheorems

IInv ==
    /\ TypeOK
    /\ OneSessionPerWallet
    /\ PlayerMapConsistent
    /\ SessionOwnership
    /\ RoomsHoldActivePlayers
    /\ SubscriptionFollowsRoom

-----------------------------------------------------------------------------
(* What the invariant says of one state *)

(* An id names one active player, and that player carries the id, so the   *)
(* address test of is_active_player finds exactly the active players.      *)
LEMMA ActivePlayers ==
    ASSUME TypeOK, PlayerMapConsistent
    PROVE  /\ Active \subseteq Player
           /\ Active \cap retired = {}
           /\ \A p \in Active : /\ player[p] \in PlayerFields
                                /\ player[p].id \in Id
                                /\ players[player[p].id] = p
           /\ \A i \in Id : players[i] # NoPlayer =>
                 players[i] \in Active /\ i = player[players[i]].id
           /\ \A p \in Allocated : IsActivePlayer(p) <=> p \in Active
<1>1. Active \subseteq Player
  BY DEF Active
<1>2. ASSUME NEW i \in Id, players[i] # NoPlayer
      PROVE  players[i] \in Active /\ i = player[players[i]].id /\ players[i] \notin retired
  BY <1>2 DEF TypeOK, PlayerMapConsistent, Active
<1>3. ASSUME NEW p \in Active
      PROVE  /\ player[p] \in PlayerFields
             /\ player[p].id \in Id
             /\ players[player[p].id] = p
             /\ p \notin retired
  <2>1. PICK i \in Id : players[i] = p
    BY DEF Active
  <2>2. p # NoPlayer /\ p \in Player
    BY <1>1, NoPlayerAssumption
  <2>3. player[p] \in PlayerFields
    BY DEF TypeOK, Allocated
  <2> QED BY <1>2, <2>1, <2>2, <2>3
<1>4. ASSUME NEW p \in Allocated
      PROVE  IsActivePlayer(p) <=> p \in Active
  <2>1. p \in Player /\ p # NoPlayer
    BY <1>1, NoPlayerAssumption DEF Allocated, TypeOK
  <2>2. player[p].id \in Id
    BY DEF TypeOK, PlayerFields
  <2> QED BY <1>3, <2>1, <2>2 DEF IsActivePlayer, Active
<1> QED BY <1>1, <1>2, <1>3, <1>4

(* The rooms form a consistent table, and its seats are those of the       *)
(* active players.                                                         *)
LEMMA RoomsConsistent ==
    ASSUME TypeOK, RoomsHoldActivePlayers
    PROVE  /\ Consistent(rooms)
           /\ \A p \in Player :
                 rooms.room[p] = IF p \in Active THEN player[p].chunk ELSE NoRoom
BY DEF TypeOK, RoomsHoldActivePlayers, Consistent

(* A connection's player is a Player object that is active or retired, and *)
(* is_active_player tells which.                                           *)
LEMMA SessionPlayer ==
    ASSUME IInv, NEW s \in Socket, session[s] # NoPlayer
    PROVE  /\ s \in sockets
           /\ session[s] \in Player
           /\ session[s] \in Allocated
           /\ player[session[s]] \in PlayerFields
           /\ IsActivePlayer(session[s]) <=> session[s] \in Active
           /\ session[s] \notin Active => session[s] \in retired
           /\ \A r \in Socket : session[r] = session[s] => r = s
BY ActivePlayers DEF IInv, TypeOK, SessionOwnership, Allocated

(* retire_players_with_wallet stops at the first session it finds because  *)
(* there is no second one.                                                 *)
LEMMA OneHolder ==
    ASSUME IInv, NEW w \in Wallet, NEW h \in HolderOf(w)
    PROVE  HolderOf(w) = {h}
BY DEF IInv, OneSessionPerWallet, HolderOf

-----------------------------------------------------------------------------
(* The initial state *)

(* A server that has just started satisfies the invariant. *)
LEMMA InitIInv == Init => IInv
<1> SUFFICES ASSUME Init PROVE IInv
  OBVIOUS
<1>1. Active = {} /\ Allocated = {}
  BY NoPlayerAssumption DEF Init, Active, Allocated
<1>2. Consistent(rooms)
  BY EmptyTableConsistent DEF Init
<1>3. TypeOK
  <2>1. nextId \in Id
    BY MaxPlayersAssumption DEF Init, Id
  <2>2. pending \in Seq(Player) /\ out \in Seq(Messages)
    BY DEF Init
  <2> QED BY <1>1, <1>2, <2>1, <2>2 DEF Init, TypeOK, Consistent
<1>4. RoomsHoldActivePlayers
  BY <1>1, <1>2 DEF Init, EmptyTable, RoomsHoldActivePlayers, Consistent
<1>5. SessionOwnership
  BY <1>1 DEF Init, SessionOwnership
<1>6. SubscriptionFollowsRoom
  BY DEF Init, SubscriptionFollowsRoom, IsActivePlayer
<1>7. OneSessionPerWallet /\ PlayerMapConsistent
  BY <1>1 DEF Init, OneSessionPerWallet, PlayerMapConsistent
<1> QED BY <1>3, <1>4, <1>5, <1>6, <1>7 DEF IInv

-----------------------------------------------------------------------------
(* Steps that leave sessions, ids and rooms alone *)

(* What a step may change without disturbing the sessions: timers, the     *)
(* queue, the messages, new connections, and the fields of a player that   *)
(* are neither its id, nor its wallet, nor its chunk, nor "connected".     *)
LEMMA QuietStep ==
    ASSUME IInv,
           UNCHANGED <<session, topics, players, retired, rooms, nextId>>,
           sockets \subseteq sockets',
           sockets' \in SUBSET Socket,
           expired' \in SUBSET Socket,
           stale' \in SUBSET Socket,
           pending' \in Seq(Player),
           out' \in Seq(Messages),
           player' \in [Player -> PlayerFields \cup {Blank}],
           \A p \in Allocated :
              /\ player'[p] \in PlayerFields
              /\ player'[p].id = player[p].id
              /\ player'[p].wallet = player[p].wallet
              /\ player'[p].chunk = player[p].chunk
              /\ player'[p].connected = player[p].connected
    PROVE  IInv'
<1>1. Active' = Active /\ Allocated' = Allocated /\ Active \subseteq Allocated
  BY DEF Active, Allocated
<1>2. TypeOK'
  BY <1>1 DEF IInv, TypeOK
<1>3. OneSessionPerWallet'
  BY <1>1 DEF IInv, OneSessionPerWallet
<1>4. PlayerMapConsistent'
  <2>1. \A i \in Id : players[i] # NoPlayer => players[i] \in Allocated
    BY DEF IInv, TypeOK, Active, Allocated
  <2> QED BY <2>1 DEF IInv, PlayerMapConsistent
<1>5. SessionOwnership'
  BY <1>1 DEF IInv, SessionOwnership
<1>6. RoomsHoldActivePlayers'
  BY <1>1 DEF IInv, RoomsHoldActivePlayers
<1>7. SubscriptionFollowsRoom'
  <2>1. ASSUME NEW s \in Socket
        PROVE  IsActivePlayer(session[s])' <=> IsActivePlayer(session[s])
    BY SessionPlayer DEF IsActivePlayer
  <2> QED BY <2>1 DEF IInv, SubscriptionFollowsRoom
<1> QED BY <1>2, <1>3, <1>4, <1>5, <1>6, <1>7 DEF IInv

(* open, PONG and the like, the passing of time, the start of a sweep. *)
LEMMA OpenIInv == ASSUME IInv, NEW s \in Socket, Open(s) PROVE IInv'
BY QuietStep DEF Open, IInv, TypeOK

(* A frame that only refreshes last_seen_ms. *)
LEMMA KeepAliveIInv == ASSUME IInv, NEW s \in Socket, KeepAlive(s) PROVE IInv'
BY QuietStep DEF KeepAlive, IInv, TypeOK

(* A timeout passes. *)
LEMMA ElapseIInv == ASSUME IInv, NEW s \in Socket, Elapse(s) PROVE IInv'
BY QuietStep DEF Elapse, IInv, TypeOK

(* reap_stale_sockets collects the connections it will end. *)
LEMMA ReapIInv == ASSUME IInv, ReapStaleSockets PROVE IInv'
BY QuietStep DEF ReapStaleSockets, StaleSockets, IInv, TypeOK

(* flush_pending_moves clears flags and sends items, whatever it reads     *)
(* through the entries of deleted players.                                 *)
LEMMA FlushIInv == ASSUME IInv, FlushPendingMoves PROVE IInv'
<1>1. \A chunks : Subscribers(chunks) \in SUBSET Socket
  BY DEF Subscribers, IInv, TypeOK
<1>2. NoItem \in Messages
  BY DEF NoItem, Message, Messages
<1>3. \A i \in Id, chunks \in SUBSET Chunk : GarbageItem(i, chunks) \in Messages
  BY <1>1 DEF GarbageItem, Message, Messages
<1>4. ASSUME NEW i \in 1 .. Len(pending), Sendable(i)
      PROVE  MoveItem(i) \in Messages
  <2>1. player[pending[i]].id \in Id /\ player[pending[i]].chunk \in Chunk
    BY <1>4 DEF Sendable, IInv, TypeOK, PlayerFields
  <2> QED BY <1>1, <2>1 DEF MoveItem, PublishToAoi, Message, Messages
<1>5. out' \in Seq(Messages)
  <2>1. Len(pending) \in Nat
    BY DEF IInv, TypeOK
  <2>2. PICK garbage \in GarbageReads : out' = FlushedItems(garbage)
    BY DEF FlushPendingMoves
  <2>3. ASSUME NEW i \in 1 .. Len(pending)
        PROVE  FlushedItems(garbage)[i] \in Messages
    <3>1. CASE i \in Dangling
      <4>1. FlushedItems(garbage)[i] = garbage[i]
        BY <3>1 DEF FlushedItems
      <4> QED BY <1>2, <1>3, <3>1, <4>1 DEF GarbageReads
    <3>2. CASE i \notin Dangling
      BY <1>2, <1>4, <3>2 DEF FlushedItems
    <3> QED BY <3>1, <3>2
  <2> QED BY <2>1, <2>2, <2>3 DEF FlushedItems
<1>6. /\ player' \in [Player -> PlayerFields \cup {Blank}]
      /\ \A p \in Allocated :
            /\ player'[p] \in PlayerFields
            /\ player'[p].id = player[p].id
            /\ player'[p].wallet = player[p].wallet
            /\ player'[p].chunk = player[p].chunk
            /\ player'[p].connected = player[p].connected
  <2>1. player' = FieldsAfterFlush
    BY DEF FlushPendingMoves
  <2>2. ASSUME NEW p \in Player, \E i \in 1 .. Len(pending) : pending[i] = p /\ Sendable(i)
        PROVE  player[p] \in PlayerFields
    BY <2>2 DEF Sendable, IInv, TypeOK
  <2>3. Allocated \subseteq Player
    BY DEF Allocated, Active, IInv, TypeOK
  <2>4. /\ player \in [Player -> PlayerFields \cup {Blank}]
        /\ \A p \in Allocated : player[p] \in PlayerFields
    BY DEF IInv, TypeOK
  <2>5. ASSUME NEW f \in PlayerFields
        PROVE  /\ [f EXCEPT !.move = FALSE, !.queued = FALSE] \in PlayerFields
               /\ [f EXCEPT !.move = FALSE, !.queued = FALSE].id = f.id
               /\ [f EXCEPT !.move = FALSE, !.queued = FALSE].wallet = f.wallet
               /\ [f EXCEPT !.move = FALSE, !.queued = FALSE].chunk = f.chunk
               /\ [f EXCEPT !.move = FALSE, !.queued = FALSE].connected = f.connected
    BY DEF PlayerFields
  <2> DEFINE F(p) == IF \E i \in 1 .. Len(pending) : pending[i] = p /\ Sendable(i)
                     THEN [player[p] EXCEPT !.move = FALSE, !.queued = FALSE]
                     ELSE player[p]
  <2>6. player' = [p \in Player |-> F(p)]
    BY <2>1 DEF FieldsAfterFlush
  <2>7. \A p \in Player : F(p) \in PlayerFields \cup {Blank}
    BY <2>2, <2>4, <2>5
  <2>8. \A p \in Player : player[p] \in PlayerFields =>
            /\ F(p) \in PlayerFields
            /\ F(p).id = player[p].id
            /\ F(p).wallet = player[p].wallet
            /\ F(p).chunk = player[p].chunk
            /\ F(p).connected = player[p].connected
    BY <2>5, Zenon
  <2> HIDE DEF F
  <2> QED BY <2>3, <2>4, <2>6, <2>7, <2>8
<1>7. pending' \in Seq(Player)
  BY DEF FlushPendingMoves
<1> QED
  BY <1>5, <1>6, <1>7, QuietStep DEF FlushPendingMoves, IInv, TypeOK

-----------------------------------------------------------------------------
(* Closing *)

(* PerSocketData and the topics of a connection that is gone. *)
LEMMA ForgottenSocket ==
    ASSUME IInv, NEW s \in Socket, ForgetSocket(s)
    PROVE  /\ sockets' \in SUBSET Socket
           /\ session' \in [Socket -> Player \cup {NoPlayer}]
           /\ expired' \in SUBSET Socket
           /\ topics' \in [Socket -> SUBSET Chunk]
           /\ session'[s] = NoPlayer /\ topics'[s] = {}
           /\ sockets' = sockets \ {s}
           /\ \A r \in Socket : r # s => session'[r] = session[r] /\ topics'[r] = topics[r]
BY DEF ForgetSocket, IInv, TypeOK

(* The close handler of a connection without a player. *)
LEMMA CloseWithoutPlayerIInv ==
    ASSUME IInv, NEW s \in Socket, CloseWithoutPlayer(s), stale' \in SUBSET Socket
    PROVE  IInv'
<1>1. /\ session[s] = NoPlayer /\ ForgetSocket(s) /\ out' = <<>>
      /\ UNCHANGED <<players, retired, player, rooms, nextId, pending>>
  BY DEF CloseWithoutPlayer
<1>2. Active' = Active /\ Allocated' = Allocated
  BY <1>1 DEF Active, Allocated
<1>3. TypeOK'
  BY <1>1, <1>2, ForgottenSocket DEF IInv, TypeOK
<1>4. OneSessionPerWallet' /\ PlayerMapConsistent' /\ RoomsHoldActivePlayers'
  BY <1>1, <1>2 DEF IInv, OneSessionPerWallet, PlayerMapConsistent, RoomsHoldActivePlayers
<1>5. session' = session
  BY <1>1 DEF ForgetSocket, IInv, TypeOK
<1>6. SessionOwnership'
  <2>1. \A p \in Allocated : p # NoPlayer
    BY NoPlayerAssumption DEF IInv, TypeOK, Allocated, Active
  <2>2. \A r \in sockets : session[r] # NoPlayer => r \in sockets'
    BY <1>1, ForgottenSocket
  <2> QED BY <1>1, <1>2, <1>5, <2>1, <2>2 DEF IInv, SessionOwnership
<1>7. SubscriptionFollowsRoom'
  <2>1. ASSUME NEW r \in Socket
        PROVE  /\ IsActivePlayer(session[r])' <=> IsActivePlayer(session[r])
               /\ IsActivePlayer(session[r]) => r # s
    BY <1>1, <1>5 DEF IsActivePlayer
  <2> QED BY <1>1, <1>5, <2>1, ForgottenSocket DEF IInv, SubscriptionFollowsRoom
<1> QED BY <1>3, <1>4, <1>6, <1>7 DEF IInv

(* ... of an active player: the object, its id and its seat go together.   *)
LEMMA CloseActiveIInv ==
    ASSUME IInv, NEW s \in Socket, CloseActive(s), stale' \in SUBSET Socket
    PROVE  IInv'
<1> DEFINE p == session[s]
<1>1. /\ IsActivePlayer(p)
      /\ out' = << Message("leave", {player[p].id},
                           Subscribers(Near[player[p].chunk]) \ {s}) >>
      /\ rooms' = RemovePlayerFromRoom(rooms, p)
      /\ players' = [players EXCEPT ![player[p].id] = NoPlayer]
      /\ player' = [player EXCEPT ![p] = Blank]
      /\ ForgetSocket(s)
      /\ UNCHANGED <<retired, nextId, pending>>
  BY DEF CloseActive
<1>2. /\ p \in Active /\ p \in Player /\ p \notin retired /\ p # NoPlayer
      /\ player[p] \in PlayerFields /\ player[p].id \in Id /\ player[p].chunk \in Chunk
      /\ players[player[p].id] = p
      /\ \A r \in Socket : session[r] = p => r = s
  <2>1. p # NoPlayer
    BY <1>1 DEF IsActivePlayer
  <2> QED BY <1>1, <2>1, SessionPlayer, ActivePlayers DEF IInv, PlayerFields
<1> HIDE DEF p
<1>3. \A i \in Id : players'[i] = IF players[i] = p THEN NoPlayer ELSE players[i]
  BY <1>1, <1>2, ActivePlayers DEF IInv, TypeOK
<1>4. Active' = Active \ {p} /\ Allocated' = Allocated \ {p}
  BY <1>1, <1>2, <1>3, NoPlayerAssumption DEF Active, Allocated
<1>5. \A q \in Player : q # p => player'[q] = player[q]
  BY <1>1 DEF IInv, TypeOK
<1>6. /\ Consistent(rooms')
      /\ \A q \in Player : rooms'.room[q] = IF q = p THEN NoRoom ELSE rooms.room[q]
  <2>1. Consistent(rooms) /\ rooms.room[p] # NoRoom
    BY <1>2, RoomsConsistent, NoRoomAssumption DEF IInv
  <2>2. rooms.room \in [Player -> Chunk \cup {NoRoom}]
    BY DEF IInv, TypeOK, RoomTables
  <2>3. Consistent(rooms') /\ rooms'.room = [rooms.room EXCEPT ![p] = NoRoom]
    BY <1>1, <1>2, <2>1, RemoveConsistent
  <2> QED BY <2>2, <2>3
<1>7. TypeOK'
  <2>1. out' \in Seq(Messages)
    <3>1. Subscribers(Near[player[p].chunk]) \in SUBSET Socket
      BY DEF Subscribers, IInv, TypeOK
    <3> QED BY <1>1, <1>2, <3>1 DEF Message, Messages
  <2>2. players' \in [Id -> Player \cup {NoPlayer}]
    BY <1>1 DEF IInv, TypeOK
  <2>3. player' \in [Player -> PlayerFields \cup {Blank}]
    BY <1>1 DEF IInv, TypeOK
  <2>4. \A q \in Allocated' : player'[q] \in PlayerFields
    <3>1. Allocated \subseteq Player
      BY DEF IInv, TypeOK, Allocated, Active
    <3> QED BY <1>4, <1>5, <3>1 DEF IInv, TypeOK
  <2> QED
    BY <1>1, <1>6, <2>1, <2>2, <2>3, <2>4, ForgottenSocket DEF IInv, TypeOK, Consistent
<1>8. OneSessionPerWallet'
  BY <1>4, <1>5, ActivePlayers DEF IInv, OneSessionPerWallet
<1>9. PlayerMapConsistent'
  <2>1. ASSUME NEW i \in Id, players'[i] # NoPlayer
        PROVE  /\ players[i] # NoPlayer
               /\ players'[i] = players[i]
               /\ player'[players[i]] = player[players[i]]
    BY <1>3, <1>5, <2>1 DEF IInv, TypeOK
  <2> QED BY <1>1, <2>1 DEF IInv, PlayerMapConsistent
<1>10. SessionOwnership'
  <2>1. ASSUME NEW r \in Socket, session'[r] # NoPlayer
        PROVE  r # s /\ session'[r] = session[r] /\ session[r] # p
    BY <1>1, <1>2, <2>1, ForgottenSocket
  <2>2. ASSUME NEW q \in Allocated \ {p}
        PROVE  \E r \in sockets' : session'[r] = q
    <3>1. PICK r \in sockets : session[r] = q
      BY DEF IInv, SessionOwnership
    <3>2. r \in Socket /\ r # s
      BY <3>1 DEF IInv, TypeOK, p
    <3> QED BY <1>1, <3>1, <3>2, ForgottenSocket
  <2>3. \A r \in Socket : session'[r] # NoPlayer => r \in sockets'
    BY <1>1, <2>1, ForgottenSocket DEF IInv, SessionOwnership
  <2> QED BY <1>4, <2>1, <2>2, <2>3 DEF IInv, SessionOwnership
<1>11. RoomsHoldActivePlayers'
  <2>1. \A q \in Player : rooms.room[q] = IF q \in Active THEN player[q].chunk ELSE NoRoom
    BY RoomsConsistent DEF IInv
  <2> QED BY <1>4, <1>5, <1>6, <2>1 DEF RoomsHoldActivePlayers, Consistent
<1>12. SubscriptionFollowsRoom'
  <2> SUFFICES ASSUME NEW r \in Socket
               PROVE  /\ session'[r] = NoPlayer => topics'[r] = {}
                      /\ IsActivePlayer(session[r])' => topics'[r] = {rooms'.room[session'[r]]}
    BY DEF SubscriptionFollowsRoom
  <2>1. CASE r = s
    BY <1>1, <2>1, ForgottenSocket DEF IsActivePlayer
  <2>2. CASE r # s
    <3>1. session'[r] = session[r] /\ topics'[r] = topics[r]
      BY <1>1, <2>2, ForgottenSocket
    <3>2. CASE session[r] = NoPlayer
      BY <3>1, <3>2 DEF IInv, SubscriptionFollowsRoom, IsActivePlayer
    <3>3. CASE session[r] # NoPlayer
      <4> DEFINE q == session[r]
      <4>1. q \in Player /\ q # p /\ q \in Allocated /\ player[q].id \in Id
        BY <1>2, <2>2, <3>3, SessionPlayer DEF PlayerFields
      <4>2. IsActivePlayer(session[r])' => IsActivePlayer(q)
        BY <1>3, <1>5, <3>1, <3>3, <4>1 DEF IsActivePlayer
      <4> QED
        BY <1>6, <3>1, <3>3, <4>1, <4>2 DEF IInv, SubscriptionFollowsRoom
    <3> QED BY <3>2, <3>3
  <2> QED BY <2>1, <2>2
<1> QED BY <1>7, <1>8, <1>9, <1>10, <1>11, <1>12 DEF IInv

(* ... of a retired one: only the list that owned the object changes.      *)
LEMMA CloseRetiredIInv ==
    ASSUME IInv, NEW s \in Socket, CloseRetired(s), stale' \in SUBSET Socket
    PROVE  IInv'
<1> DEFINE p == session[s]
<1>1. /\ p # NoPlayer
      /\ ~IsActivePlayer(p)
      /\ retired' = retired \ {p}
      /\ player' = [player EXCEPT ![p] = Blank]
      /\ ForgetSocket(s)
      /\ out' = <<>>
      /\ UNCHANGED <<players, rooms, nextId, pending>>
  BY DEF CloseRetired
<1>2. /\ p \notin Active /\ p \in Player /\ p \in retired
      /\ \A r \in Socket : session[r] = p => r = s
  BY <1>1, SessionPlayer
<1> HIDE DEF p
<1>3. /\ Active' = Active /\ Allocated' = Allocated \ {p}
      /\ Active \subseteq Player
  BY <1>1, <1>2 DEF Active, Allocated
<1>4. \A q \in Player : q # p => player'[q] = player[q]
  BY <1>1 DEF IInv, TypeOK
<1>5. \A i \in Id : players[i] # NoPlayer => players[i] \in Player /\ players[i] # p
  BY <1>2 DEF IInv, TypeOK, Active
<1>6. TypeOK'
  <2>1. player' \in [Player -> PlayerFields \cup {Blank}]
    BY <1>1 DEF IInv, TypeOK
  <2>2. \A q \in Allocated' : player'[q] \in PlayerFields
    <3>1. Allocated \subseteq Player
      BY DEF IInv, TypeOK, Allocated, Active
    <3> QED BY <1>3, <1>4, <3>1 DEF IInv, TypeOK
  <2> QED
    BY <1>1, <2>1, <2>2, ForgottenSocket DEF IInv, TypeOK
<1>7. OneSessionPerWallet'
  BY <1>2, <1>3, <1>4 DEF IInv, OneSessionPerWallet
<1>8. PlayerMapConsistent'
  BY <1>1, <1>4, <1>5 DEF IInv, PlayerMapConsistent
<1>9. SessionOwnership'
  <2>1. ASSUME NEW r \in Socket, session'[r] # NoPlayer
        PROVE  r # s /\ session'[r] = session[r] /\ session[r] # p
    BY <1>1, <1>2, <2>1, ForgottenSocket
  <2>2. ASSUME NEW q \in Allocated \ {p}
        PROVE  \E r \in sockets' : session'[r] = q
    <3>1. PICK r \in sockets : session[r] = q
      BY DEF IInv, SessionOwnership
    <3>2. r \in Socket /\ r # s
      BY <3>1 DEF IInv, TypeOK, p
    <3> QED BY <1>1, <3>1, <3>2, ForgottenSocket
  <2>3. \A r \in Socket : session'[r] # NoPlayer => r \in sockets'
    BY <1>1, <2>1, ForgottenSocket DEF IInv, SessionOwnership
  <2> QED BY <1>3, <2>1, <2>2, <2>3 DEF IInv, SessionOwnership
<1>10. RoomsHoldActivePlayers'
  BY <1>1, <1>2, <1>3, <1>4 DEF IInv, RoomsHoldActivePlayers
<1>11. SubscriptionFollowsRoom'
  <2> SUFFICES ASSUME NEW r \in Socket
               PROVE  /\ session'[r] = NoPlayer => topics'[r] = {}
                      /\ IsActivePlayer(session[r])' => topics'[r] = {rooms'.room[session'[r]]}
    BY DEF SubscriptionFollowsRoom
  <2>1. CASE r = s
    BY <1>1, <2>1, ForgottenSocket DEF IsActivePlayer
  <2>2. CASE r # s
    <3>1. session'[r] = session[r] /\ topics'[r] = topics[r]
      BY <1>1, <2>2, ForgottenSocket
    <3>2. CASE session[r] = NoPlayer
      BY <3>1, <3>2 DEF IInv, SubscriptionFollowsRoom, IsActivePlayer
    <3>3. CASE session[r] # NoPlayer
      <4>1. session[r] \in Player /\ session[r] # p
        BY <1>2, <2>2, <3>3, SessionPlayer
      <4>2. IsActivePlayer(session[r])' <=> IsActivePlayer(session[r])
        BY <1>1, <1>4, <3>1, <4>1 DEF IsActivePlayer
      <4> QED BY <1>1, <3>1, <4>2 DEF IInv, SubscriptionFollowsRoom
    <3> QED BY <3>2, <3>3
  <2> QED BY <2>1, <2>2
<1> QED BY <1>6, <1>7, <1>8, <1>9, <1>10, <1>11 DEF IInv

(* ws->end() preserves the invariant whatever the connection holds. *)
LEMMA EndSocketIInv ==
    ASSUME IInv, NEW s \in Socket, EndSocket(s), stale' \in SUBSET Socket
    PROVE  IInv'
BY CloseWithoutPlayerIInv, CloseActiveIInv, CloseRetiredIInv DEF EndSocket

-----------------------------------------------------------------------------
(* HELLO *)

(* The state that retire_players_with_wallet leaves to handle_hello: the   *)
(* wallet's session, if there is one, has neither an id nor a seat, and    *)
(* its object and all the others are as they were.                         *)
LEMMA Retirement ==
    ASSUME IInv, NEW w \in Wallet
    PROVE  /\ HolderOf(w) \subseteq Active
           /\ PlayersWithout(w) \in [Id -> Player \cup {NoPlayer}]
           /\ \A i \in Id :
                 PlayersWithout(w)[i] = IF players[i] \in HolderOf(w) THEN NoPlayer
                                                                      ELSE players[i]
           /\ FieldsAfterRetiring(w) \in [Player -> PlayerFields \cup {Blank}]
           /\ \A q \in Allocated :
                 /\ FieldsAfterRetiring(w)[q] \in PlayerFields
                 /\ FieldsAfterRetiring(w)[q].id = player[q].id
                 /\ FieldsAfterRetiring(w)[q].wallet = player[q].wallet
                 /\ FieldsAfterRetiring(w)[q].chunk = player[q].chunk
                 /\ q \notin HolderOf(w) => FieldsAfterRetiring(w)[q] = player[q]
           /\ Consistent(RoomsWithout(w))
           /\ \A q \in Player :
                 RoomsWithout(w).room[q] = IF q \in HolderOf(w) THEN NoRoom
                                                                ELSE rooms.room[q]
           /\ RetireLeave(w) \in Seq(Messages)
<1>1. HolderOf(w) \subseteq Active /\ Active \subseteq Player /\ Allocated \subseteq Player
  BY DEF HolderOf, Active, Allocated, IInv, TypeOK
<1>2. /\ PlayersWithout(w) \in [Id -> Player \cup {NoPlayer}]
      /\ \A i \in Id :
            PlayersWithout(w)[i] = IF players[i] \in HolderOf(w) THEN NoPlayer
                                                                 ELSE players[i]
  BY DEF PlayersWithout, IInv, TypeOK
<1>3. \A q \in Allocated : player[q] \in PlayerFields
  BY DEF IInv, TypeOK
<1>4. /\ FieldsAfterRetiring(w) \in [Player -> PlayerFields \cup {Blank}]
      /\ \A q \in Allocated :
            /\ FieldsAfterRetiring(w)[q] \in PlayerFields
            /\ FieldsAfterRetiring(w)[q].id = player[q].id
            /\ FieldsAfterRetiring(w)[q].wallet = player[q].wallet
            /\ FieldsAfterRetiring(w)[q].chunk = player[q].chunk
            /\ q \notin HolderOf(w) => FieldsAfterRetiring(w)[q] = player[q]
  <2>1. ASSUME NEW q \in PlayerFields
        PROVE  LET r == [q EXCEPT !.connected = FALSE]
               IN  r \in PlayerFields /\ r.id = q.id /\ r.wallet = q.wallet /\ r.chunk = q.chunk
    BY DEF PlayerFields
  <2>2. \A q \in HolderOf(w) : player[q] \in PlayerFields
    BY <1>1, <1>3 DEF Allocated
  <2>3. player \in [Player -> PlayerFields \cup {Blank}]
    BY DEF IInv, TypeOK
  <2> QED BY <1>1, <1>3, <2>1, <2>2, <2>3 DEF FieldsAfterRetiring
<1>5. Consistent(rooms) /\ \A q \in Active : rooms.room[q] # NoRoom
  BY <1>1, <1>3, RoomsConsistent, NoRoomAssumption DEF IInv, Allocated, PlayerFields
<1>6. CASE HolderOf(w) = {}
  BY <1>1, <1>2, <1>4, <1>5, <1>6 DEF RoomsWithout, RetireLeave
<1>7. CASE HolderOf(w) # {}
  <2>1. PICK h \in HolderOf(w) : HolderOf(w) = {h}
    BY <1>7, OneHolder
  <2>2. (CHOOSE q \in HolderOf(w) : TRUE) = h
    BY <2>1
  <2>3. RoomsWithout(w) = RemovePlayerFromRoom(rooms, h)
    BY <2>1, <2>2 DEF RoomsWithout
  <2>4. /\ Consistent(RoomsWithout(w))
        /\ RoomsWithout(w).room = [rooms.room EXCEPT ![h] = NoRoom]
    BY <1>1, <1>5, <2>1, <2>3, RemoveConsistent
  <2>5. rooms.room \in [Player -> Chunk \cup {NoRoom}]
    BY DEF IInv, TypeOK, RoomTables
  <2>6. \A q \in Player :
           RoomsWithout(w).room[q] = IF q \in HolderOf(w) THEN NoRoom ELSE rooms.room[q]
    BY <2>1, <2>4, <2>5
  <2>7. RetireLeave(w) \in Seq(Messages)
    <3>1. RetireLeave(w) = << PublishToAoi("leave", h, player[h].chunk) >>
      BY <2>1, <2>2 DEF RetireLeave
    <3>2. player[h].id \in Id /\ player[h].chunk \in Chunk
      BY <1>1, <1>3, <2>1 DEF Allocated, PlayerFields
    <3>3. PublishToAoi("leave", h, player[h].chunk) \in Messages
      BY <3>2 DEF PublishToAoi, Message, Messages, Subscribers, IInv, TypeOK
    <3> QED BY <3>1, <3>3
  <2> QED BY <1>1, <1>2, <1>4, <2>4, <2>6, <2>7
<1> QED BY <1>6, <1>7

(* A refused HELLO: the old session is retired, the connection ended.      *)
LEMMA HelloRejectedIInv ==
    ASSUME IInv, NEW s \in Socket, NEW w \in Wallet, NEW c, HelloRejected(s, w, c)
    PROVE  IInv'
<1> DEFINE H == HolderOf(w)
<1>1. /\ session[s] = NoPlayer
      /\ players' = PlayersWithout(w)
      /\ retired' = retired \cup H
      /\ player' = FieldsAfterRetiring(w)
      /\ rooms' = RoomsWithout(w)
      /\ out' = RetireLeave(w)
      /\ ForgetSocket(s)
      /\ UNCHANGED <<stale, nextId, pending>>
  BY DEF HelloRejected
<1>2. /\ H \subseteq Active /\ Active \subseteq Player /\ Active \subseteq Allocated
      /\ \A i \in Id : players'[i] = IF players[i] \in H THEN NoPlayer ELSE players[i]
  BY <1>1, Retirement DEF Active, Allocated
<1> HIDE DEF H
<1>3. Active' = Active \ H /\ Allocated' = Allocated
  BY <1>1, <1>2, NoPlayerAssumption DEF Active, Allocated
<1>4. \A q \in Allocated :
         /\ player'[q] \in PlayerFields
         /\ player'[q].id = player[q].id
         /\ player'[q].wallet = player[q].wallet
         /\ player'[q].chunk = player[q].chunk
         /\ q \notin H => player'[q] = player[q]
  BY <1>1, Retirement DEF H
<1>5. session' = session
  BY <1>1 DEF ForgetSocket, IInv, TypeOK
<1>6. TypeOK'
  <2>1. /\ players' \in [Id -> Player \cup {NoPlayer}]
        /\ player' \in [Player -> PlayerFields \cup {Blank}]
        /\ rooms' \in RoomTables
        /\ out' \in Seq(Messages)
    BY <1>1, Retirement DEF Consistent
  <2> QED BY <1>1, <1>2, <1>3, <1>4, <2>1, ForgottenSocket DEF IInv, TypeOK
<1>7. OneSessionPerWallet'
  BY <1>2, <1>3, <1>4 DEF IInv, OneSessionPerWallet
<1>8. PlayerMapConsistent'
  <2>1. ASSUME NEW i \in Id, players'[i] # NoPlayer
        PROVE  /\ players[i] # NoPlayer
               /\ players'[i] = players[i]
               /\ players[i] \notin H
               /\ player'[players[i]] = player[players[i]]
    <3>1. players[i] # NoPlayer /\ players'[i] = players[i] /\ players[i] \notin H
      BY <1>2, <2>1
    <3>2. players[i] \in Allocated
      BY <3>1 DEF IInv, TypeOK, Active, Allocated
    <3> QED BY <1>4, <3>1, <3>2
  <2> QED BY <1>1, <2>1 DEF IInv, PlayerMapConsistent
<1>9. SessionOwnership'
  <2>1. \A p \in Allocated : p # NoPlayer
    BY NoPlayerAssumption DEF IInv, TypeOK, Allocated, Active
  <2>2. \A r \in sockets : session[r] # NoPlayer => r \in sockets'
    BY <1>1, ForgottenSocket
  <2> QED BY <1>3, <1>5, <2>1, <2>2 DEF IInv, SessionOwnership
<1>10. RoomsHoldActivePlayers'
  <2>1. /\ Consistent(rooms')
        /\ \A q \in Player : rooms'.room[q] = IF q \in H THEN NoRoom ELSE rooms.room[q]
    BY <1>1, Retirement DEF H
  <2>2. \A q \in Player : rooms.room[q] = IF q \in Active THEN player[q].chunk ELSE NoRoom
    BY RoomsConsistent DEF IInv
  <2> QED BY <1>2, <1>3, <1>4, <2>1, <2>2 DEF RoomsHoldActivePlayers, Consistent
<1>11. SubscriptionFollowsRoom'
  <2> SUFFICES ASSUME NEW r \in Socket
               PROVE  /\ session'[r] = NoPlayer => topics'[r] = {}
                      /\ IsActivePlayer(session[r])' => topics'[r] = {rooms'.room[session'[r]]}
    BY DEF SubscriptionFollowsRoom
  <2>1. CASE session[r] = NoPlayer
    <3>1. topics'[r] = {}
      BY <1>1, <2>1, ForgottenSocket DEF IInv, SubscriptionFollowsRoom
    <3> QED BY <1>5, <2>1, <3>1 DEF IsActivePlayer
  <2>2. CASE session[r] # NoPlayer
    <3> DEFINE q == session[r]
    <3>1. q \in Player /\ q \in Allocated /\ player[q].id \in Id /\ r # s
      BY <1>1, <2>2, SessionPlayer DEF PlayerFields
    <3>2. topics'[r] = topics[r]
      BY <1>1, <3>1, ForgottenSocket
    <3>3. ASSUME IsActivePlayer(session[r])'
          PROVE  IsActivePlayer(q) /\ q \notin H
      BY <1>2, <1>4, <1>5, <2>2, <3>1, <3>3 DEF IsActivePlayer
    <3>4. q \notin H => rooms'.room[q] = rooms.room[q]
      BY <1>1, <3>1, Retirement DEF H
    <3> QED
      BY <1>5, <2>2, <3>1, <3>2, <3>3, <3>4 DEF IInv, SubscriptionFollowsRoom
  <2> QED BY <2>1, <2>2
<1> QED BY <1>6, <1>7, <1>8, <1>9, <1>10, <1>11 DEF IInv

(* Every set of natural numbers that is not empty has a least element.     *)
LEMMA LeastElement ==
    ASSUME NEW S \in SUBSET Nat, S # {}
    PROVE  \E m \in S : \A n \in S : m <= n
<1> DEFINE T == {0 .. m - 1 : m \in S}
<1>1. T # {} /\ T \subseteq FiniteSubsetsOf(Nat)
  <2>1. \A m \in S : (0 .. m-1) \in SUBSET Nat /\ IsFiniteSet(0 .. m-1)
    BY FS_Interval
  <2> QED BY <2>1 DEF FiniteSubsetsOf
<1>2. \E X \in T : \A Y \in T : <<Y, X>> \notin StrictSubsetOrdering(Nat)
  <2> HIDE DEF T
  <2> QED BY <1>1, FS_StrictSubsetOrderingWellFounded, WFMin
<1>3. PICK m \in S : \A Y \in T : <<Y, 0 .. m-1>> \notin StrictSubsetOrdering(Nat)
  BY <1>2
<1>4. ASSUME NEW n \in S, n < m
      PROVE  FALSE
  <2> DEFINE X == 0 .. m-1
             Y == 0 .. n-1
  <2>1. Y \subseteq X /\ n \in X /\ n \notin Y
    BY <1>4
  <2>2. X \in SUBSET Nat /\ Y \in SUBSET Nat
    OBVIOUS
  <2>3. <<Y, X>> \in StrictSubsetOrdering(Nat)
    BY <2>1, <2>2 DEF StrictSubsetOrdering
  <2> QED BY <1>3, <2>3
<1>5. \A n \in S : m <= n
  BY <1>4
<1> QED BY <1>5

(* allocate_player_id returns a free id whenever there is one: its scan    *)
(* starts anywhere, wraps, and stops at the first one.                     *)
LEMMA AllocatedIdIsFree ==
    ASSUME nextId \in Id, NEW used \in SUBSET Id, used # Id
    PROVE  AllocatedId(used) \in Id \ used
<1> DEFINE S == {Distance(nextId, i) : i \in Id \ used}
<1>1. S \in SUBSET Nat /\ S # {}
  <2>1. ASSUME NEW i \in Id
        PROVE  Distance(nextId, i) \in Nat
    BY MaxPlayersAssumption DEF Distance, Id
  <2>2. Id \ used # {}
    OBVIOUS
  <2> QED BY <2>1, <2>2
<1>2. PICK m \in S : \A n \in S : m <= n
  BY <1>1, LeastElement
<1>3. \E i \in Id \ used : \A j \in Id \ used : Distance(nextId, i) <= Distance(nextId, j)
  BY <1>2
<1> QED BY <1>3 DEF AllocatedId

(* players_ holds finitely many players. *)
LEMMA FiniteActive ==
    ASSUME TypeOK
    PROVE  IsFiniteSet(Active)
<1> DEFINE I == {i \in Id : players[i] \in Player}
           f == [i \in I |-> players[i]]
<1>1. IsFiniteSet(Id)
  BY FS_Interval, MaxPlayersAssumption DEF Id
<1>2. IsFiniteSet(I)
  <2>1. I \in SUBSET Id
    OBVIOUS
  <2> HIDE DEF I
  <2> QED BY <1>1, <2>1, FS_Subset
<1>3. f \in Surjection(I, Active)
  <2>1. f \in [I -> Active]
    BY DEF Active
  <2>2. \A p \in Active : \E i \in I : f[i] = p
    BY DEF Active
  <2> QED BY <2>1, <2>2 DEF Surjection
<1> HIDE DEF f, I
<1> QED BY <1>2, <1>3, FS_Surjection

(* can_accept_player leaves an id to give away: fewer players than         *)
(* max_players are active, and ids that only retired players hold are free.*)
LEMMA AnIdIsFree ==
    ASSUME IInv, NEW w \in Wallet, CanAcceptPlayerAfterRetiring(w)
    PROVE  \E i \in Id : PlayersWithout(w)[i] = NoPlayer
<1> DEFINE T == Active \ HolderOf(w)
           f == PlayersWithout(w)
<1>1. IsFiniteSet(T) /\ Cardinality(T) < MaxPlayers
  <2>1. IsFiniteSet(Active) /\ T \in SUBSET Active
    BY FiniteActive DEF IInv
  <2> QED BY <2>1, FS_Subset DEF CanAcceptPlayerAfterRetiring
<1>2. IsFiniteSet(Id) /\ Cardinality(Id) = MaxId
  BY FS_Interval, MaxPlayersAssumption DEF Id
<1>3. SUFFICES ASSUME \A i \in Id : f[i] # NoPlayer
               PROVE  FALSE
  OBVIOUS
<1>4. \A i \in Id : f[i] = players[i] /\ players[i] \in T /\ i = player[players[i]].id
  BY <1>3, Retirement, ActivePlayers DEF IInv
<1>5. f \in Injection(Id, T)
  <2>1. f = [i \in Id |-> f[i]]
    BY DEF PlayersWithout
  <2>2. f \in [Id -> T]
    BY <1>4, <2>1
  <2> QED BY <1>4, <2>2 DEF Injection, IsInjective
<1> HIDE DEF f, T
<1>6. Cardinality(Id) <= Cardinality(T)
  BY <1>1, <1>5, FS_Injection
<1>7. Cardinality(T) \in Nat
  BY <1>1, FS_CardinalityType
<1> QED BY <1>1, <1>2, <1>6, <1>7, MaxPlayersAssumption

(* create_player gives the newcomer an id nobody holds once the old session *)
(* is retired, so everybody else keeps theirs.                              *)
LEMMA AcceptedGetsAnId ==
    ASSUME IInv, NEW s \in Socket, NEW w \in Wallet, NEW c \in Chunk, NEW p \in Player,
           HelloAccepted(s, w, c, p)
    PROVE  LET i == AllocatedId({j \in Id : PlayersWithout(w)[j] # NoPlayer})
           IN  /\ i \in Id
               /\ \A j \in Id : players'[j] = IF j = i THEN p
                                              ELSE IF players[j] \in HolderOf(w) THEN NoPlayer
                                              ELSE players[j]
               /\ Active' = (Active \ HolderOf(w)) \cup {p}
               /\ Allocated' = Allocated \cup {p}
<1> DEFINE H == HolderOf(w)
           i == AllocatedId({j \in Id : PlayersWithout(w)[j] # NoPlayer})
<1>1. /\ CanAcceptPlayerAfterRetiring(w)
      /\ p \notin Allocated
      /\ players' = [PlayersWithout(w) EXCEPT ![i] = p]
      /\ retired' = retired \cup H
  BY DEF HelloAccepted
<1>2. /\ H \subseteq Active /\ Active \subseteq Player /\ Active \subseteq Allocated
      /\ Allocated \subseteq Player /\ p # NoPlayer
  BY NoPlayerAssumption DEF HolderOf, Active, Allocated, IInv, TypeOK
<1>3. i \in Id /\ PlayersWithout(w)[i] = NoPlayer
  <2> DEFINE used == {j \in Id : PlayersWithout(w)[j] # NoPlayer}
  <2>1. used \in SUBSET Id /\ used # Id
    BY <1>1, AnIdIsFree
  <2>2. AllocatedId(used) \in Id \ used
    BY <2>1, AllocatedIdIsFree DEF IInv, TypeOK
  <2> QED BY <2>2
<1> HIDE DEF H, i
<1>4. \A j \in Id : players'[j] = IF j = i THEN p
                                  ELSE IF players[j] \in H THEN NoPlayer
                                  ELSE players[j]
  BY <1>1, <1>3, Retirement DEF H
<1>5. players[i] = NoPlayer \/ players[i] \in H
  BY <1>3, Retirement DEF H
<1>6. Active' = (Active \ H) \cup {p} /\ Allocated' = Allocated \cup {p}
  <2>1. Active' = (Active \ H) \cup {p}
    <3>1. ASSUME NEW q \in Active \ H
          PROVE  \E j \in Id : players'[j] = q
      <4>1. PICK j \in Id : players[j] = q
        BY DEF Active
      <4>2. j # i
        BY <1>2, <1>5, <4>1, NoPlayerAssumption
      <4> QED BY <1>4, <4>1, <4>2
    <3>2. ASSUME NEW j \in Id, players'[j] \in Player, players'[j] # p
          PROVE  players'[j] \in Active \ H
      BY <1>2, <1>4, <3>2, NoPlayerAssumption DEF Active
    <3>3. players'[i] = p
      BY <1>3, <1>4
    <3> QED BY <1>2, <1>3, <3>1, <3>2, <3>3 DEF Active
  <2> QED BY <1>1, <1>2, <2>1 DEF Allocated
<1> QED BY <1>3, <1>4, <1>6 DEF H, i

(* An accepted HELLO: retirement, then a new player under a free id, in    *)
(* its room and on its topic.                                              *)
LEMMA HelloAcceptedIInv ==
    ASSUME IInv, NEW s \in Socket, NEW w \in Wallet, NEW c \in Chunk, NEW p \in Player,
           HelloAccepted(s, w, c, p)
    PROVE  IInv'
<1> DEFINE H == HolderOf(w)
           i == AllocatedId({j \in Id : PlayersWithout(w)[j] # NoPlayer})
<1>1. /\ s \in sockets
      /\ session[s] = NoPlayer
      /\ CanAcceptPlayerAfterRetiring(w)
      /\ p \notin Allocated
      /\ players' = [PlayersWithout(w) EXCEPT ![i] = p]
      /\ retired' = retired \cup H
      /\ player' = [FieldsAfterRetiring(w) EXCEPT ![p] = NewPlayer(i, w, c)]
      /\ rooms' = Seat(RoomsWithout(w), p, c)
      /\ nextId' = NextId(i)
      /\ session' = [session EXCEPT ![s] = p]
      /\ topics' = [topics EXCEPT ![s] = @ \cup {c}]
      /\ expired' = expired \ {s}
      /\ out' = RetireLeave(w) \o << Message("join", Snapshot(rooms', player', c), {s}) >>
      /\ UNCHANGED <<sockets, stale, pending>>
  BY DEF HelloAccepted
<1>2. /\ H \subseteq Active /\ Active \subseteq Player /\ Active \subseteq Allocated
      /\ Allocated \subseteq Player /\ p # NoPlayer
  BY NoPlayerAssumption DEF HolderOf, Active, Allocated, IInv, TypeOK
<1>3. /\ i \in Id
      /\ \A j \in Id : players'[j] = IF j = i THEN p
                                     ELSE IF players[j] \in H THEN NoPlayer
                                     ELSE players[j]
      /\ Active' = (Active \ H) \cup {p}
      /\ Allocated' = Allocated \cup {p}
  BY AcceptedGetsAnId
<1> HIDE DEF H, i
<1>4. \A j \in Id : players'[j] = IF j = i THEN p
                                  ELSE IF players[j] \in H THEN NoPlayer
                                  ELSE players[j]
  BY <1>3
<1>6. Active' = (Active \ H) \cup {p} /\ Allocated' = Allocated \cup {p}
  BY <1>3
<1>7. /\ player'[p] = NewPlayer(i, w, c)
      /\ player'[p] \in PlayerFields
      /\ \A q \in Allocated :
            /\ player'[q] \in PlayerFields
            /\ player'[q].id = player[q].id
            /\ player'[q].wallet = player[q].wallet
            /\ player'[q].chunk = player[q].chunk
            /\ q \notin H => player'[q] = player[q]
  <2>1. player'[p] = NewPlayer(i, w, c) /\ \A q \in Allocated : player'[q] = FieldsAfterRetiring(w)[q]
    BY <1>1, <1>2, Retirement
  <2>2. NewPlayer(i, w, c) \in PlayerFields
    BY <1>3 DEF NewPlayer, PlayerFields
  <2> QED BY <2>1, <2>2, Retirement DEF H
<1>8. /\ Consistent(rooms')
      /\ \A q \in Player : rooms'.room[q] = IF q = p THEN c
                                            ELSE IF q \in H THEN NoRoom
                                            ELSE rooms.room[q]
  <2>1. Consistent(RoomsWithout(w)) /\ RoomsWithout(w) \in RoomTables
    BY Retirement DEF Consistent
  <2>2. \A q \in Player : RoomsWithout(w).room[q] = IF q \in H THEN NoRoom ELSE rooms.room[q]
    BY Retirement DEF H
  <2>3. rooms.room[p] = NoRoom /\ p \notin H
    BY <1>1, <1>2, RoomsConsistent DEF IInv
  <2>4. RoomsWithout(w).room[p] = NoRoom
    BY <2>2, <2>3
  <2> QED BY <1>1, <2>1, <2>2, <2>3, <2>4, SeatConsistent, SeatRoom
<1>9. RoomsHoldActivePlayers'
  <2>1. \A q \in Player : rooms.room[q] = IF q \in Active THEN player[q].chunk ELSE NoRoom
    BY RoomsConsistent DEF IInv
  <2>2. player'[p].chunk = c
    BY <1>7 DEF NewPlayer
  <2>3. \A q \in Player :
           rooms'.room[q] = IF q \in Active' THEN player'[q].chunk ELSE NoRoom
    BY <1>1, <1>2, <1>6, <1>7, <1>8, <2>1, <2>2
  <2> QED BY <1>8, <2>3 DEF RoomsHoldActivePlayers, Consistent
<1>10. TypeOK'
  <2>1. players' \in [Id -> Player \cup {NoPlayer}]
    BY <1>1, Retirement
  <2>2. player' \in [Player -> PlayerFields \cup {Blank}]
    BY <1>1, <1>7, Retirement
  <2>3. nextId' \in Id
    BY <1>1, <1>3, MaxPlayersAssumption DEF NextId, Id
  <2>4. session' \in [Socket -> Player \cup {NoPlayer}]
    BY <1>1 DEF IInv, TypeOK
  <2>5. topics' \in [Socket -> SUBSET Chunk]
    BY <1>1 DEF IInv, TypeOK
  <2>6. out' \in Seq(Messages)
    <3>1. ASSUME NEW d \in Chunk, NEW q \in Occupants(rooms', d)
          PROVE  player'[q].id \in Id
      <4>1. q \in Player /\ rooms'.room[q] = d
        BY <1>8, OccupantsByRoom
      <4>2. q \in Allocated'
        BY <1>9, <4>1, NoRoomAssumption DEF RoomsHoldActivePlayers, Allocated
      <4> QED BY <1>6, <1>7, <4>2 DEF PlayerFields
    <3>2. Near[c] \subseteq Chunk
      BY NearAssumption
    <3>3. Snapshot(rooms', player', c) \in SUBSET Id
      BY <3>1, <3>2 DEF Snapshot
    <3>4. Message("join", Snapshot(rooms', player', c), {s}) \in Messages
      BY <3>3 DEF Message, Messages
    <3>5. RetireLeave(w) \in Seq(Messages)
      BY Retirement
    <3> QED BY <1>1, <3>4, <3>5
  <2>7. \A q \in Allocated' : player'[q] \in PlayerFields
    BY <1>6, <1>7
  <2>8. /\ sockets' \in SUBSET Socket /\ expired' \in SUBSET Socket
        /\ stale' \in SUBSET Socket /\ retired' \in SUBSET Player
        /\ rooms' \in RoomTables /\ pending' \in Seq(Player)
    BY <1>1, <1>2, <1>8 DEF IInv, TypeOK, Consistent
  <2> QED BY <2>1, <2>2, <2>3, <2>4, <2>5, <2>6, <2>7, <2>8 DEF TypeOK
<1>11. OneSessionPerWallet'
  <2>1. player'[p].wallet = w
    BY <1>7 DEF NewPlayer
  <2>2. \A q \in Active \ H : player'[q].wallet = player[q].wallet /\ player[q].wallet # w
    BY <1>2, <1>7 DEF H, HolderOf
  <2> QED BY <1>6, <2>1, <2>2 DEF IInv, OneSessionPerWallet
<1>12. PlayerMapConsistent'
  <2> SUFFICES ASSUME NEW j \in Id, players'[j] # NoPlayer
               PROVE  /\ player'[players'[j]].id = j
                      /\ player'[players'[j]].connected
                      /\ players'[j] \notin retired'
    BY DEF PlayerMapConsistent
  <2>1. CASE j = i
    <3>1. players'[j] = p /\ player'[p].id = j /\ player'[p].connected
      BY <1>4, <1>7, <2>1 DEF NewPlayer
    <3>2. p \notin retired'
      BY <1>1, <1>2 DEF Allocated
    <3> QED BY <3>1, <3>2
  <2>2. CASE j # i
    <3>1. players'[j] = players[j] /\ players[j] \notin H /\ players[j] # NoPlayer
      BY <1>4, <2>2
    <3>2. players[j] \in Allocated
      BY <3>1 DEF IInv, TypeOK, Active, Allocated
    <3>3. player'[players[j]] = player[players[j]]
      BY <1>7, <3>1, <3>2
    <3> QED BY <1>1, <3>1, <3>3 DEF IInv, PlayerMapConsistent
  <2> QED BY <2>1, <2>2
<1>13. SessionOwnership'
  <2>1. \A r \in Socket : session'[r] = IF r = s THEN p ELSE session[r]
    BY <1>1 DEF IInv, TypeOK
  <2>2. \A r \in Socket : session[r] # NoPlayer => session[r] \in Allocated /\ session[r] # p
    BY <1>1 DEF IInv, SessionOwnership
  <2>3. ASSUME NEW q \in Allocated
        PROVE  \E r \in sockets : session'[r] = q
    <3>1. PICK r \in sockets : session[r] = q
      BY DEF IInv, SessionOwnership
    <3>2. r \in Socket /\ r # s
      BY <1>1, <1>2, <3>1, NoPlayerAssumption DEF IInv, TypeOK
    <3> QED BY <2>1, <3>1, <3>2
  <2>4. s \in sockets /\ session'[s] = p
    BY <1>1, <2>1
  <2>5. \A r \in Socket : session'[r] # NoPlayer =>
           /\ r \in sockets'
           /\ session'[r] \in Allocated'
           /\ \A r2 \in Socket : session'[r2] = session'[r] => r2 = r
    BY <1>1, <1>6, <2>1, <2>2 DEF IInv, SessionOwnership
  <2> QED BY <1>1, <1>6, <2>3, <2>4, <2>5 DEF SessionOwnership
<1>14. SubscriptionFollowsRoom'
  <2> SUFFICES ASSUME NEW r \in Socket
               PROVE  /\ session'[r] = NoPlayer => topics'[r] = {}
                      /\ IsActivePlayer(session[r])' => topics'[r] = {rooms'.room[session'[r]]}
    BY DEF SubscriptionFollowsRoom
  <2>1. CASE r = s
    <3>1. topics'[r] = {c} /\ session'[r] = p
      BY <1>1, <2>1 DEF IInv, SubscriptionFollowsRoom, TypeOK
    <3> QED BY <1>2, <1>8, <3>1
  <2>2. CASE r # s
    <3>1. session'[r] = session[r] /\ topics'[r] = topics[r]
      BY <1>1, <2>2 DEF IInv, TypeOK
    <3>2. CASE session[r] = NoPlayer
      BY <3>1, <3>2 DEF IInv, SubscriptionFollowsRoom, IsActivePlayer
    <3>3. CASE session[r] # NoPlayer
      <4> DEFINE q == session[r]
      <4>1. q \in Player /\ q \in Allocated /\ player[q].id \in Id /\ q # p
        BY <1>1, <3>3, SessionPlayer DEF PlayerFields
      <4>2. ASSUME IsActivePlayer(session[r])'
            PROVE  IsActivePlayer(q) /\ q \notin H
        BY <1>4, <1>7, <3>1, <3>3, <4>1, <4>2 DEF IsActivePlayer
      <4>3. q \notin H => rooms'.room[q] = rooms.room[q]
        BY <1>8, <4>1
      <4> QED
        BY <3>1, <3>3, <4>1, <4>2, <4>3 DEF IInv, SubscriptionFollowsRoom
    <3> QED BY <3>2, <3>3
  <2> QED BY <2>1, <2>2
<1> QED BY <1>9, <1>10, <1>11, <1>12, <1>13, <1>14 DEF IInv

-----------------------------------------------------------------------------
(* MOVE *)

(* An accepted MOVE: the player's chunk, its seat and the topic of its     *)
(* connection change together, and those of nobody else.                   *)
LEMMA MoveIInv ==
    ASSUME IInv, NEW s \in Socket, NEW c \in Chunk, Move(s, c)
    PROVE  IInv'
<1> DEFINE p == session[s]
           changed == c # player[p].chunk
           first == ~player[p].pose
<1>1. /\ IsActivePlayer(p)
      /\ topics' = TopicsAfterMove(s, p, c)
      /\ rooms' = IF changed THEN Seat(RemovePlayerFromRoom(rooms, p), p, c) ELSE rooms
      /\ player' = [player EXCEPT ![p] = [@ EXCEPT !.chunk = c, !.pose = TRUE,
                                                   !.move = TRUE, !.queued = TRUE]]
      /\ pending' = IF player[p].queued THEN pending ELSE Append(pending, p)
      /\ expired' = expired \ {s}
      /\ out' = (IF changed /\ ~first
                 THEN << PublishFrom(s, "leave", p, player[p].chunk) >>
                 ELSE <<>>)
                \o
                (IF changed \/ first
                 THEN << PublishFrom(s, "join", p, c) >>
                 ELSE <<>>)
      /\ UNCHANGED <<sockets, session, stale, players, retired, nextId>>
  BY DEF Move
<1>2. /\ p \in Active /\ p \in Player /\ p \in Allocated /\ p # NoPlayer
      /\ player[p] \in PlayerFields /\ player[p].id \in Id /\ player[p].chunk \in Chunk
      /\ \A r \in Socket : session[r] = p => r = s
      /\ rooms.room[p] = player[p].chunk
  <2>1. p # NoPlayer
    BY <1>1 DEF IsActivePlayer
  <2> QED BY <1>1, <2>1, SessionPlayer, RoomsConsistent DEF IInv, PlayerFields
<1>3. /\ player'[p] \in PlayerFields
      /\ player'[p].chunk = c
      /\ player'[p].id = player[p].id
      /\ player'[p].wallet = player[p].wallet
      /\ player'[p].connected = player[p].connected
      /\ \A q \in Player : q # p => player'[q] = player[q]
  <2>1. player'[p] = [player[p] EXCEPT !.chunk = c, !.pose = TRUE, !.move = TRUE, !.queued = TRUE]
    BY <1>1, <1>2 DEF IInv, TypeOK
  <2>2. \A q \in Player : q # p => player'[q] = player[q]
    BY <1>1 DEF IInv, TypeOK
  <2> QED BY <1>2, <2>1, <2>2 DEF PlayerFields
<1> HIDE DEF p
<1>4. Active' = Active /\ Allocated' = Allocated /\ Allocated \subseteq Player /\ Active \subseteq Allocated
  BY <1>1 DEF Active, Allocated, IInv, TypeOK
<1>5. /\ Consistent(rooms')
      /\ \A q \in Player : rooms'.room[q] = IF q = p THEN c ELSE rooms.room[q]
  <2>1. Consistent(rooms) /\ rooms.room[p] # NoRoom
    BY <1>2, RoomsConsistent, NoRoomAssumption DEF IInv
  <2>2. rooms.room \in [Player -> Chunk \cup {NoRoom}]
    BY DEF IInv, TypeOK, RoomTables
  <2>3. CASE changed
    <3> DEFINE t == RemovePlayerFromRoom(rooms, p)
    <3>1. Consistent(t) /\ t \in RoomTables /\ t.room = [rooms.room EXCEPT ![p] = NoRoom]
      BY <1>2, <2>1, RemoveConsistent DEF Consistent
    <3>2. /\ t.room[p] = NoRoom
          /\ \A q \in Player : q # p => t.room[q] = rooms.room[q]
      BY <1>2, <2>2, <3>1
    <3>3. rooms' = Seat(t, p, c)
      BY <1>1, <2>3
    <3> HIDE DEF t
    <3>4. Consistent(rooms')
      BY <1>2, <3>1, <3>2, <3>3, SeatConsistent
    <3>5. \A q \in Player : Seat(t, p, c).room[q] = IF q = p THEN c ELSE t.room[q]
      <4>1. t \in RoomTables /\ p \in Player
        BY <1>2, <3>1
      <4> QED BY <4>1, SeatRoom
    <3> QED BY <3>2, <3>3, <3>4, <3>5
  <2>4. CASE ~changed
    BY <1>1, <1>2, <2>1, <2>4
  <2> QED BY <2>3, <2>4
<1>6. RoomsHoldActivePlayers'
  <2>1. \A q \in Player : rooms.room[q] = IF q \in Active THEN player[q].chunk ELSE NoRoom
    BY RoomsConsistent DEF IInv
  <2> QED BY <1>2, <1>3, <1>4, <1>5, <2>1 DEF RoomsHoldActivePlayers, Consistent
<1>7. \A r \in Socket : topics'[r] = IF r = s THEN {c} ELSE topics[r]
  <2>1. topics[s] = {rooms.room[p]}
    BY <1>1 DEF IInv, SubscriptionFollowsRoom, p
  <2>2. topics \in [Socket -> SUBSET Chunk]
    BY DEF IInv, TypeOK
  <2> QED BY <1>1, <1>2, <2>1, <2>2 DEF TopicsAfterMove
<1>8. TypeOK'
  <2>1. player' \in [Player -> PlayerFields \cup {Blank}]
    <3>1. player' = [q \in Player |-> player'[q]]
      BY <1>1 DEF IInv, TypeOK
    <3>2. \A q \in Player : player'[q] \in PlayerFields \cup {Blank}
      BY <1>3 DEF IInv, TypeOK
    <3> QED BY <3>1, <3>2
  <2>2. \A q \in Allocated' : player'[q] \in PlayerFields
    BY <1>3, <1>4 DEF IInv, TypeOK
  <2>3. pending' \in Seq(Player)
    BY <1>1, <1>2 DEF IInv, TypeOK
  <2>4. topics' \in [Socket -> SUBSET Chunk]
    BY <1>1 DEF TopicsAfterMove, IInv, TypeOK
  <2>5. out' \in Seq(Messages)
    <3>1. \A d \in Chunk : /\ PublishFrom(s, "leave", p, d) \in Messages
                           /\ PublishFrom(s, "join", p, d) \in Messages
      BY <1>2 DEF PublishFrom, Message, Messages, Subscribers, IInv, TypeOK
    <3>2. /\ PublishFrom(s, "leave", p, player[p].chunk) \in Messages
          /\ PublishFrom(s, "join", p, c) \in Messages
      BY <1>2, <3>1
    <3> QED BY <1>1, <3>2
  <2> QED BY <1>1, <1>5, <2>1, <2>2, <2>3, <2>4, <2>5 DEF IInv, TypeOK, Consistent
<1>9. OneSessionPerWallet'
  BY <1>3, <1>4 DEF IInv, OneSessionPerWallet
<1>10. PlayerMapConsistent'
  <2>1. \A j \in Id : players[j] # NoPlayer => players[j] \in Player
    BY DEF IInv, TypeOK
  <2> QED BY <1>1, <1>3, <2>1 DEF IInv, PlayerMapConsistent
<1>11. SessionOwnership'
  BY <1>1, <1>4 DEF IInv, SessionOwnership
<1>12. SubscriptionFollowsRoom'
  <2> SUFFICES ASSUME NEW r \in Socket
               PROVE  /\ session[r] = NoPlayer => topics'[r] = {}
                      /\ IsActivePlayer(session[r])' => topics'[r] = {rooms'.room[session[r]]}
    BY <1>1 DEF SubscriptionFollowsRoom
  <2>1. CASE r = s
    BY <1>2, <1>5, <1>7, <2>1 DEF p
  <2>2. CASE r # s
    <3>1. CASE session[r] = NoPlayer
      BY <1>1, <1>7, <2>2, <3>1 DEF IInv, SubscriptionFollowsRoom, IsActivePlayer
    <3>2. CASE session[r] # NoPlayer
      <4>1. session[r] \in Player /\ session[r] # p
        BY <1>2, <2>2, <3>2, SessionPlayer
      <4>2. IsActivePlayer(session[r])' <=> IsActivePlayer(session[r])
        BY <1>1, <1>3, <4>1 DEF IsActivePlayer
      <4> QED
        BY <1>5, <1>7, <2>2, <3>2, <4>1, <4>2 DEF IInv, SubscriptionFollowsRoom
    <3> QED BY <3>1, <3>2
  <2> QED BY <2>1, <2>2
<1> QED BY <1>6, <1>8, <1>9, <1>10, <1>11, <1>12 DEF IInv

-----------------------------------------------------------------------------
(* Every step *)

(* Every callback of the loop preserves the invariant. *)
LEMMA NextIInv == IInv /\ [Next]_vars => IInv'
<1> SUFFICES ASSUME IInv, [Next]_vars PROVE IInv'
  OBVIOUS
<1>1. CASE UNCHANGED vars
  BY <1>1, QuietStep DEF vars, IInv, TypeOK
<1>2. ASSUME NEW s \in Socket, Frame(s)
      PROVE  IInv'
  <2>1. CASE Open(s)
    BY <2>1, OpenIInv
  <2>2. CASE Disconnect(s)
    BY <2>2, EndSocketIInv DEF Disconnect, IInv, TypeOK
  <2>3. CASE HelloAgain(s)
    BY <2>3, EndSocketIInv DEF HelloAgain, IInv, TypeOK
  <2>4. CASE \E w \in Wallet, c \in Chunk \cup {OutOfRange} : HelloRejected(s, w, c)
    BY <2>4, HelloRejectedIInv
  <2>5. CASE \E w \in Wallet, c \in Chunk, p \in Player : HelloAccepted(s, w, c, p)
    BY <2>5, HelloAcceptedIInv
  <2>6. CASE NotHello(s)
    BY <2>6, EndSocketIInv DEF NotHello, IInv, TypeOK
  <2>7. CASE KeepAlive(s)
    BY <2>7, KeepAliveIInv
  <2>8. CASE MoveOutOfRange(s)
    BY <2>8, EndSocketIInv DEF MoveOutOfRange, IInv, TypeOK
  <2>9. CASE \E c \in Chunk : Move(s, c)
    BY <2>9, MoveIInv
  <2>10. CASE Elapse(s)
    BY <2>10, ElapseIInv
  <2> QED
    BY <1>2, <2>1, <2>2, <2>3, <2>4, <2>5, <2>6, <2>7, <2>8, <2>9, <2>10 DEF Frame
<1>3. CASE FlushPendingMoves
  BY <1>3, FlushIInv
<1>4. CASE ReapStaleSockets
  BY <1>4, ReapIInv
<1>5. ASSUME NEW s \in Socket, EndStaleSocket(s)
      PROVE  IInv'
  BY <1>5, EndSocketIInv DEF EndStaleSocket, IInv, TypeOK
<1> QED BY <1>1, <1>2, <1>3, <1>4, <1>5 DEF Next

(* The invariant holds throughout every run of the server. *)
LEMMA AlwaysIInv == Spec => []IInv
BY InitIInv, NextIInv, PTL DEF Spec

-----------------------------------------------------------------------------
(* What the server keeps true *)

(* The state of the session core is well typed, whatever the clients send  *)
(* and in whatever order: ids stay in range and no owned object is blank.  *)
THEOREM TypeCorrect == Spec => []TypeOK
<1>1. IInv => TypeOK
  BY DEF IInv
<1> QED BY <1>1, AlwaysIInv, PTL

(* However many connections say HELLO with one wallet, it has at most one  *)
(* active session (retire_players_with_wallet before create_player).       *)
THEOREM AlwaysOneSessionPerWallet == Spec => []OneSessionPerWallet
<1>1. IInv => OneSessionPerWallet
  BY DEF IInv
<1> QED BY <1>1, AlwaysIInv, PTL

(* An id in players_ is the id of its player, although ids of retired      *)
(* players are given out again while those objects live.                   *)
THEOREM AlwaysPlayerMapConsistent == Spec => []PlayerMapConsistent
<1>1. IInv => PlayerMapConsistent
  BY DEF IInv
<1> QED BY <1>1, AlwaysIInv, PTL

(* No close leaks a Player object, and no connection points to a deleted   *)
(* one or shares one (handle_hello, the close handler, the sweep).         *)
THEOREM AlwaysOwned == Spec => []SessionOwnership
<1>1. IInv => SessionOwnership
  BY DEF IInv
<1> QED BY <1>1, AlwaysIInv, PTL

(* The rooms hold exactly the active players, each in its current chunk.   *)
THEOREM RoomsAlwaysHoldActivePlayers == Spec => []RoomsHoldActivePlayers
<1>1. IInv => RoomsHoldActivePlayers
  BY DEF IInv
<1> QED BY <1>1, AlwaysIInv, PTL

(* An active session is subscribed to the topic of its room and to no      *)
(* other, so a broadcast never reaches a client through a chunk it left.   *)
THEOREM SubscriptionAlwaysFollowsRoom == Spec => []SubscriptionFollowsRoom
<1>1. IInv => SubscriptionFollowsRoom
  BY DEF IInv
<1> QED BY <1>1, AlwaysIInv, PTL

-----------------------------------------------------------------------------
(* Capacity *)

(* A step that gives no id to a player cannot exceed max_players.          *)
LEMMA NobodyArrives ==
    ASSUME TypeOK, WithinMaxPlayers,
           \A i \in Id : players'[i] = players[i] \/ players'[i] = NoPlayer
    PROVE  WithinMaxPlayers'
<1>1. Active' \in SUBSET Active
  BY NoPlayerAssumption DEF Active
<1>2. IsFiniteSet(Active)
  BY FiniteActive
<1>3. IsFiniteSet(Active') /\ Cardinality(Active') <= Cardinality(Active)
  BY <1>1, <1>2, FS_Subset
<1>4. Cardinality(Active) \in Nat /\ Cardinality(Active') \in Nat
  BY <1>2, <1>3, FS_CardinalityType
<1> QED BY <1>3, <1>4, MaxPlayersAssumption DEF WithinMaxPlayers

(* Closing a connection gives no id away. *)
LEMMA EndSocketTakesIdsOnly ==
    ASSUME IInv, NEW s \in Socket, EndSocket(s)
    PROVE  \A i \in Id : players'[i] = players[i] \/ players'[i] = NoPlayer
BY DEF EndSocket, CloseWithoutPlayer, CloseActive, CloseRetired, IInv, TypeOK

(* can_accept_player is asked after the old session is retired and before  *)
(* the new one is created; that one test keeps the bound.                  *)
LEMMA AcceptedWithinMaxPlayers ==
    ASSUME IInv, NEW s \in Socket, NEW w \in Wallet, NEW c \in Chunk, NEW p \in Player,
           HelloAccepted(s, w, c, p)
    PROVE  WithinMaxPlayers'
<1> DEFINE T == Active \ HolderOf(w)
           i == AllocatedId({j \in Id : PlayersWithout(w)[j] # NoPlayer})
<1>1. players' = [PlayersWithout(w) EXCEPT ![i] = p]
  BY DEF HelloAccepted
<1>2. IsFiniteSet(T) /\ Cardinality(T) \in Nat /\ Cardinality(T) < MaxPlayers
  <2>1. IsFiniteSet(Active) /\ T \in SUBSET Active
    BY FiniteActive DEF IInv
  <2>2. IsFiniteSet(T) /\ Cardinality(T) < MaxPlayers
    BY <2>1, FS_Subset DEF HelloAccepted, CanAcceptPlayerAfterRetiring
  <2> QED BY <2>2, FS_CardinalityType
<1>3. Active' \in SUBSET (T \cup {p})
  <2>1. \A j \in Id : PlayersWithout(w)[j] \in Player => PlayersWithout(w)[j] \in T
    BY Retirement, NoPlayerAssumption DEF Active
  <2>2. \A j \in Id : players'[j] = p \/ players'[j] = PlayersWithout(w)[j]
    BY <1>1, Retirement
  <2> QED BY <2>1, <2>2 DEF Active
<1> HIDE DEF T, i
<1>4. /\ IsFiniteSet(T \cup {p})
      /\ Cardinality(T \cup {p}) \in Nat
      /\ Cardinality(T \cup {p}) <= Cardinality(T) + 1
  <2>1. /\ IsFiniteSet(T \cup {p})
        /\ Cardinality(T \cup {p}) = IF p \in T THEN Cardinality(T) ELSE Cardinality(T) + 1
    BY <1>2, FS_AddElement
  <2> QED BY <1>2, <2>1
<1>5. IsFiniteSet(Active') /\ Cardinality(Active') <= Cardinality(T \cup {p})
  BY <1>3, <1>4, FS_Subset
<1>6. Cardinality(Active') \in Nat
  BY <1>5, FS_CardinalityType
<1> QED BY <1>2, <1>4, <1>5, <1>6, MaxPlayersAssumption DEF WithinMaxPlayers

(* At most max_players players are active, retirement and id reuse         *)
(* included (can_accept_player, create_player).                            *)
THEOREM AlwaysWithinMaxPlayers == Spec => []WithinMaxPlayers
<1>1. Init => WithinMaxPlayers
  <2> SUFFICES ASSUME Init PROVE WithinMaxPlayers
    OBVIOUS
  <2>1. Active = {}
    BY NoPlayerAssumption DEF Init, Active
  <2> QED BY <2>1, FS_EmptySet, MaxPlayersAssumption DEF WithinMaxPlayers
<1>2. IInv /\ WithinMaxPlayers /\ [Next]_vars => WithinMaxPlayers'
  <2> SUFFICES ASSUME IInv, WithinMaxPlayers, [Next]_vars PROVE WithinMaxPlayers'
    OBVIOUS
  <2>1. TypeOK
    BY DEF IInv
  <2>2. CASE UNCHANGED vars \/ FlushPendingMoves \/ ReapStaleSockets
    BY <2>1, <2>2, NobodyArrives DEF vars, FlushPendingMoves, ReapStaleSockets
  <2>3. ASSUME NEW s \in Socket, EndSocket(s)
        PROVE  WithinMaxPlayers'
    BY <2>1, <2>3, NobodyArrives, EndSocketTakesIdsOnly
  <2>4. ASSUME NEW s \in Socket,
               Open(s) \/ KeepAlive(s) \/ Elapse(s) \/ \E c \in Chunk : Move(s, c)
        PROVE  WithinMaxPlayers'
    BY <2>1, <2>4, NobodyArrives DEF Open, KeepAlive, Elapse, Move
  <2>5. ASSUME NEW s \in Socket, NEW w \in Wallet, NEW c, HelloRejected(s, w, c)
        PROVE  WithinMaxPlayers'
    BY <2>1, <2>5, NobodyArrives, Retirement DEF HelloRejected
  <2>6. ASSUME NEW s \in Socket, NEW w \in Wallet, NEW c \in Chunk, NEW p \in Player,
               HelloAccepted(s, w, c, p)
        PROVE  WithinMaxPlayers'
    BY <2>6, AcceptedWithinMaxPlayers
  <2> QED
    BY <2>2, <2>3, <2>4, <2>5, <2>6
       DEF Next, Frame, Disconnect, HelloAgain, NotHello, MoveOutOfRange, EndStaleSocket
<1> QED BY <1>1, <1>2, AlwaysIInv, PTL DEF Spec

-----------------------------------------------------------------------------
(* Retired connections *)

(* The close handler of a retired player's connection takes the branch     *)
(* that touches neither players_ nor rooms_: is_active_player compares     *)
(* addresses, and the address is not in players_ any more.                 *)
LEMMA EndingRetired ==
    ASSUME IInv, NEW s \in Socket, EndSocket(s), session[s] \in retired
    PROVE  UNCHANGED <<players, rooms>>
<1>1. session[s] # NoPlayer
  BY NoPlayerAssumption DEF IInv, TypeOK
<1>2. ~IsActivePlayer(session[s])
  BY <1>1, SessionPlayer, ActivePlayers DEF IInv
<1> QED BY <1>1, <1>2 DEF EndSocket, CloseWithoutPlayer, CloseActive, CloseRetired

(* A connection closes only in a step that ends it. *)
LEMMA OnlyEndingCloses ==
    ASSUME IInv, NEW r \in Socket, NEW s \in sockets, s \notin sockets',
           ForgetSocket(r)
    PROVE  s = r
BY DEF ForgetSocket

(* Closing the connection of a retired player never disturbs a player of   *)
(* players_ or its seat, even one that holds the same id by now.           *)
THEOREM RetiredCloseAlwaysHarmless == Spec => RetiredCloseIsHarmless
<1>1. IInv /\ [Next]_vars =>
         \A s \in sockets :
            session[s] \in retired /\ s \notin sockets' => UNCHANGED <<players, rooms>>
  <2> SUFFICES ASSUME IInv, [Next]_vars,
                      NEW s \in sockets, session[s] \in retired, s \notin sockets'
               PROVE  UNCHANGED <<players, rooms>>
    OBVIOUS
  <2>1. s \in Socket /\ session[s] # NoPlayer
    BY NoPlayerAssumption DEF IInv, TypeOK
  <2>2. ASSUME NEW r \in Socket, EndSocket(r)
        PROVE  UNCHANGED <<players, rooms>>
    <3>1. s = r
      BY <2>2, OnlyEndingCloses DEF EndSocket, CloseWithoutPlayer, CloseActive, CloseRetired
    <3> QED BY <2>2, <3>1, EndingRetired
  <2>3. ASSUME NEW r \in Socket, NEW w, NEW c, HelloRejected(r, w, c)
        PROVE  FALSE
    BY <2>1, <2>3, OnlyEndingCloses DEF HelloRejected
  <2>4. ASSUME NEW r \in Socket,
               \/ UNCHANGED vars
               \/ Open(r) \/ KeepAlive(r) \/ Elapse(r)
               \/ \E c \in Chunk : Move(r, c)
               \/ \E w \in Wallet, c \in Chunk, p \in Player : HelloAccepted(r, w, c, p)
               \/ FlushPendingMoves
               \/ ReapStaleSockets
        PROVE  FALSE
    BY <2>4 DEF vars, Open, KeepAlive, Elapse, Move, HelloAccepted, FlushPendingMoves,
                ReapStaleSockets
  <2> QED
    BY <2>1, <2>2, <2>3, <2>4
       DEF Next, Frame, Disconnect, HelloAgain, NotHello, MoveOutOfRange, EndStaleSocket
<1> QED BY <1>1, AlwaysIInv, PTL DEF Spec, RetiredCloseIsHarmless

-----------------------------------------------------------------------------
(* The queue of moves *)

(* has_pending_move and queued_pending_move are set and cleared together,   *)
(* and a player that carries them has an entry.  That the flags agree is    *)
(* what the flush needs: it passes over an entry without has_pending_move   *)
(* and would leave its player flagged as queued for ever.                   *)
QueueIsKept ==
    \A p \in Active :
        /\ player[p].queued <=> player[p].move
        /\ player[p].queued => \E i \in 1 .. Len(pending) : pending[i] = p

(* A step that adds no player, takes no entry away and touches no flag.     *)
LEMMA QueueUntouched ==
    ASSUME QueueIsKept,
           Active' \subseteq Active,
           \A p \in Active' : /\ player'[p].queued = player[p].queued
                              /\ player'[p].move = player[p].move,
           UNCHANGED pending
    PROVE  QueueIsKept'
BY DEF QueueIsKept

(* An end of a connection blanks an object that is not active afterwards.   *)
LEMMA EndSocketKeepsQueue ==
    ASSUME IInv, QueueIsKept, NEW s \in Socket, EndSocket(s)
    PROVE  QueueIsKept'
<1>1. player \in [Player -> PlayerFields \cup {Blank}] /\ TypeOK /\ PlayerMapConsistent
  BY DEF IInv, TypeOK
<1>2. Active' \subseteq Active
  BY EndSocketTakesIdsOnly, NoPlayerAssumption DEF Active
<1>3. CASE CloseWithoutPlayer(s)
  BY <1>2, <1>3, QueueUntouched DEF CloseWithoutPlayer
<1> DEFINE p == session[s]
<1>4. ASSUME p \notin Active', player' = [player EXCEPT ![p] = Blank], UNCHANGED pending
      PROVE  QueueIsKept'
  <2>1. Active' \subseteq Player
    BY <1>2, ActivePlayers, <1>1
  <2>2. \A q \in Active' : player'[q] = player[q]
    BY <1>1, <1>4, <2>1
  <2> QED BY <1>2, <1>4, <2>2, QueueUntouched
<1>5. CASE CloseActive(s)
  <2>1. p # NoPlayer /\ IsActivePlayer(p)
    BY <1>5 DEF CloseActive, IsActivePlayer
  <2>2. p \in Active /\ player[p].id \in Id
    BY <2>1, SessionPlayer, ActivePlayers, <1>1
  <2>3. players' = [players EXCEPT ![player[p].id] = NoPlayer]
    BY <1>5 DEF CloseActive
  <2>4. \A i \in Id : players[i] = p => i = player[p].id
    BY <1>1, <2>1, ActivePlayers
  <2>5. p \notin Active'
    BY <1>1, <2>1, <2>2, <2>3, <2>4 DEF Active, TypeOK
  <2> QED BY <1>4, <1>5, <2>5 DEF CloseActive
<1>6. CASE CloseRetired(s)
  <2>1. p # NoPlayer /\ ~IsActivePlayer(p) /\ UNCHANGED players
    BY <1>6 DEF CloseRetired
  <2>2. p \notin Active'
    BY <1>2, <2>1, SessionPlayer
  <2> QED BY <1>4, <1>6, <2>2 DEF CloseRetired
<1> QED BY <1>3, <1>5, <1>6 DEF EndSocket

(* Retirement leaves the flags of those who stay alone. *)
LEMMA HelloRejectedKeepsQueue ==
    ASSUME IInv, QueueIsKept, NEW s \in Socket, NEW w \in Wallet, NEW c,
           HelloRejected(s, w, c)
    PROVE  QueueIsKept'
<1>1. players' = PlayersWithout(w) /\ player' = FieldsAfterRetiring(w) /\ UNCHANGED pending
  BY DEF HelloRejected
<1>2. Active' \subseteq Active \ HolderOf(w)
  BY <1>1, Retirement, NoPlayerAssumption DEF Active
<1>3. \A q \in Active' : player'[q] = player[q]
  BY <1>1, <1>2, Retirement DEF Allocated
<1> QED BY <1>1, <1>2, <1>3, QueueUntouched

(* A new object starts with neither flag, even at the address of one that   *)
(* still has an entry.                                                      *)
LEMMA HelloAcceptedKeepsQueue ==
    ASSUME IInv, QueueIsKept, NEW s \in Socket, NEW w \in Wallet, NEW c \in Chunk,
           NEW p \in Player, HelloAccepted(s, w, c, p)
    PROVE  QueueIsKept'
<1> DEFINE i == AllocatedId({j \in Id : PlayersWithout(w)[j] # NoPlayer})
<1>1. /\ players' = [PlayersWithout(w) EXCEPT ![i] = p]
      /\ player' = [FieldsAfterRetiring(w) EXCEPT ![p] = NewPlayer(i, w, c)]
      /\ UNCHANGED pending
      /\ p \notin Allocated
  BY DEF HelloAccepted
<1>2. Active' \subseteq (Active \ HolderOf(w)) \cup {p}
  BY AcceptedGetsAnId
<1>3. player'[p].move = FALSE /\ player'[p].queued = FALSE
  BY <1>1, Retirement DEF NewPlayer
<1>4. \A q \in Active' : q # p => q \in Active /\ player'[q] = player[q]
  <2>1. \A q \in Active \ HolderOf(w) : q \in Player /\ FieldsAfterRetiring(w)[q] = player[q]
    BY Retirement DEF Allocated, Active
  <2> QED BY <1>1, <1>2, <2>1, Retirement
<1> QED BY <1>1, <1>3, <1>4 DEF QueueIsKept

(* A MOVE sets both flags, and adds an entry for a player without one.      *)
LEMMA MoveKeepsQueue ==
    ASSUME IInv, QueueIsKept, NEW s \in Socket, NEW c \in Chunk, Move(s, c)
    PROVE  QueueIsKept'
<1> DEFINE p == session[s]
<1>1. /\ player' = [player EXCEPT ![p] = [@ EXCEPT !.chunk = c, !.pose = TRUE,
                                                   !.move = TRUE, !.queued = TRUE]]
      /\ pending' = IF player[p].queued THEN pending ELSE Append(pending, p)
      /\ Active' = Active
      /\ p # NoPlayer /\ IsActivePlayer(p)
  BY DEF Move, Active, IsActivePlayer
<1>2. p \in Active /\ p \in Player /\ player[p] \in PlayerFields
  BY <1>1, SessionPlayer
<1>3. pending \in Seq(Player) /\ player \in [Player -> PlayerFields \cup {Blank}]
      /\ Active \subseteq Player
  BY DEF IInv, TypeOK, Active
<1>4. player'[p].move = TRUE /\ player'[p].queued = TRUE
  BY <1>1, <1>2, <1>3 DEF PlayerFields
<1>5. \A q \in Active : q # p => player'[q] = player[q]
  BY <1>1, <1>3
<1>6. \A i \in 1 .. Len(pending) : i \in 1 .. Len(pending') /\ pending'[i] = pending[i]
  BY <1>1, <1>2, <1>3
<1>7. \E i \in 1 .. Len(pending') : pending'[i] = p
  <2>1. CASE player[p].queued
    BY <1>1, <1>2, <2>1 DEF QueueIsKept
  <2>2. CASE ~player[p].queued
    <3>1. pending' = Append(pending, p)
      BY <1>1, <2>2
    <3>2. Len(pending) + 1 \in 1 .. Len(pending') /\ pending'[Len(pending) + 1] = p
      BY <1>2, <1>3, <3>1
    <3> QED BY <3>2
  <2> QED BY <2>1, <2>2
<1> HIDE DEF p
<1>8. ASSUME NEW q \in Active
      PROVE  /\ player'[q].queued <=> player'[q].move
             /\ player'[q].queued => \E i \in 1 .. Len(pending') : pending'[i] = q
  <2>1. CASE q = p
    BY <1>4, <1>7, <2>1
  <2>2. CASE q # p
    <3>1. player'[q] = player[q]
      BY <1>5, <2>2
    <3>2. player'[q].queued => \E i \in 1 .. Len(pending) : pending[i] = q
      BY <3>1 DEF QueueIsKept
    <3>3. player'[q].queued <=> player'[q].move
      BY <3>1 DEF QueueIsKept
    <3> QED BY <1>6, <3>2, <3>3
  <2> QED BY <2>1, <2>2
<1> QED BY <1>1, <1>8 DEF QueueIsKept

(* The flush reaches the first entry of every player with the flags, and    *)
(* clears both.                                                             *)
LEMMA FlushKeepsQueue ==
    ASSUME IInv, QueueIsKept, FlushPendingMoves
    PROVE  QueueIsKept'
<1> DEFINE Sent(p) == \E i \in 1 .. Len(pending) : pending[i] = p /\ Sendable(i)
           F(p) == IF Sent(p)
                   THEN [player[p] EXCEPT !.move = FALSE, !.queued = FALSE]
                   ELSE player[p]
<1>0. player' = FieldsAfterFlush
  BY DEF FlushPendingMoves
<1>1. player' = [p \in Player |-> F(p)]
  BY <1>0 DEF FieldsAfterFlush
<1>5. Active' = Active
  BY DEF FlushPendingMoves, Active
<1>6. ASSUME NEW f \in PlayerFields
      PROVE  /\ [f EXCEPT !.move = FALSE, !.queued = FALSE].move = FALSE
             /\ [f EXCEPT !.move = FALSE, !.queued = FALSE].queued = FALSE
  BY DEF PlayerFields
<1>4. /\ \A p \in Player : ~Sent(p) => F(p) = player[p]
      /\ \A p \in Player :
            Sent(p) /\ player[p] \in PlayerFields => ~F(p).move /\ ~F(p).queued
  BY <1>6, Zenon
<1> HIDE DEF F
<1>2. /\ pending \in Seq(Player) /\ Active \subseteq Player
      /\ \A q \in Active : player[q] \in PlayerFields /\ player[q].connected
  <2>1. \A q \in Active : \E i \in Id : players[i] = q /\ q # NoPlayer
    BY NoPlayerAssumption DEF Active
  <2>2. \A q \in Active : player[q].connected
    BY <2>1 DEF IInv, PlayerMapConsistent
  <2> QED BY <2>2, ActivePlayers DEF IInv, TypeOK
<1>3. ASSUME NEW p \in Active
      PROVE  ~player'[p].queued /\ ~player'[p].move
  <2>1. player[p] \in PlayerFields /\ p \in Player /\ p \in Allocated
    BY <1>2 DEF Allocated
  <2>2. CASE player[p].move
    <3> DEFINE S == {i \in 1 .. Len(pending) : pending[i] = p}
    <3>1. S # {}
      BY <2>2 DEF QueueIsKept
    <3>2. S \in SUBSET Nat
      OBVIOUS
    <3>3. PICK m \in S : \A n \in S : m <= n
      BY <3>1, <3>2, LeastElement
    <3>4. m \in 1 .. Len(pending) /\ pending[m] = p /\ Len(pending) \in Nat
      BY <1>2, <3>3
    <3>5. FirstEntry(m)
      <4>1. ASSUME NEW j \in 1 .. m - 1 PROVE pending[j] # pending[m]
        <5>1. j \in 1 .. Len(pending) /\ ~(m <= j)
          BY <3>4
        <5> QED BY <3>3, <3>4, <5>1
      <4> QED BY <4>1 DEF FirstEntry
    <3>6. Sendable(m)
      BY <1>2, <2>1, <2>2, <3>4, <3>5 DEF Sendable
    <3>7. ~player'[p].move /\ ~player'[p].queued
      <4>1. Sent(p)
        BY <3>4, <3>6
      <4> HIDE DEF Sent
      <4>2. player'[p] = F(p) /\ ~F(p).move /\ ~F(p).queued
        BY <1>1, <1>4, <2>1, <4>1
      <4> QED BY <4>2
    <3> QED BY <3>7
  <2>3. CASE ~player[p].move
    <3>1. \A i \in 1 .. Len(pending) : pending[i] = p => ~Sendable(i)
      BY <2>3 DEF Sendable
    <3>2. player'[p] = player[p]
      <4>1. ~Sent(p)
        BY <3>1
      <4> HIDE DEF Sent
      <4>2. player'[p] = F(p) /\ F(p) = player[p]
        BY <1>1, <1>4, <2>1, <4>1
      <4> QED BY <4>2
    <3>3. player[p].queued <=> player[p].move
      BY DEF QueueIsKept
    <3> QED BY <2>3, <3>2, <3>3
  <2> QED BY <2>2, <2>3
<1> QED BY <1>3, <1>5 DEF QueueIsKept

(* No MOVE is swallowed for want of an entry, whatever is flushed, retired, *)
(* released and allocated again at an address that is still queued          *)
(* (update_player_move, flush_pending_moves).                               *)
THEOREM WaitingMoveAlwaysQueued == Spec => []WaitingMoveIsQueued
<1>1. Init => QueueIsKept
  <2> SUFFICES ASSUME Init PROVE QueueIsKept
    OBVIOUS
  <2>1. Active = {}
    BY NoPlayerAssumption DEF Init, Active
  <2> QED BY <2>1 DEF QueueIsKept
<1>2. IInv /\ QueueIsKept /\ [Next]_vars => QueueIsKept'
  <2> SUFFICES ASSUME IInv, QueueIsKept, [Next]_vars PROVE QueueIsKept'
    OBVIOUS
  <2>1. ASSUME NEW s \in Socket, EndSocket(s)
        PROVE  QueueIsKept'
    BY <2>1, EndSocketKeepsQueue
  <2>2. ASSUME UNCHANGED <<players, player, pending>> PROVE QueueIsKept'
    BY <2>2, QueueUntouched DEF Active
  <2>3. CASE UNCHANGED vars \/ ReapStaleSockets
    BY <2>2, <2>3 DEF vars, ReapStaleSockets
  <2>4. ASSUME NEW s \in Socket, Open(s) \/ KeepAlive(s) \/ Elapse(s)
        PROVE  QueueIsKept'
    BY <2>2, <2>4 DEF Open, KeepAlive, Elapse
  <2>5. ASSUME NEW s \in Socket, NEW w \in Wallet, NEW c, HelloRejected(s, w, c)
        PROVE  QueueIsKept'
    BY <2>5, HelloRejectedKeepsQueue
  <2>6. ASSUME NEW s \in Socket, NEW w \in Wallet, NEW c \in Chunk, NEW p \in Player,
               HelloAccepted(s, w, c, p)
        PROVE  QueueIsKept'
    BY <2>6, HelloAcceptedKeepsQueue
  <2>7. ASSUME NEW s \in Socket, NEW c \in Chunk, Move(s, c)
        PROVE  QueueIsKept'
    BY <2>7, MoveKeepsQueue
  <2>8. CASE FlushPendingMoves
    BY <2>8, FlushKeepsQueue
  <2> QED
    BY <2>1, <2>3, <2>4, <2>5, <2>6, <2>7, <2>8
       DEF Next, Frame, Disconnect, HelloAgain, NotHello, MoveOutOfRange, EndStaleSocket
<1>3. QueueIsKept => WaitingMoveIsQueued
  BY DEF QueueIsKept, WaitingMoveIsQueued
<1> QED BY <1>1, <1>2, <1>3, AlwaysIInv, PTL DEF Spec

-----------------------------------------------------------------------------
(* The directory of wallets *)

(* The refinement mapping of Directory: the chunk a wallet is present in.   *)
Seats(w) == {c \in Chunk : \E p \in Occupants(rooms, c) : player[p].wallet = w}

Where ==
    [w \in Wallet |->
        LET seats == {c \in Chunk : \E p \in Occupants(rooms, c) : player[p].wallet = w}
        IN  IF seats = {} THEN NoRoom ELSE CHOOSE c \in seats : TRUE]

(* A wallet is where its one active player is, and offline without one.     *)
DirectoryIsExact ==
    /\ Where = [w \in Wallet |-> Where[w]]
    /\ \A w \in Wallet : HolderOf(w) = {} => Where[w] = NoRoom
    /\ \A p \in Active : /\ player[p].wallet \in Wallet
                         /\ player[p].chunk \in Chunk
                         /\ Where[player[p].wallet] = player[p].chunk

(* The rooms and the sessions agree on who is where. *)
LEMMA ExactDirectory == IInv => DirectoryIsExact
<1> SUFFICES ASSUME IInv PROVE DirectoryIsExact
  OBVIOUS
<1>1. /\ Consistent(rooms)
      /\ \A p \in Player :
            rooms.room[p] = IF p \in Active THEN player[p].chunk ELSE NoRoom
  BY RoomsConsistent DEF IInv
<1>2. \A p \in Active : p \in Player /\ player[p].wallet \in Wallet /\ player[p].chunk \in Chunk
  BY ActivePlayers DEF IInv, PlayerFields
<1>3. \A c \in Chunk : Occupants(rooms, c) = {p \in Active : player[p].chunk = c}
  BY <1>1, <1>2, OccupantsByRoom, NoRoomAssumption
<1>4. \A w \in Wallet : Seats(w) = {c \in Chunk : \E p \in HolderOf(w) : player[p].chunk = c}
  BY <1>3 DEF Seats, HolderOf
<1>5. \A w \in Wallet : Where[w] = IF Seats(w) = {} THEN NoRoom ELSE CHOOSE c \in Seats(w) : TRUE
  BY DEF Where, Seats
<1>6. \A w \in Wallet : HolderOf(w) = {} => Where[w] = NoRoom
  BY <1>4, <1>5
<1>7. ASSUME NEW p \in Active
      PROVE  Where[player[p].wallet] = player[p].chunk
  <2> DEFINE w == player[p].wallet
  <2>1. HolderOf(w) = {p}
    BY <1>2, OneHolder DEF HolderOf
  <2>2. Seats(w) = {player[p].chunk}
    BY <1>2, <1>4, <2>1
  <2>3. (CHOOSE c \in {player[p].chunk} : TRUE) = player[p].chunk
    OBVIOUS
  <2> HIDE DEF w
  <2>4. Where[w] = player[p].chunk
    BY <1>2, <1>5, <2>2, <2>3 DEF w
  <2> QED BY <2>4 DEF w
<1>8. Where = [w \in Wallet |-> Where[w]]
  <2> DEFINE F(w) == LET seats == {c \in Chunk : \E p \in Occupants(rooms, c) :
                                                    player[p].wallet = w}
                     IN  IF seats = {} THEN NoRoom ELSE CHOOSE c \in seats : TRUE
  <2>1. Where = [w \in Wallet |-> F(w)]
    BY DEF Where
  <2> HIDE DEF F
  <2> QED BY <2>1
<1> QED BY <1>2, <1>6, <1>7, <1>8 DEF DirectoryIsExact

(* No more wallets are present than there are active players. *)
PresentWallets == {w \in Wallet : Where[w] # NoRoom}

PresenceIsBounded ==
    IsFiniteSet(PresentWallets) /\ Cardinality(PresentWallets) <= MaxPlayers

LEMMA BoundedPresence == IInv /\ WithinMaxPlayers => PresenceIsBounded
<1> SUFFICES ASSUME IInv, WithinMaxPlayers PROVE PresenceIsBounded
  OBVIOUS
<1> DEFINE f == [p \in Active |-> player[p].wallet]
<1>1. DirectoryIsExact /\ TypeOK
  BY ExactDirectory DEF IInv
<1>2. IsFiniteSet(Active) /\ Cardinality(Active) <= MaxPlayers
  BY <1>1, FiniteActive DEF WithinMaxPlayers
<1>3. \A p \in Active : player[p].wallet \in PresentWallets
  BY <1>1, NoRoomAssumption DEF DirectoryIsExact, PresentWallets
<1>4. ASSUME NEW w \in PresentWallets
      PROVE  \E p \in Active : player[p].wallet = w
  BY <1>1, <1>4 DEF DirectoryIsExact, PresentWallets, HolderOf
<1>5. f \in Surjection(Active, PresentWallets)
  BY <1>3, <1>4 DEF Surjection
<1>6. IsFiniteSet(PresentWallets) /\ Cardinality(PresentWallets) <= Cardinality(Active)
  BY <1>2, <1>5, FS_Surjection
<1>7. Cardinality(Active) \in Nat /\ Cardinality(PresentWallets) \in Nat
  BY <1>2, <1>6, FS_CardinalityType
<1> QED BY <1>2, <1>6, <1>7, MaxPlayersAssumption DEF PresenceIsBounded

(* Nothing happens to a wallet: its session, if it has one, is the one it   *)
(* had, in the same chunk.                                                  *)
Undisturbed(w) ==
    /\ HolderOf(w)' = HolderOf(w)
    /\ \A p \in HolderOf(w) : player'[p].chunk = player[p].chunk

(* A wallet nothing happens to stays where it is. *)
LEMMA UndisturbedStays ==
    ASSUME DirectoryIsExact, DirectoryIsExact', NEW w \in Wallet, Undisturbed(w)
    PROVE  Where'[w] = Where[w]
<1>1. CASE HolderOf(w) = {}
  BY <1>1 DEF DirectoryIsExact, Undisturbed
<1>2. CASE HolderOf(w) # {}
  <2>1. PICK p : p \in HolderOf(w)
    BY <1>2
  <2>2. p \in HolderOf(w)'
    BY <2>1 DEF Undisturbed
  <2>3. p \in Active /\ player[p].wallet = w /\ p \in Active' /\ player'[p].wallet = w
    BY <2>1, <2>2 DEF HolderOf
  <2>4. player'[p].chunk = player[p].chunk
    BY <2>1 DEF Undisturbed
  <2> QED BY <2>3, <2>4 DEF DirectoryIsExact
<1> QED BY <1>1, <1>2

(* The instance brings a copy of the operator along. *)
LEMMA SameCardinality == \A S : Directory!Cardinality(S) = Cardinality(S)
BY Zenon DEF Cardinality, IsFiniteSet, Directory!Cardinality, Directory!IsFiniteSet

(* A step that disturbs no wallet but one is an arrival or a departure of   *)
(* that one in the directory.                                               *)
LEMMA OneWalletMoves ==
    ASSUME DirectoryIsExact, DirectoryIsExact', PresenceIsBounded',
           NEW v \in Wallet, \A w \in Wallet \ {v} : Undisturbed(w)
    PROVE  Directory!Next
<1>1. Where' = [Where EXCEPT ![v] = Where'[v]]
  <2>1. \A w \in Wallet \ {v} : Where'[w] = Where[w]
    BY UndisturbedStays
  <2> QED BY <2>1 DEF DirectoryIsExact
<1>2. Where'[v] \in Chunk \cup {NoRoom}
  <2>1. CASE HolderOf(v)' = {}
    BY <2>1 DEF DirectoryIsExact
  <2>2. CASE HolderOf(v)' # {}
    <3>1. PICK p : p \in HolderOf(v)'
      BY <2>2
    <3> QED BY <3>1 DEF HolderOf, DirectoryIsExact
  <2> QED BY <2>1, <2>2
<1>3. CASE Where'[v] = NoRoom
  <2>1. Where' = [Where EXCEPT ![v] = NoRoom]
    BY <1>1, <1>3
  <2> QED BY <2>1 DEF Where, Directory!Next, Directory!Depart
<1>4. CASE Where'[v] # NoRoom
  <2>1. PICK c \in Chunk : c = Where'[v]
    BY <1>2, <1>4
  <2>2. PresentWallets \ {v} = PresentWallets' \ {v}
    BY UndisturbedStays DEF PresentWallets
  <2>3. v \in PresentWallets'
    BY <1>4 DEF PresentWallets
  <2>4. Cardinality(PresentWallets' \ {v}) = Cardinality(PresentWallets') - 1
    BY <2>3, FS_RemoveElement DEF PresenceIsBounded
  <2>5. Cardinality(PresentWallets') \in Nat
    BY FS_CardinalityType DEF PresenceIsBounded
  <2>6. Cardinality(PresentWallets \ {v}) < MaxPlayers
    BY <2>2, <2>4, <2>5, MaxPlayersAssumption DEF PresenceIsBounded
  <2>7. Where' = [Where EXCEPT ![v] = c]
    BY <1>1, <2>1
  <2>8. Directory!Cardinality(Directory!Present \ {v}) < MaxPlayers
    BY <2>6, SameCardinality DEF Where, PresentWallets, Directory!Present
  <2>9. Directory!Arrive(v, c)
    BY <2>7, <2>8 DEF Where, Directory!Arrive
  <2> QED BY <2>9 DEF Directory!Next
<1> QED BY <1>3, <1>4

(* What a step does to players_ and to the wallets and chunks of the        *)
(* players that stay tells which wallets it disturbs.                       *)
LEMMA OnlyOneDisturbed ==
    ASSUME NEW v,
           \A p \in Active : player[p].wallet # v =>
              p \in Active' /\ player'[p].wallet = player[p].wallet
                            /\ player'[p].chunk = player[p].chunk,
           \A p \in Active' : player'[p].wallet # v =>
              p \in Active /\ player'[p].wallet = player[p].wallet
    PROVE  \A w \in Wallet \ {v} : Undisturbed(w)
BY DEF Undisturbed, HolderOf

(* A connection that ends takes at most its own player along. *)
LEMMA EndSocketDisturbsOne ==
    ASSUME IInv, NEW s \in Socket, EndSocket(s)
    PROVE  \/ \A w \in Wallet : Undisturbed(w)
           \/ \E v \in Wallet : \A w \in Wallet \ {v} : Undisturbed(w)
<1> DEFINE p == session[s]
<1>1. /\ player \in [Player -> PlayerFields \cup {Blank}]
      /\ Active \subseteq Player
      /\ TypeOK /\ PlayerMapConsistent
  BY DEF IInv, TypeOK, Active
<1>2. CASE CloseWithoutPlayer(s)
  BY <1>2 DEF CloseWithoutPlayer, Undisturbed, HolderOf, Active
<1>3. CASE CloseActive(s)
  <2>1. p # NoPlayer /\ IsActivePlayer(p)
    BY <1>3 DEF CloseActive, IsActivePlayer
  <2>2. p \in Active /\ player[p].id \in Id /\ player[p].wallet \in Wallet
    BY <1>1, <2>1, SessionPlayer, ActivePlayers DEF PlayerFields
  <2>3. /\ players' = [players EXCEPT ![player[p].id] = NoPlayer]
        /\ player' = [player EXCEPT ![p] = Blank]
    BY <1>3 DEF CloseActive
  <2>4. \A j \in Id : players[j] = p => j = player[p].id
    BY <1>1, <2>1, ActivePlayers
  <2>5. Active' = Active \ {p}
    BY <1>1, <2>1, <2>2, <2>3, <2>4, NoPlayerAssumption, ActivePlayers DEF Active, TypeOK
  <2>6. \A q \in Active \ {p} : player'[q] = player[q]
    BY <1>1, <2>3
  <2> HIDE DEF p
  <2>7. \A w \in Wallet \ {player[p].wallet} : Undisturbed(w)
    BY <2>5, <2>6 DEF Undisturbed, HolderOf
  <2> QED BY <2>2, <2>7
<1>4. CASE CloseRetired(s)
  <2>1. p # NoPlayer /\ ~IsActivePlayer(p) /\ UNCHANGED players
    BY <1>4 DEF CloseRetired
  <2>2. p \notin Active /\ Active' = Active
    BY <2>1, SessionPlayer DEF Active
  <2>3. \A q \in Active : player'[q] = player[q]
    BY <1>1, <1>4, <2>2 DEF CloseRetired
  <2> QED BY <2>2, <2>3 DEF Undisturbed, HolderOf
<1> QED BY <1>2, <1>3, <1>4 DEF EndSocket

(* A HELLO that is refused takes away the old session of its own wallet. *)
LEMMA HelloRejectedDisturbsOne ==
    ASSUME IInv, NEW s \in Socket, NEW v \in Wallet, NEW c, HelloRejected(s, v, c)
    PROVE  \A w \in Wallet \ {v} : Undisturbed(w)
<1>1. players' = PlayersWithout(v) /\ player' = FieldsAfterRetiring(v)
  BY DEF HelloRejected
<1>2. Active' = Active \ HolderOf(v)
  <2>1. \A j \in Id : players'[j] = IF players[j] \in HolderOf(v) THEN NoPlayer ELSE players[j]
    BY <1>1, Retirement
  <2> QED BY <2>1, NoPlayerAssumption DEF Active
<1>3. \A q \in Active \ HolderOf(v) : player'[q] = player[q]
  BY <1>1, Retirement DEF Allocated
<1> QED BY <1>2, <1>3 DEF Undisturbed, HolderOf

(* A HELLO that is accepted replaces the session of its own wallet. *)
LEMMA HelloAcceptedDisturbsOne ==
    ASSUME IInv, NEW s \in Socket, NEW v \in Wallet, NEW c \in Chunk, NEW p \in Player,
           HelloAccepted(s, v, c, p)
    PROVE  \A w \in Wallet \ {v} : Undisturbed(w)
<1> DEFINE i == AllocatedId({j \in Id : PlayersWithout(v)[j] # NoPlayer})
<1>1. /\ player' = [FieldsAfterRetiring(v) EXCEPT ![p] = NewPlayer(i, v, c)]
      /\ p \notin Allocated
  BY DEF HelloAccepted
<1>2. Active' = (Active \ HolderOf(v)) \cup {p}
  BY AcceptedGetsAnId
<1>3. player'[p].wallet = v
  BY <1>1, Retirement DEF NewPlayer
<1>4. \A q \in Active \ HolderOf(v) : q # p /\ player'[q] = player[q]
  <2>1. \A q \in Active : q \in Allocated /\ q \in Player
    BY DEF Allocated, Active
  <2> QED BY <1>1, <2>1, Retirement
<1> QED BY <1>2, <1>3, <1>4 DEF Undisturbed, HolderOf

(* A MOVE concerns the wallet of the session that sent it. *)
LEMMA MoveDisturbsOne ==
    ASSUME IInv, NEW s \in Socket, NEW c \in Chunk, Move(s, c)
    PROVE  \E v \in Wallet : \A w \in Wallet \ {v} : Undisturbed(w)
<1> DEFINE p == session[s]
<1>1. /\ player' = [player EXCEPT ![p] = [@ EXCEPT !.chunk = c, !.pose = TRUE,
                                                   !.move = TRUE, !.queued = TRUE]]
      /\ Active' = Active
      /\ p # NoPlayer /\ IsActivePlayer(p)
  BY DEF Move, Active, IsActivePlayer
<1>2. p \in Active /\ p \in Player /\ player[p] \in PlayerFields
  BY <1>1, SessionPlayer
<1>3. player \in [Player -> PlayerFields \cup {Blank}] /\ Active \subseteq Player
  BY DEF IInv, TypeOK, Active
<1>4. player[p].wallet \in Wallet /\ player'[p].wallet = player[p].wallet
  BY <1>1, <1>2, <1>3 DEF PlayerFields
<1>5. \A q \in Active \ {p} : player'[q] = player[q]
  BY <1>1, <1>3
<1> HIDE DEF p
<1>6. \A w \in Wallet \ {player[p].wallet} : Undisturbed(w)
  BY <1>1, <1>4, <1>5 DEF Undisturbed, HolderOf
<1> QED BY <1>4, <1>6

(* The flush clears flags and nothing else of a player. *)
LEMMA FlushKeepsFields ==
    ASSUME IInv, FlushPendingMoves, NEW p \in Player, player[p] \in PlayerFields
    PROVE  /\ player'[p].id = player[p].id
           /\ player'[p].wallet = player[p].wallet
           /\ player'[p].chunk = player[p].chunk
           /\ player'[p].pose = player[p].pose
           /\ player'[p].connected = player[p].connected
           /\ player'[p].move \in {player[p].move, FALSE}
<1> DEFINE Sent(q) == \E i \in 1 .. Len(pending) : pending[i] = q /\ Sendable(i)
           F(q) == IF Sent(q)
                   THEN [player[q] EXCEPT !.move = FALSE, !.queued = FALSE]
                   ELSE player[q]
           Same(f, g) == /\ f.id = g.id
                         /\ f.wallet = g.wallet
                         /\ f.chunk = g.chunk
                         /\ f.pose = g.pose
                         /\ f.connected = g.connected
                         /\ f.move \in {g.move, FALSE}
<1>1. player' = FieldsAfterFlush
  BY DEF FlushPendingMoves
<1>2. player' = [q \in Player |-> F(q)]
  BY <1>1 DEF FieldsAfterFlush
<1>3. ASSUME NEW f \in PlayerFields
      PROVE  Same([f EXCEPT !.move = FALSE, !.queued = FALSE], f) /\ Same(f, f)
  BY DEF PlayerFields
<1> HIDE DEF Same
<1>4. Same(F(p), player[p])
  BY <1>3, Zenon
<1> HIDE DEF F
<1>5. Same(player'[p], player[p])
  BY <1>2, <1>4
<1> QED BY <1>5 DEF Same

(* ... which no directory knows. *)
LEMMA FlushDisturbsNobody ==
    ASSUME IInv, FlushPendingMoves
    PROVE  \A w \in Wallet : Undisturbed(w)
<1>1. Active' = Active
  BY DEF FlushPendingMoves, Active
<1>2. \A p \in Active : p \in Player /\ player[p] \in PlayerFields
  BY ActivePlayers DEF IInv
<1>3. \A p \in Active : /\ player'[p].wallet = player[p].wallet
                        /\ player'[p].chunk = player[p].chunk
  BY <1>2, FlushKeepsFields
<1> QED BY <1>1, <1>3 DEF Undisturbed, HolderOf

(* Every callback disturbs at most one wallet. *)
LEMMA StepDisturbsOne ==
    ASSUME IInv, [Next]_vars
    PROVE  \/ \A w \in Wallet : Undisturbed(w)
           \/ \E v \in Wallet : \A w \in Wallet \ {v} : Undisturbed(w)
<1>1. ASSUME UNCHANGED <<players, player>>
      PROVE  \A w \in Wallet : Undisturbed(w)
  BY <1>1 DEF Undisturbed, HolderOf, Active
<1>2. CASE UNCHANGED vars \/ ReapStaleSockets
  BY <1>1, <1>2 DEF vars, ReapStaleSockets
<1>3. ASSUME NEW s \in Socket, Open(s) \/ KeepAlive(s) \/ Elapse(s)
      PROVE  \A w \in Wallet : Undisturbed(w)
  BY <1>1, <1>3 DEF Open, KeepAlive, Elapse
<1>4. CASE FlushPendingMoves
  BY <1>4, FlushDisturbsNobody
<1>5. CASE \E s \in Socket : EndSocket(s)
  BY <1>5, EndSocketDisturbsOne
<1>6. ASSUME NEW s \in Socket, NEW v \in Wallet, NEW c, HelloRejected(s, v, c)
      PROVE  \A w \in Wallet \ {v} : Undisturbed(w)
  BY <1>6, HelloRejectedDisturbsOne
<1>7. ASSUME NEW s \in Socket, NEW v \in Wallet, NEW c \in Chunk, NEW p \in Player,
             HelloAccepted(s, v, c, p)
      PROVE  \A w \in Wallet \ {v} : Undisturbed(w)
  BY <1>7, HelloAcceptedDisturbsOne
<1>8. CASE \E s \in Socket, c \in Chunk : Move(s, c)
  BY <1>8, MoveDisturbsOne
<1> QED
  BY <1>2, <1>3, <1>4, <1>5, <1>6, <1>7, <1>8
     DEF Next, Frame, Disconnect, HelloAgain, NotHello, MoveOutOfRange, EndStaleSocket

(* A server that has just started has every wallet offline. *)
LEMMA InitIsOffline == Init => Directory!Init
<1> SUFFICES ASSUME Init PROVE Directory!Init
  OBVIOUS
<1>1. Active = {}
  BY NoPlayerAssumption DEF Init, Active
<1>2. DirectoryIsExact
  BY ExactDirectory, InitIInv
<1>3. \A w \in Wallet : Where[w] = NoRoom
  BY <1>1, <1>2 DEF DirectoryIsExact, HolderOf
<1>4. Where = [w \in Wallet |-> NoRoom]
  BY <1>2, <1>3 DEF DirectoryIsExact
<1> QED BY <1>4 DEF Where, Directory!Init

(* The books of sockets, ids, objects and rooms are a directory of wallets, *)
(* and each HELLO, MOVE and close is a step of one wallet in it             *)
(* (handle_hello, handle_move, the close handler, reap_stale_sockets).      *)
THEOREM SessionsImplementDirectory == Spec => ImplementsDirectory
<1>1. ASSUME IInv, DirectoryIsExact, DirectoryIsExact', PresenceIsBounded', [Next]_vars
      PROVE  Directory!Next \/ UNCHANGED Where
  <2>1. CASE \A w \in Wallet : Undisturbed(w)
    <3>1. \A w \in Wallet : Where'[w] = Where[w]
      BY <1>1, <2>1, UndisturbedStays
    <3> QED BY <1>1, <3>1 DEF DirectoryIsExact
  <2>2. CASE \E v \in Wallet : \A w \in Wallet \ {v} : Undisturbed(w)
    BY <1>1, <2>2, OneWalletMoves
  <2> QED BY <1>1, <2>1, <2>2, StepDisturbsOne
<1>2. IInv /\ DirectoryIsExact /\ DirectoryIsExact' /\ PresenceIsBounded' /\ [Next]_vars
         => [Directory!Next]_Where
  BY <1>1
<1>3. Spec => [][Directory!Next]_Where
  BY <1>2, ExactDirectory, BoundedPresence, AlwaysIInv, AlwaysWithinMaxPlayers, PTL DEF Spec
<1>4. Spec => Directory!Init /\ [][Directory!Next]_Where
  BY <1>3, InitIsOffline, PTL DEF Spec
<1> QED BY <1>4, PTL DEF ImplementsDirectory, Directory!Spec, Where

-----------------------------------------------------------------------------
(* Presence: who is around a connection *)

(* The ids around a connection, read off players_.                          *)
IsAround(i, s) ==
    /\ players[i] # NoPlayer
    /\ players[i] # session[s]
    /\ player[players[i]].pose
    /\ player[players[i]].chunk \in Near[player[session[s]].chunk]

Shown(s) == {i \in Id : IsAround(i, s)}

(* The inductive invariant: a settled client that is active knows who is    *)
(* around it, and a connection without a session knows nobody, so that the  *)
(* snapshot of its HELLO starts from nothing.                               *)
SceneInv ==
    /\ \A s \in settled : s \in sockets /\ session[s] # NoPlayer
    /\ \A s \in settled : session[s] \in Active => scene[s] = Shown(s)
    /\ \A s \in Socket : session[s] = NoPlayer => scene[s] = {}

(* An id names one active player, so the ids of those around are the ids    *)
(* that are around.                                                         *)
LEMMA AroundIsShown ==
    ASSUME IInv, NEW s \in Socket
    PROVE  Around(s) = Shown(s)
<1>1. \A q \in Active : player[q].id \in Id /\ players[player[q].id] = q /\ q # NoPlayer
  BY ActivePlayers, NoPlayerAssumption DEF IInv
<1>2. \A i \in Id : players[i] # NoPlayer => players[i] \in Active /\ player[players[i]].id = i
  BY ActivePlayers DEF IInv
<1> QED BY <1>1, <1>2 DEF Around, Shown, IsAround

-----------------------------------------------------------------------------
(* How a client takes none, one or two messages *)

Silent(msgs, s) ==
    \A k \in 1 .. Len(msgs) : /\ Told(msgs[k], s, "join") = {}
                              /\ Told(msgs[k], s, "leave") = {}

LEMMA OneAndOne == ASSUME NEW m, NEW n PROVE <<m>> \o <<n>> = <<m, n>>
<1> DEFINE S == {m, n}
<1>1. <<m>> \in Seq(S) /\ <<n>> \in Seq(S) /\ <<m, n>> \in Seq(S)
  OBVIOUS
<1>2. /\ <<m>> \o <<n>> \in Seq(S)
      /\ Len(<<m>> \o <<n>>) = Len(<<m>>) + Len(<<n>>)
      /\ \A k \in 1 .. Len(<<m>>) + Len(<<n>>) :
            (<<m>> \o <<n>>)[k] = IF k <= Len(<<m>>) THEN <<m>>[k] ELSE <<n>>[k - Len(<<m>>)]
  BY <1>1, ConcatProperties
<1>3. Len(<<m>>) = 1 /\ Len(<<n>>) = 1 /\ Len(<<m, n>>) = 2
  OBVIOUS
<1>4. \A k \in 1 .. 2 : (<<m>> \o <<n>>)[k] = <<m, n>>[k]
  <2>1. \A k \in 1 .. 2 : k = 1 \/ k = 2
    OBVIOUS
  <2>2. (<<m>> \o <<n>>)[1] = m /\ (<<m>> \o <<n>>)[2] = n
    BY <1>2, <1>3
  <2> QED BY <2>1, <2>2
<1> DEFINE u == <<m>> \o <<n>>
           v == <<m, n>>
<1>5. u \in Seq(S) /\ v \in Seq(S) /\ Len(u) = 2 /\ Len(v) = 2
      /\ \A k \in 1 .. 2 : u[k] = v[k]
  BY <1>1, <1>2, <1>3, <1>4
<1> HIDE DEF S, u, v
<1>6. u = v
  BY <1>5, SeqEqual
<1> QED BY <1>6 DEF u, v

(* Messages that say nothing of anybody change nothing. *)
LEMMA DeliverNothing ==
    ASSUME NEW known, NEW s, NEW msgs, Silent(msgs, s)
    PROVE  Deliver(known, s, msgs) = known
BY DEF Silent, Deliver, Left

LEMMA DeliverOne ==
    ASSUME NEW known, NEW s, NEW m
    PROVE  Deliver(known, s, <<m>>) = (known \ Told(m, s, "leave")) \cup Told(m, s, "join")
<1> DEFINE msgs == <<m>>
<1>1. Len(msgs) = 1 /\ msgs[1] = m
  OBVIOUS
<1> HIDE DEF msgs
<1>2. Left(msgs, s, 1) = Told(m, s, "leave") /\ Left(msgs, s, 2) = {}
  BY <1>1 DEF Left
<1>3. UNION {Told(msgs[k], s, "join") \ Left(msgs, s, k + 1) : k \in 1 .. Len(msgs)}
         = Told(m, s, "join")
  BY <1>1, <1>2
<1>4. Deliver(known, s, msgs) = (known \ Told(m, s, "leave")) \cup Told(m, s, "join")
  BY <1>2, <1>3 DEF Deliver
<1> QED BY <1>4 DEF msgs

(* A LEAVE and then a JOIN, as in a transfer or a HELLO over a session. *)
LEMMA DeliverTwo ==
    ASSUME NEW known, NEW s, NEW m, NEW n,
           Told(m, s, "join") = {}, Told(n, s, "leave") = {}
    PROVE  Deliver(known, s, <<m, n>>) = (known \ Told(m, s, "leave")) \cup Told(n, s, "join")
<1> DEFINE msgs == <<m, n>>
<1>1. Len(msgs) = 2 /\ msgs[1] = m /\ msgs[2] = n
  OBVIOUS
<1> HIDE DEF msgs
<1>2. Left(msgs, s, 1) = Told(m, s, "leave") /\ Left(msgs, s, 2) = {} /\ Left(msgs, s, 3) = {}
  BY <1>1 DEF Left
<1>3. UNION {Told(msgs[k], s, "join") \ Left(msgs, s, k + 1) : k \in 1 .. Len(msgs)}
         = Told(n, s, "join")
  BY <1>1, <1>2
<1>4. Deliver(known, s, msgs) = (known \ Told(m, s, "leave")) \cup Told(n, s, "join")
  BY <1>2, <1>3 DEF Deliver
<1> QED BY <1>4 DEF msgs

-----------------------------------------------------------------------------
(* Who listens *)

(* An active session gets what is published around a chunk if and only if   *)
(* the chunk is near its own, either way round.                             *)
LEMMA Listening ==
    ASSUME IInv, NEW s \in Socket, session[s] \in Active, NEW d \in Chunk
    PROVE  /\ player[session[s]].chunk \in Chunk
           /\ s \in Subscribers(Near[d]) <=> d \in Near[player[session[s]].chunk]
<1>1. /\ session[s] \in Player /\ session[s] # NoPlayer
      /\ player[session[s]].chunk \in Chunk
  BY ActivePlayers, NoPlayerAssumption DEF IInv, PlayerFields
<1>2. s \in sockets /\ IsActivePlayer(session[s])
  BY <1>1, SessionPlayer
<1>3. topics[s] = {player[session[s]].chunk}
  BY <1>1, <1>2 DEF IInv, SubscriptionFollowsRoom, RoomsHoldActivePlayers
<1> QED BY <1>1, <1>2, <1>3, NearAssumption DEF Subscribers

(* A connection without a session gets nothing that is published. *)
LEMMA NotListening ==
    ASSUME IInv, NEW s \in Socket, session[s] = NoPlayer, NEW C
    PROVE  s \notin Subscribers(C)
BY DEF IInv, SubscriptionFollowsRoom, Subscribers

(* What Observe says of a client that was settled before. *)
LEMMA StillSettled ==
    ASSUME SceneInv, Observe, NEW s \in settled', session[s] # NoPlayer
    PROVE  /\ s \in settled /\ s \in sockets'
           /\ session'[s] # NoPlayer
           /\ player'[session'[s]].chunk = player[session[s]].chunk
BY DEF Observe

(* Every connection that stays and has no session gets no word, and every   *)
(* settled one gets the words that make the difference.                     *)
LEMMA SceneStep ==
    ASSUME IInv, IInv', SceneInv, Observe,
           \A s \in sockets' : session'[s] = NoPlayer =>
              session[s] = NoPlayer /\ Silent(out', s),
           \A s \in settled' : session'[s] \in Active' =>
              Deliver(scene[s], s, out') = Shown(s)'
    PROVE  SceneInv'
<1>1. sockets' \subseteq Socket
  BY DEF IInv, TypeOK
<1>2. \A s \in Socket : scene'[s] = IF s \in sockets' THEN Deliver(scene[s], s, out') ELSE {}
  BY DEF Observe
<1>3. \A s \in settled' : s \in sockets' /\ session'[s] # NoPlayer
  BY DEF Observe
<1>4. \A s \in settled' : session'[s] \in Active' => scene'[s] = Shown(s)'
  BY <1>1, <1>2, <1>3
<1>5. ASSUME NEW s \in Socket, session'[s] = NoPlayer
      PROVE  scene'[s] = {}
  <2>1. CASE s \notin sockets'
    BY <1>2, <2>1
  <2>2. CASE s \in sockets'
    <3>1. scene[s] = {} /\ Silent(out', s)
      BY <1>5, <2>2 DEF SceneInv
    <3>2. scene'[s] = Deliver(scene[s], s, out')
      BY <1>2, <2>2
    <3> QED BY <3>1, <3>2, DeliverNothing
  <2> QED BY <2>1, <2>2
<1> QED BY <1>3, <1>4, <1>5 DEF SceneInv

-----------------------------------------------------------------------------
(* Steps that leave everybody where they are *)

(* A step with nobody coming, leaving or walking, and no word of any.       *)
LEMMA NobodyMoves ==
    ASSUME IInv, IInv', SceneInv, Observe,
           UNCHANGED players,
           \A s \in sockets' : session'[s] = session[s],
           \A p \in Active : player'[p].pose = player[p].pose
                             /\ player'[p].chunk = player[p].chunk,
           \A s \in Socket : Silent(out', s)
    PROVE  SceneInv'
<1>1. sockets' \subseteq Socket
  BY DEF IInv, TypeOK
<1>2. ASSUME NEW s \in settled', session'[s] \in Active'
      PROVE  Deliver(scene[s], s, out') = Shown(s)'
  <2>1. s \in sockets' /\ session'[s] # NoPlayer
    BY DEF Observe
  <2>2. session[s] = session'[s] /\ session[s] # NoPlayer /\ s \in Socket
    BY <1>1, <2>1
  <2>3. Active' = Active
    BY DEF Active
  <2>4. s \in settled /\ scene[s] = Shown(s)
    BY <1>2, <2>2, <2>3, StillSettled DEF SceneInv
  <2>5. \A i \in Id : players[i] # NoPlayer => players[i] \in Active
    BY ActivePlayers DEF IInv
  <2>6. \A i \in Id : IsAround(i, s)' <=> IsAround(i, s)
    BY <1>2, <2>2, <2>3, <2>5 DEF IsAround
  <2>7. Shown(s)' = Shown(s)
    BY <2>6 DEF Shown
  <2> QED BY <2>2, <2>4, <2>7, DeliverNothing
<1> QED BY <1>1, <1>2, SceneStep

(* An empty list of messages says nothing. *)
LEMMA EmptySilent == \A s : Silent(<<>>, s)
BY DEF Silent

(* The flush sends nothing but moves, and what it sends for an entry of a   *)
(* player that is there is that player's.                                   *)
LEMMA FlushKinds ==
    ASSUME IInv, FlushPendingMoves, NEW k \in 1 .. Len(out')
    PROVE  /\ k \in 1 .. Len(pending)
           /\ out'[k].kind \in {"move", "nothing"}
           /\ out'[k].kind = "move" /\ k \notin Dangling
                  => Sendable(k) /\ out'[k] = MoveItem(k)
<1>1. PICK garbage \in GarbageReads : out' = FlushedItems(garbage)
  BY DEF FlushPendingMoves
<1>2. Len(pending) \in Nat
  BY DEF IInv, TypeOK
<1>3. Len(out') = Len(pending)
  BY <1>1, <1>2 DEF FlushedItems
<1>4. out'[k] = IF k \in Dangling THEN garbage[k]
                ELSE IF Sendable(k) THEN MoveItem(k)
                ELSE NoItem
  BY <1>1, <1>3 DEF FlushedItems
<1>5. NoItem.kind = "nothing" /\ \A i, chunks : GarbageItem(i, chunks).kind = "move"
  BY DEF NoItem, GarbageItem, Message
<1>6. MoveItem(k).kind = "move"
  BY DEF MoveItem, PublishToAoi, Message
<1>7. CASE k \in Dangling
  <2>1. garbage[k] \in {NoItem} \cup
                        {GarbageItem(i, chunks) : i \in Id, chunks \in SUBSET Chunk}
    BY <1>7 DEF GarbageReads
  <2> QED BY <1>3, <1>4, <1>5, <1>7, <2>1
<1>8. CASE k \notin Dangling
  BY <1>3, <1>4, <1>5, <1>6, <1>8
<1> QED BY <1>7, <1>8

(* open, PONG and the like, timers, the flush and the ends of connections   *)
(* that have no active player.                                              *)
LEMMA QuietScene ==
    ASSUME IInv, IInv', SceneInv, Observe,
           \/ \E s \in Socket : \/ Open(s) \/ KeepAlive(s) \/ Elapse(s)
                               \/ CloseWithoutPlayer(s) \/ CloseRetired(s)
           \/ FlushPendingMoves \/ ReapStaleSockets
    PROVE  SceneInv'
<1>1. /\ Active \subseteq Player
      /\ \A p \in Active : player[p] \in PlayerFields
      /\ player \in [Player -> PlayerFields \cup {Blank}]
  BY ActivePlayers DEF IInv, TypeOK
<1>2. CASE (\E s \in Socket : Open(s) \/ KeepAlive(s) \/ Elapse(s)) \/ ReapStaleSockets
  <2>1. UNCHANGED <<players, session, player>> /\ out' = <<>>
    BY <1>2 DEF Open, KeepAlive, Elapse, ReapStaleSockets
  <2> QED BY <2>1, EmptySilent, NobodyMoves
<1>3. CASE FlushPendingMoves
  <2>1. UNCHANGED <<players, session>>
    BY <1>3 DEF FlushPendingMoves
  <2>2. \A p \in Active : player'[p].pose = player[p].pose /\ player'[p].chunk = player[p].chunk
    BY <1>1, <1>3, FlushKeepsFields
  <2>3. \A r \in Socket : Silent(out', r)
    BY <1>3, FlushKinds DEF Silent, Told
  <2> QED BY <2>1, <2>2, <2>3, NobodyMoves
<1>4. ASSUME NEW s \in Socket, CloseWithoutPlayer(s) \/ CloseRetired(s)
      PROVE  SceneInv'
  <2>1. ForgetSocket(s) /\ UNCHANGED players /\ out' = <<>>
    BY <1>4 DEF CloseWithoutPlayer, CloseRetired
  <2>2. \A r \in sockets' : session'[r] = session[r]
    BY <2>1 DEF ForgetSocket, IInv, TypeOK
  <2>3. \A p \in Active : player'[p] = player[p]
    <3>1. CASE CloseWithoutPlayer(s)
      BY <3>1 DEF CloseWithoutPlayer
    <3>2. CASE CloseRetired(s)
      <4>1. session[s] \notin Active
        BY <3>2, SessionPlayer DEF CloseRetired
      <4> QED BY <1>1, <3>2, <4>1 DEF CloseRetired
    <3> QED BY <1>4, <3>1, <3>2
  <2> QED BY <2>1, <2>2, <2>3, EmptySilent, NobodyMoves
<1> QED BY <1>2, <1>3, <1>4

-----------------------------------------------------------------------------
(* Departures *)

(* Who is around after the players of H are gone: those before, without H,  *)
(* even where one of their ids went to a newcomer without a pose.           *)
LEMMA ShownAfterDeparture ==
    ASSUME IInv, NEW s \in Socket, session[s] \in Active, session'[s] = session[s],
           NEW H \in SUBSET Active, session[s] \notin H,
           \A j \in Id : IF players[j] \in H \/ players[j] = NoPlayer
                         THEN players'[j] = NoPlayer \/ ~player'[players'[j]].pose
                         ELSE players'[j] = players[j],
           \A q \in Active \ H : /\ player'[q].pose = player[q].pose
                                 /\ player'[q].chunk = player[q].chunk
    PROVE  Shown(s)' = {j \in Shown(s) : players[j] \notin H}
<1>1. \A j \in Id : players[j] # NoPlayer => players[j] \in Active
  BY ActivePlayers DEF IInv
<1>2. player'[session'[s]].chunk = player[session[s]].chunk
  OBVIOUS
<1>3. ASSUME NEW j \in Id, players[j] \in H \/ players[j] = NoPlayer
      PROVE  ~IsAround(j, s)' /\ (players[j] = NoPlayer => ~IsAround(j, s))
  BY <1>3 DEF IsAround
<1>4. ASSUME NEW j \in Id, players[j] \notin H, players[j] # NoPlayer
      PROVE  IsAround(j, s)' <=> IsAround(j, s)
  <2>1. players'[j] = players[j] /\ players[j] \in Active \ H
    BY <1>1, <1>4
  <2> QED BY <1>2, <2>1 DEF IsAround
<1> QED BY <1>3, <1>4 DEF Shown

(* A LEAVE to everybody who listens around the chunk takes the player off   *)
(* the list of those who had it there, and means nothing to the others.     *)
LEMMA LeaveTold ==
    ASSUME IInv, NEW s \in Socket, session[s] \in Active, NEW h \in Active, h # session[s],
           NEW to, s \in to <=> s \in Subscribers(Near[player[h].chunk])
    PROVE  LET m == Message("leave", {player[h].id}, to)
           IN  /\ Told(m, s, "join") = {}
               /\ Shown(s) \ Told(m, s, "leave") = {j \in Shown(s) : players[j] \notin {h}}
<1> DEFINE m == Message("leave", {player[h].id}, to)
<1>1. m.kind = "leave" /\ m.ids = {player[h].id} /\ m.to = to
  BY DEF Message
<1>2. player[h].chunk \in Chunk /\ player[h].id \in Id /\ players[player[h].id] = h
  BY ActivePlayers DEF IInv, PlayerFields
<1>3. \A j \in Id : players[j] = h => j = player[h].id
  BY ActivePlayers, NoPlayerAssumption DEF IInv, Active
<1>4. s \in to <=> player[h].chunk \in Near[player[session[s]].chunk]
  BY <1>2, Listening
<1>5. Told(m, s, "join") = {}
  BY <1>1 DEF Told
<1>6. Told(m, s, "leave") = IF s \in to THEN {player[h].id} ELSE {}
  BY <1>1 DEF Told
<1>7. \A j \in Shown(s) : j \in Id /\ (players[j] = h => s \in to)
  BY <1>4 DEF Shown, IsAround
<1> HIDE DEF m
<1>8. Shown(s) \ Told(m, s, "leave") = {j \in Shown(s) : players[j] \notin {h}}
  BY <1>2, <1>3, <1>6, <1>7
<1> QED BY <1>5, <1>8 DEF m

(* The close handler of an active player. *)
LEMMA CloseActiveScene ==
    ASSUME IInv, IInv', SceneInv, Observe, NEW r \in Socket, CloseActive(r)
    PROVE  SceneInv'
<1> DEFINE h == session[r]
           to == Subscribers(Near[player[h].chunk]) \ {r}
           m == Message("leave", {player[h].id}, to)
<1>1. /\ IsActivePlayer(h) /\ h # NoPlayer
      /\ out' = <<m>>
      /\ players' = [players EXCEPT ![player[h].id] = NoPlayer]
      /\ player' = [player EXCEPT ![h] = Blank]
      /\ ForgetSocket(r)
  BY DEF CloseActive, IsActivePlayer
<1>2. /\ h \in Active /\ h \in Player /\ player[h].id \in Id
      /\ players[player[h].id] = h
      /\ \A j \in Id : players[j] = h => j = player[h].id
      /\ \A q \in Socket : session[q] = h => q = r
  BY <1>1, SessionPlayer, ActivePlayers DEF IInv
<1>3. /\ sockets' = sockets \ {r} /\ sockets \subseteq Socket
      /\ \A q \in sockets' : session'[q] = session[q]
  BY <1>1 DEF ForgetSocket, IInv, TypeOK
<1>4. \A j \in Id : players'[j] = IF players[j] = h THEN NoPlayer ELSE players[j]
  BY <1>1, <1>2 DEF IInv, TypeOK
<1>5. \A q \in Active : q \in Player /\ (q # h => player'[q] = player[q])
  BY <1>1 DEF Active, IInv, TypeOK
<1>6. Active' \subseteq Active \ {h}
  BY <1>2, <1>4, NoPlayerAssumption DEF Active
<1> HIDE DEF h
<1>7. ASSUME NEW s \in sockets', session'[s] = NoPlayer
      PROVE  session[s] = NoPlayer /\ Silent(out', s)
  <2>1. s \in Socket /\ session[s] = NoPlayer
    BY <1>3, <1>7
  <2>2. s \notin to
    BY <2>1, NotListening
  <2>3. Told(m, s, "join") = {} /\ Told(m, s, "leave") = {}
    BY <2>2 DEF Told, Message
  <2> HIDE DEF m
  <2> QED BY <1>1, <2>1, <2>3 DEF Silent
<1>8. ASSUME NEW s \in settled', session'[s] \in Active'
      PROVE  Deliver(scene[s], s, out') = Shown(s)'
  <2>1. /\ s \in sockets' /\ s # r /\ s \in Socket
        /\ session'[s] = session[s] /\ session[s] # NoPlayer
    BY <1>3 DEF Observe
  <2>2. session[s] \in Active \ {h}
    BY <1>6, <1>8, <2>1
  <2>3. scene[s] = Shown(s)
    BY <2>1, <2>2, StillSettled DEF SceneInv
  <2>4. Shown(s)' = {j \in Shown(s) : players[j] \notin {h}}
    <3>1. {h} \in SUBSET Active /\ session[s] \notin {h}
      BY <1>2, <2>2
    <3>2. \A j \in Id : IF players[j] \in {h} \/ players[j] = NoPlayer
                        THEN players'[j] = NoPlayer \/ ~player'[players'[j]].pose
                        ELSE players'[j] = players[j]
      BY <1>4
    <3>3. \A q \in Active \ {h} : /\ player'[q].pose = player[q].pose
                                 /\ player'[q].chunk = player[q].chunk
      BY <1>5
    <3> QED BY <2>1, <2>2, <3>1, <3>2, <3>3, ShownAfterDeparture
  <2> HIDE DEF to
  <2>5. /\ Told(m, s, "join") = {}
        /\ Shown(s) \ Told(m, s, "leave") = {j \in Shown(s) : players[j] \notin {h}}
    <3>1. s \in to <=> s \in Subscribers(Near[player[h].chunk])
      BY <2>1 DEF to
    <3>2. h # session[s] /\ session[s] \in Active /\ h \in Active
      BY <1>2, <2>2
    <3> QED BY <2>1, <3>1, <3>2, LeaveTold
  <2> HIDE DEF m
  <2> QED BY <1>1, <2>3, <2>4, <2>5, DeliverOne
<1> QED BY <1>7, <1>8, SceneStep

(* Whatever way a connection ends. *)
LEMMA EndSocketScene ==
    ASSUME IInv, IInv', SceneInv, Observe, NEW s \in Socket, EndSocket(s)
    PROVE  SceneInv'
BY QuietScene, CloseActiveScene DEF EndSocket

-----------------------------------------------------------------------------
(* HELLO *)

(* What is published when a wallet's session is retired. *)
LEMMA RetirementNews ==
    ASSUME IInv, NEW w \in Wallet
    PROVE  \/ HolderOf(w) = {} /\ RetireLeave(w) = <<>>
           \/ \E h \in Active :
                 /\ HolderOf(w) = {h}
                 /\ RetireLeave(w) = << Message("leave", {player[h].id},
                                                Subscribers(Near[player[h].chunk])) >>
<1>1. CASE HolderOf(w) = {}
  BY <1>1 DEF RetireLeave
<1>2. CASE HolderOf(w) # {}
  <2>1. PICK h : h \in HolderOf(w)
    BY <1>2
  <2>2. h \in Active /\ HolderOf(w) = {h}
    BY <2>1, OneHolder DEF HolderOf
  <2>3. (CHOOSE q \in HolderOf(w) : TRUE) = h
    BY <2>2
  <2>4. RetireLeave(w) = << PublishToAoi("leave", h, player[h].chunk) >>
    BY <1>2, <2>3 DEF RetireLeave
  <2> QED BY <2>2, <2>4 DEF PublishToAoi
<1> QED BY <1>1, <1>2

(* ... means the same to every listener. *)
LEMMA RetirementTold ==
    ASSUME IInv, NEW w \in Wallet, NEW s \in Socket, session[s] \in Active,
           session[s] \notin HolderOf(w)
    PROVE  Deliver(Shown(s), s, RetireLeave(w)) = {j \in Shown(s) : players[j] \notin HolderOf(w)}
<1>1. CASE HolderOf(w) = {} /\ RetireLeave(w) = <<>>
  BY <1>1, EmptySilent, DeliverNothing
<1>2. ASSUME NEW h \in Active, HolderOf(w) = {h},
             RetireLeave(w) = << Message("leave", {player[h].id},
                                         Subscribers(Near[player[h].chunk])) >>
      PROVE  Deliver(Shown(s), s, RetireLeave(w))
                = {j \in Shown(s) : players[j] \notin HolderOf(w)}
  <2> DEFINE m == Message("leave", {player[h].id}, Subscribers(Near[player[h].chunk]))
  <2>1. /\ Told(m, s, "join") = {}
        /\ Shown(s) \ Told(m, s, "leave") = {j \in Shown(s) : players[j] \notin {h}}
    BY <1>2, LeaveTold
  <2>2. RetireLeave(w) = <<m>>
    BY <1>2
  <2> HIDE DEF m
  <2> QED BY <1>2, <2>1, <2>2, DeliverOne
<1> QED BY <1>1, <1>2, RetirementNews

(* ... and nothing to a connection without a session. *)
LEMMA RetirementUntold ==
    ASSUME IInv, NEW w \in Wallet, NEW s \in Socket, session[s] = NoPlayer
    PROVE  Silent(RetireLeave(w), s)
<1>1. CASE RetireLeave(w) = <<>>
  BY <1>1, EmptySilent
<1>2. ASSUME NEW h \in Active,
             RetireLeave(w) = << Message("leave", {player[h].id},
                                         Subscribers(Near[player[h].chunk])) >>
      PROVE  Silent(RetireLeave(w), s)
  <2> DEFINE m == Message("leave", {player[h].id}, Subscribers(Near[player[h].chunk]))
  <2>1. Told(m, s, "join") = {} /\ Told(m, s, "leave") = {}
    BY NotListening DEF Told, Message
  <2>2. RetireLeave(w) = <<m>>
    BY <1>2
  <2> HIDE DEF m
  <2> QED BY <2>1, <2>2 DEF Silent
<1> QED BY <1>1, <1>2, RetirementNews

(* A HELLO that is refused has taken the wallet's old session away. *)
LEMMA HelloRejectedScene ==
    ASSUME IInv, IInv', SceneInv, Observe,
           NEW r \in Socket, NEW w \in Wallet, NEW c, HelloRejected(r, w, c)
    PROVE  SceneInv'
<1>1. /\ session[r] = NoPlayer
      /\ players' = PlayersWithout(w)
      /\ player' = FieldsAfterRetiring(w)
      /\ out' = RetireLeave(w)
      /\ ForgetSocket(r)
  BY DEF HelloRejected
<1>2. /\ sockets' = sockets \ {r} /\ sockets \subseteq Socket
      /\ \A q \in sockets' : session'[q] = session[q]
  BY <1>1 DEF ForgetSocket, IInv, TypeOK
<1>3. /\ HolderOf(w) \in SUBSET Active
      /\ \A j \in Id : players'[j] = IF players[j] \in HolderOf(w) THEN NoPlayer ELSE players[j]
      /\ \A q \in Active \ HolderOf(w) : player'[q] = player[q]
  BY <1>1, Retirement DEF Allocated
<1>4. Active' \subseteq Active \ HolderOf(w)
  BY <1>3, NoPlayerAssumption DEF Active
<1>5. \A s \in sockets' : session'[s] = NoPlayer => session[s] = NoPlayer /\ Silent(out', s)
  BY <1>1, <1>2, RetirementUntold
<1>6. ASSUME NEW s \in settled', session'[s] \in Active'
      PROVE  Deliver(scene[s], s, out') = Shown(s)'
  <2>1. s \in sockets' /\ s \in Socket /\ session'[s] = session[s] /\ session[s] # NoPlayer
    BY <1>2 DEF Observe
  <2>2. session[s] \in Active \ HolderOf(w)
    BY <1>4, <1>6, <2>1
  <2>3. scene[s] = Shown(s)
    BY <2>1, <2>2, StillSettled DEF SceneInv
  <2>4. Shown(s)' = {j \in Shown(s) : players[j] \notin HolderOf(w)}
    BY <1>3, <2>1, <2>2, ShownAfterDeparture
  <2> QED BY <1>1, <2>1, <2>2, <2>3, <2>4, RetirementTold
<1> QED BY <1>5, <1>6, SceneStep

(* collect_snapshot finds the ids of the players around a chunk that have a *)
(* pose.                                                                    *)
LEMMA SnapshotIsAround ==
    ASSUME IInv', NEW c \in Chunk
    PROVE  Snapshot(rooms', player', c)
              = {i \in Id : /\ players'[i] # NoPlayer
                            /\ player'[players'[i]].pose
                            /\ player'[players'[i]].chunk \in Near[c]}
<1>1. /\ Consistent(rooms')
      /\ \A q \in Player :
            rooms'.room[q] = IF q \in Active' THEN player'[q].chunk ELSE NoRoom
      /\ players' \in [Id -> Player \cup {NoPlayer}]
      /\ Near[c] \subseteq Chunk
      /\ \A i \in Id : players'[i] # NoPlayer => player'[players'[i]].id = i
  BY NearAssumption DEF IInv, RoomsHoldActivePlayers, TypeOK, Consistent, PlayerMapConsistent
<1>2. \A q : q \in Active' <=> q \in Player /\ \E i \in Id : players'[i] = q
  BY DEF Active
<1>3. \A d \in Near[c] : Occupants(rooms', d) = {q \in Active' : player'[q].chunk = d}
  <2> SUFFICES ASSUME NEW d \in Near[c]
               PROVE  Occupants(rooms', d) = {q \in Active' : player'[q].chunk = d}
    OBVIOUS
  <2>1. d \in Chunk /\ d # NoRoom
    BY <1>1, NoRoomAssumption
  <2>2. Occupants(rooms', d) = {q \in Player : rooms'.room[q] = d}
    BY <1>1, <2>1, OccupantsByRoom
  <2> QED BY <1>1, <1>2, <2>1, <2>2
<1> DEFINE Q == {q \in UNION {Occupants(rooms', d) : d \in Near[c]} : player'[q].pose}
           I == {i \in Id : /\ players'[i] # NoPlayer
                            /\ player'[players'[i]].pose
                            /\ player'[players'[i]].chunk \in Near[c]}
<1>4. Q = {q \in Active' : player'[q].pose /\ player'[q].chunk \in Near[c]}
  BY <1>3
<1>5. Snapshot(rooms', player', c) = {player'[q].id : q \in Q}
  BY DEF Snapshot
<1> HIDE DEF Q
<1>6. \A q \in Q : \E i \in I : i = player'[q].id
  BY <1>1, <1>2, <1>4, NoPlayerAssumption
<1>7. \A i \in I : players'[i] \in Q /\ player'[players'[i]].id = i
  BY <1>1, <1>2, <1>4
<1> HIDE DEF I
<1>8. {player'[q].id : q \in Q} = I
  BY <1>6, <1>7
<1> QED BY <1>5, <1>8 DEF I

(* A HELLO that is accepted: the others lose the old session and do not see *)
(* the newcomer before its first MOVE; the newcomer is told who is there.   *)
LEMMA HelloAcceptedScene ==
    ASSUME IInv, IInv', SceneInv, Observe,
           NEW r \in Socket, NEW w \in Wallet, NEW c \in Chunk, NEW p \in Player,
           HelloAccepted(r, w, c, p)
    PROVE  SceneInv'
<1> DEFINE i == AllocatedId({j \in Id : PlayersWithout(w)[j] # NoPlayer})
           n == Message("join", Snapshot(rooms', player', c), {r})
<1>1. /\ session[r] = NoPlayer /\ r \in sockets
      /\ p \notin Allocated
      /\ player' = [FieldsAfterRetiring(w) EXCEPT ![p] = NewPlayer(i, w, c)]
      /\ session' = [session EXCEPT ![r] = p]
      /\ out' = RetireLeave(w) \o <<n>>
      /\ UNCHANGED sockets
  BY DEF HelloAccepted
<1>2. /\ i \in Id
      /\ \A j \in Id : players'[j] = IF j = i THEN p
                                     ELSE IF players[j] \in HolderOf(w) THEN NoPlayer
                                     ELSE players[j]
      /\ Active' = (Active \ HolderOf(w)) \cup {p}
  BY AcceptedGetsAnId
<1>3. /\ player'[p].pose = FALSE /\ player'[p].chunk = c /\ p # NoPlayer
      /\ \A q \in Active \ HolderOf(w) : q # p /\ player'[q] = player[q]
  <2>1. \A q \in Active : q \in Allocated /\ q \in Player
    BY DEF Allocated, Active
  <2> QED BY <1>1, <2>1, Retirement, NoPlayerAssumption DEF NewPlayer
<1>4. players[i] = NoPlayer \/ players[i] \in HolderOf(w)
  <2>1. CASE players[i] \notin HolderOf(w) /\ players[i] # NoPlayer
    <3>1. players[i] \in Active \ HolderOf(w) /\ player[players[i]].id = i
      BY <1>2, <2>1, ActivePlayers DEF IInv
    <3>2. players[i] \in Active' /\ player'[players[i]].id = i /\ players[i] # p
      BY <1>2, <1>3, <3>1
    <3>3. \A q \in Active' : players'[player'[q].id] = q
      <4>1. ASSUME NEW q \in Active' PROVE players'[player'[q].id] = q
        <5>1. PICK j \in Id : players'[j] = q
          BY DEF Active
        <5>2. q # NoPlayer
          BY NoPlayerAssumption DEF Active
        <5> QED BY <5>1, <5>2 DEF IInv, PlayerMapConsistent
      <4> QED BY <4>1
    <3> QED BY <1>2, <3>2, <3>3
  <2> QED BY <2>1
<1>5. sockets \subseteq Socket /\ session' \in [Socket -> Player \cup {NoPlayer}]
      /\ \A q \in Socket : session'[q] = IF q = r THEN p ELSE session[q]
  BY <1>1 DEF IInv, TypeOK
<1> HIDE DEF i
<1>6. /\ Told(n, r, "join") = Snapshot(rooms', player', c)
      /\ Told(n, r, "leave") = {}
      /\ \A s : s # r => Told(n, s, "join") = {} /\ Told(n, s, "leave") = {}
  BY DEF Told, Message
<1> HIDE DEF n
<1>7. \/ HolderOf(w) = {} /\ RetireLeave(w) = <<>> /\ out' = <<n>>
      \/ \E m : RetireLeave(w) = <<m>> /\ out' = <<m, n>>
               /\ \A s : Told(m, s, "join") = {}
  <2>1. CASE HolderOf(w) = {} /\ RetireLeave(w) = <<>>
    BY <1>1, <2>1
  <2>2. ASSUME NEW h \in Active,
               RetireLeave(w) = << Message("leave", {player[h].id},
                                           Subscribers(Near[player[h].chunk])) >>
        PROVE  \E m : RetireLeave(w) = <<m>> /\ out' = <<m, n>>
                      /\ \A s : Told(m, s, "join") = {}
    <3> DEFINE m == Message("leave", {player[h].id}, Subscribers(Near[player[h].chunk]))
    <3>1. \A s : Told(m, s, "join") = {}
      BY DEF Told, Message
    <3>2. RetireLeave(w) = <<m>>
      BY <2>2
    <3> HIDE DEF m
    <3>3. out' = <<m>> \o <<n>>
      BY <1>1, <3>2
    <3>4. <<m>> \o <<n>> = <<m, n>>
      BY OneAndOne
    <3> QED BY <3>1, <3>2, <3>3, <3>4
  <2> QED BY <2>1, <2>2, RetirementNews
<1>8. ASSUME NEW s \in Socket, NEW known
      PROVE  Deliver(known, s, out')
                = Deliver(known, s, RetireLeave(w)) \cup Told(n, s, "join")
  <2>0. Told(n, s, "leave") = {}
    BY <1>6
  <2>1. CASE RetireLeave(w) = <<>> /\ out' = <<n>>
    <3>1. Deliver(known, s, <<>>) = known
      BY EmptySilent, DeliverNothing
    <3> QED BY <2>0, <2>1, <3>1, DeliverOne
  <2>2. ASSUME NEW m, RetireLeave(w) = <<m>>, out' = <<m, n>>, Told(m, s, "join") = {}
        PROVE  Deliver(known, s, out')
                  = Deliver(known, s, RetireLeave(w)) \cup Told(n, s, "join")
    BY <2>0, <2>2, DeliverOne, DeliverTwo
  <2> QED BY <1>7, <2>1, <2>2
<1>9. ASSUME NEW s \in sockets', session'[s] = NoPlayer
      PROVE  session[s] = NoPlayer /\ Silent(out', s)
  <2>1. s \in Socket /\ s # r /\ session[s] = NoPlayer
    BY <1>1, <1>3, <1>5, <1>9
  <2>2. Silent(RetireLeave(w), s)
    BY <2>1, RetirementUntold
  <2>3. Told(n, s, "join") = {} /\ Told(n, s, "leave") = {}
    BY <1>6, <2>1
  <2>4. CASE out' = <<n>>
    <3>1. Len(out') = 1 /\ out'[1] = n
      BY <2>4
    <3> QED BY <2>1, <2>3, <3>1 DEF Silent
  <2>5. ASSUME NEW m, RetireLeave(w) = <<m>>, out' = <<m, n>>
        PROVE  Silent(out', s)
    BY <2>2, <2>3, <2>5 DEF Silent
  <2> QED BY <1>7, <2>1, <2>4, <2>5
<1>10. ASSUME NEW s \in settled', session'[s] \in Active'
       PROVE  Deliver(scene[s], s, out') = Shown(s)'
  <2>1. s \in sockets /\ s \in Socket
    BY <1>1, <1>5 DEF Observe
  <2>2. CASE s # r
    <3>1. session'[s] = session[s] /\ session[s] # NoPlayer
      BY <1>5, <2>1, <2>2 DEF Observe
    <3>2. session[s] \in Allocated
      BY <2>1, <3>1, SessionPlayer
    <3>3. session[s] \in Active \ HolderOf(w)
      BY <1>1, <1>2, <1>10, <3>1, <3>2
    <3>4. scene[s] = Shown(s)
      BY <3>1, <3>3, StillSettled DEF SceneInv
    <3>5. Shown(s)' = {j \in Shown(s) : players[j] \notin HolderOf(w)}
      <4>1. HolderOf(w) \in SUBSET Active
        BY DEF HolderOf
      <4>2. \A j \in Id : IF players[j] \in HolderOf(w) \/ players[j] = NoPlayer
                          THEN players'[j] = NoPlayer \/ ~player'[players'[j]].pose
                          ELSE players'[j] = players[j]
        BY <1>2, <1>3, <1>4
      <4> QED BY <1>3, <2>1, <3>1, <3>3, <4>1, <4>2, ShownAfterDeparture
    <3> QED BY <1>6, <1>8, <2>1, <2>2, <3>3, <3>4, <3>5, RetirementTold
  <2>3. CASE s = r
    <3>1. scene[s] = {} /\ Silent(RetireLeave(w), s)
      BY <1>1, <2>1, <2>3, RetirementUntold DEF SceneInv
    <3>2. Deliver(scene[s], s, out') = Snapshot(rooms', player', c)
      BY <1>6, <1>8, <2>1, <2>3, <3>1, DeliverNothing
    <3>3. session'[s] = p
      BY <1>5, <2>1, <2>3
    <3>4. \A j \in Id : IsAround(j, s)' <=> /\ players'[j] # NoPlayer
                                            /\ player'[players'[j]].pose
                                            /\ player'[players'[j]].chunk \in Near[c]
      BY <1>3, <3>3 DEF IsAround
    <3> QED BY <3>2, <3>4, SnapshotIsAround DEF Shown
  <2> QED BY <2>2, <2>3
<1> QED BY <1>9, <1>10, SceneStep

-----------------------------------------------------------------------------
(* MOVE *)

(* A player who walks: the others lose it, then see it again if its new     *)
(* chunk is near theirs, and a first MOVE makes it known without a LEAVE.   *)
LEMMA MoveScene ==
    ASSUME IInv, IInv', SceneInv, Observe,
           NEW r \in Socket, NEW c \in Chunk, Move(r, c)
    PROVE  SceneInv'
<1> DEFINE p   == session[r]
           old == player[p].chunk
<1>0. PICK id : id = player[p].id
  OBVIOUS
<1> DEFINE toL == Subscribers(Near[old]) \ {r}
           toJ == Subscribers(Near[c]) \ {r}
           m   == Message("leave", {id}, toL)
           n   == Message("join", {id}, toJ)
<1>1. /\ IsActivePlayer(p)
      /\ player' = [player EXCEPT ![p] = [@ EXCEPT !.chunk = c, !.pose = TRUE,
                                                   !.move = TRUE, !.queued = TRUE]]
      /\ out' = (IF c # old /\ player[p].pose THEN <<m>> ELSE <<>>)
                \o (IF c # old \/ ~player[p].pose THEN <<n>> ELSE <<>>)
      /\ UNCHANGED <<sockets, session, players>>
  BY <1>0 DEF Move, PublishFrom
<1>2. /\ p # NoPlayer /\ p \in Player /\ p \in Active
      /\ player[p] \in PlayerFields /\ id \in Id /\ old \in Chunk
      /\ players[id] = p
      /\ \A j \in Id : players[j] = p => j = id
      /\ \A q \in Socket : session[q] = p => q = r
  BY <1>0, <1>1, SessionPlayer, ActivePlayers DEF IInv, PlayerFields, IsActivePlayer
<1>3. /\ player'[p].chunk = c /\ player'[p].pose = TRUE
      /\ \A q \in Active : q # p => player'[q] = player[q]
  <2>1. /\ player \in [Player -> PlayerFields \cup {Blank}]
        /\ \A q \in Active : q \in Player
    BY DEF IInv, TypeOK, Active
  <2> HIDE DEF p
  <2> QED BY <1>1, <1>2, <2>1 DEF PlayerFields
<1>4. Active' = Active /\ sockets \subseteq Socket
  BY <1>1 DEF Active, IInv, TypeOK
<1>5. \A j \in Id : players[j] # NoPlayer => players[j] \in Active
  BY ActivePlayers DEF IInv
<1> HIDE DEF p, old, toL, toJ
<1>6. /\ \A s : Told(m, s, "leave") = IF s \in toL THEN {id} ELSE {}
      /\ \A s : Told(m, s, "join") = {}
      /\ \A s : Told(n, s, "join") = IF s \in toJ THEN {id} ELSE {}
      /\ \A s : Told(n, s, "leave") = {}
  BY DEF Told, Message
<1> HIDE DEF m, n
<1>7. /\ c # old /\ player[p].pose => out' = <<m, n>>
      /\ ~player[p].pose => out' = <<n>>
      /\ c = old /\ player[p].pose => out' = <<>>
  <2>1. <<m>> \o <<n>> = <<m, n>>
    BY OneAndOne
  <2>2. CASE c # old /\ player[p].pose
    BY <1>1, <2>1, <2>2
  <2>3. CASE ~player[p].pose
    BY <1>1, <2>3
  <2>4. CASE c = old /\ player[p].pose
    BY <1>1, <2>4
  <2> QED BY <2>2, <2>3, <2>4
<1>8. /\ \A s : s \notin toL /\ s \notin toJ => Silent(out', s)
  <2> SUFFICES ASSUME NEW s, s \notin toL, s \notin toJ
               PROVE  Silent(out', s)
    OBVIOUS
  <2>1. CASE out' = <<m, n>>
    <3>1. Len(out') = 2 /\ out'[1] = m /\ out'[2] = n
      BY <2>1
    <3> QED BY <1>6, <3>1 DEF Silent
  <2>2. CASE out' = <<n>>
    <3>1. Len(out') = 1 /\ out'[1] = n
      BY <2>2
    <3> QED BY <1>6, <3>1 DEF Silent
  <2>3. CASE out' = <<>>
    BY <2>3, EmptySilent
  <2> QED BY <1>7, <2>1, <2>2, <2>3
<1>9. ASSUME NEW s \in sockets', session'[s] = NoPlayer
      PROVE  session[s] = NoPlayer /\ Silent(out', s)
  <2>1. s \in Socket /\ session[s] = NoPlayer
    BY <1>1, <1>4, <1>9
  <2>2. s \notin toL /\ s \notin toJ
    BY <2>1, NotListening DEF toL, toJ
  <2> QED BY <1>8, <2>1, <2>2
<1>10. ASSUME NEW s \in settled', session'[s] \in Active'
       PROVE  Deliver(scene[s], s, out') = Shown(s)'
  <2>1. /\ s \in Socket /\ session'[s] = session[s] /\ session[s] # NoPlayer
        /\ session[s] \in Active
    BY <1>1, <1>4, <1>10 DEF Observe
  <2>2. /\ scene[s] = Shown(s)
        /\ player'[session'[s]].chunk = player[session[s]].chunk
    BY <2>1, StillSettled DEF SceneInv
  <2>3. \A j \in Id \ {id} : IsAround(j, s)' <=> IsAround(j, s)
    <3> SUFFICES ASSUME NEW j \in Id \ {id}
                 PROVE  IsAround(j, s)' <=> IsAround(j, s)
      OBVIOUS
    <3>1. players'[j] = players[j] /\ players[j] # p
      BY <1>1, <1>2
    <3>2. players[j] # NoPlayer => player'[players[j]] = player[players[j]]
      BY <1>3, <1>5, <3>1
    <3> QED BY <2>1, <2>2, <3>1, <3>2 DEF IsAround
  <2>4. CASE s = r
    <3>1. session[s] = p /\ c = old /\ Silent(out', s)
      BY <1>3, <1>8, <2>1, <2>2, <2>4 DEF p, old, toL, toJ
    <3>2. ~IsAround(id, s)' /\ ~IsAround(id, s)
      BY <1>1, <1>2, <2>1, <3>1 DEF IsAround
    <3>3. Shown(s)' = Shown(s)
      BY <2>3, <3>2 DEF Shown
    <3> QED BY <2>2, <3>1, <3>3, DeliverNothing
  <2>5. CASE s # r
    <3>1. /\ s \in toL <=> old \in Near[player[session[s]].chunk]
          /\ s \in toJ <=> c \in Near[player[session[s]].chunk]
      BY <1>2, <2>1, <2>5, Listening DEF toL, toJ
    <3>2. session[s] # p
      BY <1>2, <2>1, <2>5
    <3>3. /\ IsAround(id, s) <=> player[p].pose /\ s \in toL
          /\ IsAround(id, s)' <=> s \in toJ
      <4>1. players[id] = p /\ players'[id] = p /\ player[p].chunk = old
        BY <1>1, <1>2 DEF old
      <4> QED BY <1>2, <1>3, <2>1, <2>2, <3>1, <3>2, <4>1 DEF IsAround
    <3>4. Shown(s)' = (Shown(s) \ {id}) \cup (IF s \in toJ THEN {id} ELSE {})
      BY <1>2, <2>3, <3>3 DEF Shown
    <3>5. id \in Shown(s) <=> player[p].pose /\ s \in toL
      BY <1>2, <3>3 DEF Shown
    <3>6. CASE c # old /\ player[p].pose
      <4>1. Deliver(scene[s], s, out')
              = (Shown(s) \ Told(m, s, "leave")) \cup Told(n, s, "join")
        BY <1>6, <1>7, <2>2, <3>6, DeliverTwo
      <4> QED BY <1>6, <3>4, <3>5, <3>6, <4>1
    <3>7. CASE ~player[p].pose
      <4>1. Deliver(scene[s], s, out')
              = (Shown(s) \ Told(n, s, "leave")) \cup Told(n, s, "join")
        BY <1>7, <2>2, <3>7, DeliverOne
      <4> QED BY <1>6, <3>4, <3>5, <3>7, <4>1
    <3>8. CASE c = old /\ player[p].pose
      <4>1. Deliver(scene[s], s, out') = Shown(s)
        BY <1>7, <2>2, <3>8, EmptySilent, DeliverNothing
      <4>2. s \in toL <=> s \in toJ
        BY <3>8 DEF toL, toJ
      <4> QED BY <3>4, <3>5, <3>8, <4>1, <4>2
    <3> QED BY <3>6, <3>7, <3>8
  <2> QED BY <2>4, <2>5
<1> QED BY <1>9, <1>10, SceneStep

-----------------------------------------------------------------------------
(* Every step *)

LEMMA InitScene == PresenceInit => SceneInv
BY DEF PresenceInit, Init, SceneInv

LEMMA NextScene ==
    IInv /\ SceneInv /\ [PresenceNext]_presenceVars => IInv' /\ SceneInv'
<1> SUFFICES ASSUME IInv, SceneInv, [PresenceNext]_presenceVars
             PROVE  IInv' /\ SceneInv'
  OBVIOUS
<1>1. CASE UNCHANGED presenceVars
  <2>1. UNCHANGED vars /\ UNCHANGED <<scene, settled>>
    BY <1>1 DEF presenceVars
  <2>2. IInv'
    BY <2>1, NextIInv
  <2>3. SceneInv'
    BY <2>1 DEF vars, SceneInv, Shown, IsAround, Active
  <2> QED BY <2>2, <2>3
<1>2. CASE PresenceNext
  <2>1. Next /\ Observe /\ IInv'
    BY <1>2, NextIInv DEF PresenceNext
  <2>2. ASSUME NEW s \in Socket, Frame(s)
        PROVE  SceneInv'
    <3>1. CASE Disconnect(s) \/ HelloAgain(s) \/ NotHello(s) \/ MoveOutOfRange(s)
      <4>1. EndSocket(s)
        BY <3>1 DEF Disconnect, HelloAgain, NotHello, MoveOutOfRange
      <4> QED BY <2>1, <4>1, EndSocketScene
    <3>2. CASE Open(s) \/ KeepAlive(s) \/ Elapse(s)
      BY <2>1, <3>2, QuietScene
    <3>3. CASE \E w \in Wallet, c \in Chunk \cup {OutOfRange} : HelloRejected(s, w, c)
      BY <2>1, <3>3, HelloRejectedScene
    <3>4. CASE \E w \in Wallet, c \in Chunk, p \in Player : HelloAccepted(s, w, c, p)
      BY <2>1, <3>4, HelloAcceptedScene
    <3>5. CASE \E c \in Chunk : Move(s, c)
      BY <2>1, <3>5, MoveScene
    <3> QED BY <2>2, <3>1, <3>2, <3>3, <3>4, <3>5 DEF Frame
  <2>3. ASSUME NEW s \in Socket, EndStaleSocket(s)
        PROVE  SceneInv'
    <3>1. EndSocket(s)
      BY <2>3 DEF EndStaleSocket
    <3> QED BY <2>1, <3>1, EndSocketScene
  <2>4. CASE FlushPendingMoves
    BY <2>1, <2>4, QuietScene
  <2>5. CASE ReapStaleSockets
    BY <2>1, <2>5, QuietScene
  <2> QED BY <2>1, <2>2, <2>3, <2>4, <2>5 DEF Next
<1> QED BY <1>1, <1>2

(* The snapshot and the broadcasts add up for any number of clients, ids   *)
(* and chunks: a settled client is never told too much or too little        *)
(* (handle_hello, handle_move, handle_close).                               *)
THEOREM SettledSceneAlwaysExact == PresenceSpec => []SettledSceneIsExact
<1>1. PresenceInit => IInv /\ SceneInv
  BY InitIInv, InitScene DEF PresenceInit
<1>2. ASSUME IInv, SceneInv
      PROVE  SettledSceneIsExact
  <2>1. ASSUME NEW s \in settled, IsActivePlayer(session[s])
        PROVE  scene[s] = Around(s)
    <3>1. s \in Socket /\ session[s] # NoPlayer
      BY <1>2 DEF SceneInv, IInv, TypeOK
    <3>2. session[s] \in Active
      BY <1>2, <2>1, <3>1, SessionPlayer
    <3> QED BY <1>2, <3>1, <3>2, AroundIsShown DEF SceneInv
  <2> QED BY <2>1 DEF SettledSceneIsExact
<1> QED BY <1>1, <1>2, NextScene, PTL DEF PresenceSpec

-----------------------------------------------------------------------------
(* The moves that are sent *)

(* What the flush relies on when it asks an entry for its flags: a retired  *)
(* player reads as not connected, and a player with a move has a pose, so   *)
(* that it was announced.                                                   *)
FlagsInv ==
    /\ \A p \in retired : ~player[p].connected
    /\ \A p \in Active : player[p].move => player[p].pose

(* A step that adds no player and leaves the fields of the others alone.    *)
LEMMA FlagsUntouched ==
    ASSUME FlagsInv,
           Active' \subseteq Active, retired' \subseteq retired,
           \A p \in Active' \cup retired' : player'[p] = player[p]
    PROVE  FlagsInv'
BY DEF FlagsInv

LEMMA EndSocketKeepsFlags ==
    ASSUME IInv, FlagsInv, NEW s \in Socket, EndSocket(s)
    PROVE  FlagsInv'
<1> DEFINE p == session[s]
<1>1. /\ player \in [Player -> PlayerFields \cup {Blank}] /\ retired \subseteq Player
      /\ Active \subseteq Player /\ Active \cap retired = {}
  BY ActivePlayers DEF IInv, TypeOK
<1>2. Active' \subseteq Active
  BY EndSocketTakesIdsOnly, NoPlayerAssumption DEF Active
<1>3. CASE CloseWithoutPlayer(s)
  BY <1>2, <1>3, FlagsUntouched DEF CloseWithoutPlayer
<1>4. ASSUME p \notin Active' \cup retired', retired' \subseteq retired,
             player' = [player EXCEPT ![p] = Blank]
      PROVE  FlagsInv'
  <2>1. \A q \in Active' \cup retired' : player'[q] = player[q]
    BY <1>1, <1>2, <1>4
  <2> QED BY <1>2, <1>4, <2>1, FlagsUntouched
<1>5. CASE CloseActive(s)
  <2>1. p # NoPlayer /\ IsActivePlayer(p) /\ retired' = retired
    BY <1>5 DEF CloseActive, IsActivePlayer
  <2>2. p \in Active /\ player[p].id \in Id /\ p \notin retired
    BY <1>1, <2>1, SessionPlayer, ActivePlayers DEF IInv
  <2>3. players' = [players EXCEPT ![player[p].id] = NoPlayer]
    BY <1>5 DEF CloseActive
  <2>4. \A i \in Id : players[i] = p => i = player[p].id
    BY <2>1, ActivePlayers DEF IInv
  <2>5. players \in [Id -> Player \cup {NoPlayer}]
    BY DEF IInv, TypeOK
  <2>6. p \notin Active'
    BY <2>1, <2>2, <2>3, <2>4, <2>5 DEF Active
  <2> QED BY <1>4, <1>5, <2>1, <2>2, <2>6 DEF CloseActive
<1>6. CASE CloseRetired(s)
  <2>1. p # NoPlayer /\ ~IsActivePlayer(p) /\ UNCHANGED players /\ retired' = retired \ {p}
    BY <1>6 DEF CloseRetired
  <2>2. p \notin Active'
    BY <1>2, <2>1, SessionPlayer
  <2> QED BY <1>4, <1>6, <2>1, <2>2 DEF CloseRetired
<1> QED BY <1>3, <1>5, <1>6 DEF EndSocket

(* What retire_players_with_wallet does to the flags, before anything else  *)
(* of the HELLO.                                                            *)
LEMMA RetirementFlags ==
    ASSUME IInv, FlagsInv, NEW w \in Wallet
    PROVE  /\ \A q \in retired \cup HolderOf(w) : ~FieldsAfterRetiring(w)[q].connected
           /\ \A q \in Active \ HolderOf(w) :
                 FieldsAfterRetiring(w)[q].move => FieldsAfterRetiring(w)[q].pose
           /\ retired \cup HolderOf(w) \subseteq Allocated
           /\ Active \subseteq Allocated
<1>1. /\ HolderOf(w) \subseteq Active /\ Active \subseteq Allocated
      /\ retired \subseteq Allocated /\ Allocated \subseteq Player
      /\ \A q \in Allocated : player[q] \in PlayerFields
  BY DEF HolderOf, Active, Allocated, IInv, TypeOK
<1>2. \A q \in HolderOf(w) : FieldsAfterRetiring(w)[q].connected = FALSE
  BY <1>1 DEF FieldsAfterRetiring, PlayerFields
<1>3. \A q \in Allocated \ HolderOf(w) : FieldsAfterRetiring(w)[q] = player[q]
  BY Retirement
<1> QED BY <1>1, <1>2, <1>3 DEF FlagsInv

LEMMA NextKeepsFlags == IInv /\ FlagsInv /\ [Next]_vars => FlagsInv'
<1> SUFFICES ASSUME IInv, FlagsInv, [Next]_vars PROVE FlagsInv'
  OBVIOUS
<1>1. /\ player \in [Player -> PlayerFields \cup {Blank}] /\ Allocated \subseteq Player
      /\ Active \subseteq Allocated /\ retired \subseteq Allocated
      /\ Active \cap retired = {}
      /\ \A q \in Allocated : player[q] \in PlayerFields
  BY ActivePlayers DEF Active, Allocated, IInv, TypeOK
<1>2. ASSUME UNCHANGED <<players, retired, player>>
      PROVE  FlagsInv'
  BY <1>2 DEF FlagsInv, Active
<1>3. ASSUME NEW s \in Socket, Frame(s)
      PROVE  FlagsInv'
  <2>1. CASE Open(s) \/ KeepAlive(s) \/ Elapse(s)
    BY <1>2, <2>1 DEF Open, KeepAlive, Elapse
  <2>2. CASE Disconnect(s) \/ HelloAgain(s) \/ NotHello(s) \/ MoveOutOfRange(s)
    <3>1. EndSocket(s)
      BY <2>2 DEF Disconnect, HelloAgain, NotHello, MoveOutOfRange
    <3> QED BY <3>1, EndSocketKeepsFlags
  <2>3. ASSUME NEW w \in Wallet, NEW c, HelloRejected(s, w, c)
        PROVE  FlagsInv'
    <3>1. /\ players' = PlayersWithout(w) /\ player' = FieldsAfterRetiring(w)
          /\ retired' = retired \cup HolderOf(w)
      BY <2>3 DEF HelloRejected
    <3>2. Active' \subseteq Active \ HolderOf(w)
      BY <3>1, Retirement, NoPlayerAssumption DEF Active
    <3> QED BY <3>1, <3>2, RetirementFlags DEF FlagsInv
  <2>4. ASSUME NEW w \in Wallet, NEW c \in Chunk, NEW p \in Player, HelloAccepted(s, w, c, p)
        PROVE  FlagsInv'
    <3> DEFINE i == AllocatedId({j \in Id : PlayersWithout(w)[j] # NoPlayer})
    <3>1. /\ p \notin Allocated
          /\ player' = [FieldsAfterRetiring(w) EXCEPT ![p] = NewPlayer(i, w, c)]
          /\ retired' = retired \cup HolderOf(w)
      BY <2>4 DEF HelloAccepted
    <3>2. Active' = (Active \ HolderOf(w)) \cup {p}
      BY <2>4, AcceptedGetsAnId
    <3>3. player'[p].move = FALSE
      BY <3>1, Retirement DEF NewPlayer
    <3>4. \A q \in Allocated : player'[q] = FieldsAfterRetiring(w)[q]
      <4> HIDE DEF i
      <4> QED BY <1>1, <3>1, Retirement
    <3> QED BY <3>1, <3>2, <3>3, <3>4, RetirementFlags DEF FlagsInv
  <2>5. ASSUME NEW c \in Chunk, Move(s, c)
        PROVE  FlagsInv'
    <3> DEFINE p == session[s]
    <3>1. /\ player' = [player EXCEPT ![p] = [@ EXCEPT !.chunk = c, !.pose = TRUE,
                                                       !.move = TRUE, !.queued = TRUE]]
          /\ UNCHANGED <<players, retired>>
          /\ p # NoPlayer /\ IsActivePlayer(p)
      BY <2>5 DEF Move, IsActivePlayer
    <3>2. p \in Active
      BY <3>1, SessionPlayer
    <3> HIDE DEF p
    <3>3. player'[p].pose = TRUE
      BY <1>1, <3>1, <3>2 DEF PlayerFields
    <3>4. \A q \in Allocated \ {p} : player'[q] = player[q]
      BY <1>1, <3>1
    <3>5. Active' = Active
      BY <3>1 DEF Active
    <3> QED BY <1>1, <3>1, <3>2, <3>3, <3>4, <3>5 DEF FlagsInv
  <2> QED BY <1>3, <2>1, <2>2, <2>3, <2>4, <2>5 DEF Frame
<1>4. CASE FlushPendingMoves
  <2>1. \A q \in Allocated : /\ player'[q].pose = player[q].pose
                             /\ player'[q].connected = player[q].connected
                             /\ player'[q].move \in {player[q].move, FALSE}
    BY <1>1, <1>4, FlushKeepsFields
  <2>2. UNCHANGED <<players, retired>> /\ Active' = Active
    BY <1>4 DEF FlushPendingMoves, Active
  <2> QED BY <1>1, <2>1, <2>2 DEF FlagsInv
<1>5. CASE ReapStaleSockets
  BY <1>2, <1>5 DEF ReapStaleSockets
<1>6. ASSUME NEW s \in Socket, EndStaleSocket(s)
      PROVE  FlagsInv'
  BY <1>6, EndSocketKeepsFlags DEF EndStaleSocket
<1>7. CASE UNCHANGED vars
  BY <1>2, <1>7 DEF vars
<1> QED BY <1>3, <1>4, <1>5, <1>6, <1>7 DEF Next

(* Only the flush sends moves. *)
LEMMA OnlyFlushMoves ==
    ASSUME IInv, Next, ~FlushPendingMoves, NEW k \in DOMAIN out'
    PROVE  out'[k].kind # "move"
<1> DEFINE Others(msgs) == \A j \in DOMAIN msgs : msgs[j].kind # "move"
<1>1. \A ids, to : Message("leave", ids, to).kind # "move" /\ Message("join", ids, to).kind # "move"
  BY DEF Message
<1>2. Others(<<>>)
  OBVIOUS
<1>3. \A m : m.kind # "move" => Others(<<m>>)
  OBVIOUS
<1>4. \A m, n : m.kind # "move" /\ n.kind # "move" => Others(<<m>> \o <<n>>)
  BY OneAndOne
<1>5. \A w \in Wallet :
         RetireLeave(w) = <<>> \/ \E m : m.kind # "move" /\ RetireLeave(w) = <<m>>
  BY <1>1, RetirementNews
<1>6. ASSUME NEW s \in Socket, EndSocket(s)
      PROVE  Others(out')
  <2>1. \/ out' = <<>>
        \/ \E ids, to : out' = << Message("leave", ids, to) >>
    BY <1>6 DEF EndSocket, CloseWithoutPlayer, CloseActive, CloseRetired
  <2> HIDE DEF Others
  <2> QED BY <1>1, <1>2, <1>3, <2>1
<1>7. ASSUME NEW s \in Socket, Frame(s)
      PROVE  Others(out')
  <2>1. CASE Open(s) \/ KeepAlive(s) \/ Elapse(s)
    BY <2>1 DEF Open, KeepAlive, Elapse
  <2>2. CASE Disconnect(s) \/ HelloAgain(s) \/ NotHello(s) \/ MoveOutOfRange(s)
    <3>1. EndSocket(s)
      BY <2>2 DEF Disconnect, HelloAgain, NotHello, MoveOutOfRange
    <3> QED BY <1>6, <3>1
  <2>3. ASSUME NEW w \in Wallet, NEW c, HelloRejected(s, w, c)
        PROVE  Others(out')
    <3>1. out' = RetireLeave(w)
      BY <2>3 DEF HelloRejected
    <3> HIDE DEF Others
    <3> QED BY <1>2, <1>3, <1>5, <3>1
  <2>4. ASSUME NEW w \in Wallet, NEW c \in Chunk, NEW p \in Player, HelloAccepted(s, w, c, p)
        PROVE  Others(out')
    <3> DEFINE n == Message("join", Snapshot(rooms', player', c), {s})
    <3>1. out' = RetireLeave(w) \o <<n>>
      BY <2>4 DEF HelloAccepted
    <3>2. n.kind # "move"
      BY <1>1
    <3> HIDE DEF n
    <3>3. <<>> \o <<n>> = <<n>>
      OBVIOUS
    <3> HIDE DEF Others
    <3> QED BY <1>3, <1>4, <1>5, <3>1, <3>2, <3>3
  <2>5. ASSUME NEW c \in Chunk, Move(s, c)
        PROVE  Others(out')
    <3>1. PICK m, n : /\ m.kind # "move" /\ n.kind # "move"
                      /\ \/ out' = <<m>> \o <<n>>
                         \/ out' = <<>> \o <<n>>
                         \/ out' = <<m>> \o <<>>
                         \/ out' = <<>> \o <<>>
      <4> DEFINE p == session[s]
                 m == PublishFrom(s, "leave", p, player[p].chunk)
                 n == PublishFrom(s, "join", p, c)
      <4>1. out' = (IF c # player[p].chunk /\ player[p].pose THEN <<m>> ELSE <<>>)
                   \o (IF c # player[p].chunk \/ ~player[p].pose THEN <<n>> ELSE <<>>)
        BY <2>5 DEF Move
      <4>2. m.kind # "move" /\ n.kind # "move"
        BY <1>1 DEF PublishFrom
      <4> HIDE DEF m, n, p
      <4> QED BY <4>1, <4>2
    <3>2. <<>> \o <<n>> = <<n>> /\ <<m>> \o <<>> = <<m>> /\ <<>> \o <<>> = <<>>
      OBVIOUS
    <3> HIDE DEF Others
    <3> QED BY <1>2, <1>3, <1>4, <3>1, <3>2
  <2> QED BY <1>7, <2>1, <2>2, <2>3, <2>4, <2>5 DEF Frame
<1>8. ASSUME ReapStaleSockets
      PROVE  Others(out')
  BY <1>8 DEF ReapStaleSockets
<1>9. ASSUME NEW s \in Socket, EndStaleSocket(s)
      PROVE  Others(out')
  BY <1>6, <1>9 DEF EndStaleSocket
<1>10. Others(out')
  BY <1>7, <1>8, <1>9 DEF Next
<1> QED BY <1>10

(* An entry that is sent is that of an active player whom every settled     *)
(* listener shows, itself apart.                                            *)
LEMMA SentIsShown ==
    ASSUME IInv, IInv', SceneInv, SceneInv', FlagsInv, Observe, FlushPendingMoves,
           NEW k \in DOMAIN out', NEW s \in settled',
           out'[k].kind = "move", pending[k] \in Allocated,
           s \in out'[k].to, session'[s] \in Active'
    PROVE  out'[k].ids \subseteq scene'[s] \cup {player'[session'[s]].id}
<1>1. /\ UNCHANGED <<players, session, sockets>> /\ Active' = Active
  BY DEF FlushPendingMoves, Active
<1>2. s \in Socket /\ session'[s] = session[s] /\ session[s] \in Active
  BY <1>1 DEF Observe, IInv, TypeOK
<1>3. k \in 1 .. Len(pending) /\ Sendable(k) /\ out'[k] = MoveItem(k)
  <2>1. k \in 1 .. Len(out')
    BY DEF IInv, TypeOK
  <2>2. k \notin Dangling
    BY DEF Dangling
  <2> QED BY <2>1, <2>2, FlushKinds
<1> DEFINE p == pending[k]
<1>4. p \in Allocated /\ player[p].connected /\ player[p].move
  BY <1>3 DEF Sendable
<1>5. out'[k].ids = {player[p].id} /\ out'[k].to = Subscribers(Near[player[p].chunk])
  BY <1>3 DEF MoveItem, PublishToAoi, Message
<1> HIDE DEF p
<1>6. p \in Active /\ player[p].pose
  BY <1>4 DEF FlagsInv, Allocated
<1>7. /\ p \in Player /\ player[p] \in PlayerFields /\ player[p].id \in Id
      /\ player[p].chunk \in Chunk /\ players[player[p].id] = p /\ p # NoPlayer
      /\ \A q \in Active : q \in Player /\ player[q] \in PlayerFields
  BY <1>6, ActivePlayers, NoPlayerAssumption DEF IInv, PlayerFields
<1>8. \A q \in Active : /\ player'[q].id = player[q].id
                        /\ player'[q].pose = player[q].pose
                        /\ player'[q].chunk = player[q].chunk
  BY <1>7, FlushKeepsFields
<1>9. CASE p = session[s]
  BY <1>2, <1>5, <1>6, <1>8, <1>9
<1>10. CASE p # session[s]
  <2>1. player[p].chunk \in Near[player[session[s]].chunk]
    BY <1>2, <1>5, <1>7, Listening
  <2>2. PICK i : i = player[p].id
    OBVIOUS
  <2>3. IsAround(i, s)'
    BY <1>1, <1>2, <1>6, <1>7, <1>8, <1>10, <2>1, <2>2 DEF IsAround
  <2>4. i \in Shown(s)'
    BY <1>7, <2>2, <2>3 DEF Shown
  <2> QED BY <1>5, <2>2, <2>4 DEF SceneInv
<1> QED BY <1>9, <1>10

(* No settled client gets a MOVE item of somebody it was not told of        *)
(* (flush_pending_moves), however long the move waits, whether its player   *)
(* walks on, is retired or reconnects, and whoever has the address of a     *)
(* player that left.  An entry that points to no player at all is excepted. *)
THEOREM MovedPlayersAlwaysKnown == PresenceSpec => MovedPlayersAreKnown
<1>1. PresenceInit => IInv /\ SceneInv /\ FlagsInv
  <2>1. Init => FlagsInv
    <3> SUFFICES ASSUME Init PROVE FlagsInv
      OBVIOUS
    <3>1. Active = {} /\ retired = {}
      BY NoPlayerAssumption DEF Init, Active
    <3> QED BY <3>1 DEF FlagsInv
  <2> QED BY <2>1, InitIInv, InitScene DEF PresenceInit
<1>2. [PresenceNext]_presenceVars => [Next]_vars
  BY DEF PresenceNext, presenceVars
<1>3. ASSUME IInv, IInv', SceneInv, SceneInv', FlagsInv, [PresenceNext]_presenceVars
      PROVE  [\A k \in DOMAIN out', s \in settled' :
                 out'[k].kind = "move" /\ pending[k] \in Allocated
                   /\ s \in out'[k].to /\ IsActivePlayer(session[s])'
                     => out'[k].ids \subseteq scene'[s] \cup {player'[session'[s]].id}
             ]_presenceVars
  <2>1. CASE UNCHANGED presenceVars
    BY <2>1
  <2>2. CASE PresenceNext
    <3> SUFFICES ASSUME NEW k \in DOMAIN out', NEW s \in settled',
                        out'[k].kind = "move", pending[k] \in Allocated,
                        s \in out'[k].to, IsActivePlayer(session[s])'
                 PROVE  out'[k].ids \subseteq scene'[s] \cup {player'[session'[s]].id}
      OBVIOUS
    <3>1. FlushPendingMoves /\ Observe
      BY <1>3, <2>2, OnlyFlushMoves DEF PresenceNext
    <3>2. session'[s] \in Active'
      <4>1. UNCHANGED <<players, session>> /\ Active' = Active
        BY <3>1 DEF FlushPendingMoves, Active
      <4>2. s \in Socket /\ session[s] # NoPlayer
        BY <1>3, <3>1, <4>1 DEF Observe, SceneInv, IInv, TypeOK
      <4>3. session[s] \in Player /\ player[session[s]] \in PlayerFields
        BY <1>3, <4>2, SessionPlayer
      <4>4. player'[session[s]].id = player[session[s]].id /\ player[session[s]].id \in Id
        BY <1>3, <3>1, <4>3, FlushKeepsFields DEF PlayerFields
      <4> QED BY <4>1, <4>2, <4>3, <4>4 DEF IsActivePlayer, Active
    <3> QED BY <1>3, <3>1, <3>2, SentIsShown
  <2> QED BY <1>3, <2>1, <2>2
<1> QED BY <1>1, <1>2, <1>3, NextScene, NextKeepsFlags, PTL DEF PresenceSpec, MovedPlayersAreKnown

=============================================================================
