-------------------------- MODULE GuardianSessions --------------------------
(***************************************************************************)
(* The session core of the Guardian relay: WebSocket connections, the       *)
(* Player objects behind them, the players_ map and the retired_players_    *)
(* list that own those objects, the chunk rooms and chunk topics, the queue *)
(* of players with an unsent move, and the sweep that disconnects silent    *)
(* sockets.                                                                 *)
(*                                                                          *)
(* Every action is one callback of the single uWebSockets event loop and is *)
(* atomic, as a callback is.  The exception is the sweep of                 *)
(* reap_stale_sockets, which ends several sockets in one callback: it is    *)
(* spread over ReapStaleSockets and EndStaleSocket steps, and every other   *)
(* action waits until "stale" is empty again.                               *)
(*                                                                          *)
(* Player is the set of addresses a Player object can have.  A deleted      *)
(* object's address may be given to a new one, which matters because        *)
(* pending_move_players_ holds raw pointers that nobody removes when the    *)
(* object is deleted.                                                       *)
(***************************************************************************)
EXTENDS RoomTable, FiniteSets

CONSTANTS
    Socket,      \* connections (addresses of WebSocket objects)
    Wallet,      \* wallet public keys, the all-zero one excluded
    NoPlayer,    \* the null Player pointer
    Blank,       \* the contents of an address with no Player object
    OutOfRange,  \* any chunk outside the service region
    Near,        \* Near[c]: the chunks in the area of interest of chunk c
    MaxId,       \* local_player_id is in 1 .. MaxId (65535 in the code)
    MaxPlayers,  \* cfg.max_players
    MaxPending,  \* bound of the model: length of pending_move_players_
    MaxSilent    \* bound of the model: connections silent at the same time

Id == 1 .. MaxId

ASSUME NoPlayerAssumption == NoPlayer \notin Player

ASSUME OutOfRangeAssumption == OutOfRange \notin Chunk

(* The offsets of build_aoi_offsets contain (0, 0), and an offset's negation. *)
ASSUME NearAssumption ==
    /\ Near \in [Chunk -> SUBSET Chunk]
    /\ \A c \in Chunk : c \in Near[c]
    /\ \A c, d \in Chunk : d \in Near[c] => c \in Near[d]

(* validate_config: 1 <= max_players <= 65535 *)
ASSUME MaxPlayersAssumption == MaxId \in Nat /\ MaxPlayers \in 1 .. MaxId

VARIABLES
    sockets,   \* SocketRegistry::sockets, the open connections
    session,   \* PerSocketData::player of each connection
    expired,   \* the connections silent for longer than their timeout
    stale,     \* the rest of the sweep that is in progress
    topics,    \* the chunk topics each connection is subscribed to
    players,   \* players_: the active Player with each local_player_id
    retired,   \* retired_players_
    player,    \* what each Player object holds, Blank if it is not allocated
    rooms,     \* rooms_ and the players' seats (RoomTable)
    nextId,    \* next_local_player_id_
    pending,   \* pending_move_players_
    out        \* what the last callback published or sent, in order

vars == <<sockets, session, expired, stale, topics, players, retired, player,
          rooms, nextId, pending, out>>

-----------------------------------------------------------------------------
(* Player objects *)

PlayerFields ==
    [ id        : Id,
      wallet    : Wallet,
      chunk     : Chunk,      \* current_chunk_x, current_chunk_z
      pose      : BOOLEAN,    \* has_pose
      connected : BOOLEAN,
      move      : BOOLEAN,    \* has_pending_move
      queued    : BOOLEAN ]   \* queued_pending_move

Active == {p \in Player : \E i \in Id : players[i] = p}

Allocated == Active \cup retired

(* Faulty variant: somebody has the player's id, so it must be the player. *)
IsActiveById(p) ==
    /\ p # NoPlayer
    /\ players[player[p].id] # NoPlayer

(* is_active_player compares addresses, not only ids: the id of a retired  *)
(* player may belong to another one by now.                                *)
IsActivePlayer(p) ==
    /\ p # NoPlayer
    /\ players[player[p].id] = p

(* The active players that retire_players_with_wallet looks for. *)
HolderOf(w) == {p \in Active : player[p].wallet = w}

-----------------------------------------------------------------------------
(* Messages.  "to" is the set of connections that receive the message,     *)
(* which the topic tree fixes when the message is published.               *)

Message(kind, ids, to) == [kind |-> kind, ids |-> ids, to |-> to]

Subscribers(chunks) == {s \in sockets : topics[s] \cap chunks # {}}

(* publish_to_aoi through App::publish, and through WebSocket::publish,    *)
(* which leaves the publishing connection out.                             *)
PublishToAoi(kind, p, c) == Message(kind, {player[p].id}, Subscribers(Near[c]))

PublishFrom(s, kind, p, c) ==
    Message(kind, {player[p].id}, Subscribers(Near[c]) \ {s})

-----------------------------------------------------------------------------
(* allocate_player_id: the first free id at or after nextId, where ids     *)
(* that only retired players hold count as free and 0 is skipped.          *)

NextId(i) == IF i = MaxId THEN 1 ELSE i + 1

Distance(from, i) == IF i >= from THEN i - from ELSE i - from + MaxId

AllocatedId(used) ==
    CHOOSE i \in Id \ used :
        \A j \in Id \ used : Distance(nextId, i) <= Distance(nextId, j)

-----------------------------------------------------------------------------

Init ==
    /\ sockets = {}
    /\ session = [s \in Socket |-> NoPlayer]
    /\ expired = {}
    /\ stale = {}
    /\ topics = [s \in Socket |-> {}]
    /\ players = [i \in Id |-> NoPlayer]
    /\ retired = {}
    /\ player = [p \in Player |-> Blank]
    /\ rooms = EmptyTable
    /\ nextId = 1
    /\ pending = <<>>
    /\ out = <<>>

(* The open handler. *)
Open(s) ==
    /\ s \notin sockets
    /\ sockets' = sockets \cup {s}
    /\ out' = <<>>
    /\ UNCHANGED <<session, expired, stale, topics, players, retired, player,
                   rooms, nextId, pending>>

-----------------------------------------------------------------------------
(* Closing.  ws->end() drops the connection's subscriptions and runs the   *)
(* close handler before it returns, so every caller's step contains it.    *)

ForgetSocket(s) ==
    /\ sockets' = sockets \ {s}
    /\ session' = [session EXCEPT ![s] = NoPlayer]
    /\ expired' = expired \ {s}
    /\ topics' = [topics EXCEPT ![s] = {}]

(* The close handler of a connection without a player. *)
CloseWithoutPlayer(s) ==
    /\ session[s] = NoPlayer
    /\ ForgetSocket(s)
    /\ out' = <<>>
    /\ UNCHANGED <<players, retired, player, rooms, nextId, pending>>

(* ... of an active one: LEAVE to its area of interest, then remove_player *)
(* deletes the object.  pending_move_players_ is not touched.              *)
CloseActive(s) ==
    LET p == session[s]
    IN  /\ IsActivePlayer(p)
        /\ out' = << Message("leave", {player[p].id},
                             Subscribers(Near[player[p].chunk]) \ {s}) >>
        /\ rooms' = RemovePlayerFromRoom(rooms, p)
        /\ players' = [players EXCEPT ![player[p].id] = NoPlayer]
        /\ player' = [player EXCEPT ![p] = Blank]
        /\ ForgetSocket(s)
        /\ UNCHANGED <<retired, nextId, pending>>

(* Faulty variant: a retired object is never released. *)
CloseRetiredWithoutRelease(s) ==
    /\ session[s] # NoPlayer
    /\ ~IsActivePlayer(session[s])
    /\ ForgetSocket(s)
    /\ out' = <<>>
    /\ UNCHANGED <<players, retired, player, rooms, nextId, pending>>

(* ... of a retired one: release_retired_player deletes the object. *)
CloseRetired(s) ==
    LET p == session[s]
    IN  /\ p # NoPlayer
        /\ ~IsActivePlayer(p)
        /\ retired' = retired \ {p}
        /\ player' = [player EXCEPT ![p] = Blank]
        /\ ForgetSocket(s)
        /\ out' = <<>>
        /\ UNCHANGED <<players, rooms, nextId, pending>>

EndSocket(s) ==
    \/ CloseWithoutPlayer(s)
    \/ CloseActive(s)
    \/ CloseRetired(s)

(* The peer hangs up, or sends a frame the message handler rejects before  *)
(* it looks at the session: a text frame, an unknown type, a bad length.   *)
Disconnect(s) ==
    /\ s \in sockets
    /\ EndSocket(s)
    /\ UNCHANGED stale

-----------------------------------------------------------------------------
(* HELLO *)

(* A second HELLO ends the connection. *)
HelloAgain(s) ==
    /\ s \in sockets
    /\ session[s] # NoPlayer
    /\ EndSocket(s)
    /\ UNCHANGED stale

(* retire_players_with_wallet moves the wallet's session from players_ to  *)
(* retired_players_ and out of its room.  The loop finds at most one       *)
(* session (OneSessionPerWallet).  The functions below are the state it    *)
(* leaves to the rest of handle_hello.                                     *)

(* Faulty variants: the old session keeps its id, its seat, its connected  *)
(* flag, or leaves without a word; one player more than max_players fits.  *)
PlayersWithHolder(w) == players

RoomsWithHolder(w) == rooms

FieldsStillConnected(w) == player

NoRetireLeave(w) == <<>>

CanAcceptOneMore(w) == Cardinality(Active \ HolderOf(w)) <= MaxPlayers

PlayersWithout(w) ==
    [i \in Id |-> IF players[i] \in HolderOf(w) THEN NoPlayer ELSE players[i]]

RoomsWithout(w) ==
    IF HolderOf(w) = {}
    THEN rooms
    ELSE RemovePlayerFromRoom(rooms, CHOOSE p \in HolderOf(w) : TRUE)

FieldsAfterRetiring(w) ==
    [p \in Player |-> IF p \in HolderOf(w)
                      THEN [player[p] EXCEPT !.connected = FALSE]
                      ELSE player[p]]

RetireLeave(w) ==
    IF HolderOf(w) = {}
    THEN <<>>
    ELSE LET p == CHOOSE q \in HolderOf(w) : TRUE
         IN  << PublishToAoi("leave", p, player[p].chunk) >>

CanAcceptPlayerAfterRetiring(w) ==
    Cardinality(Active \ HolderOf(w)) < MaxPlayers

(* HELLO refused because the server is full or the chunk out of range: the *)
(* wallet's other session, if it has one, is already retired by then.      *)
HelloRejected(s, w, c) ==
    /\ s \in sockets
    /\ session[s] = NoPlayer
    /\ c = OutOfRange \/ ~CanAcceptPlayerAfterRetiring(w)
    /\ players' = PlayersWithout(w)
    /\ retired' = retired \cup HolderOf(w)
    /\ player' = FieldsAfterRetiring(w)
    /\ rooms' = RoomsWithout(w)
    /\ out' = RetireLeave(w)
    /\ ForgetSocket(s)
    /\ UNCHANGED <<stale, nextId, pending>>

NewPlayer(i, w, c) ==
    [ id |-> i, wallet |-> w, chunk |-> c, pose |-> FALSE,
      connected |-> TRUE, move |-> FALSE, queued |-> FALSE ]

(* collect_snapshot: the players with a pose in the area of interest.  The *)
(* newcomer has no pose yet, so echo_self makes no difference here.        *)
Snapshot(t, fields, c) ==
    {fields[q].id : q \in {q \in UNION {Occupants(t, d) : d \in Near[c]} : fields[q].pose}}

HelloAccepted(s, w, c, p) ==
    LET i == AllocatedId({j \in Id : PlayersWithout(w)[j] # NoPlayer})
    IN  /\ s \in sockets
        /\ session[s] = NoPlayer
        /\ c \in Chunk
        /\ CanAcceptPlayerAfterRetiring(w)
        /\ p \notin Allocated
        /\ players' = [PlayersWithout(w) EXCEPT ![i] = p]
        /\ retired' = retired \cup HolderOf(w)
        /\ player' = [FieldsAfterRetiring(w) EXCEPT ![p] = NewPlayer(i, w, c)]
        /\ rooms' = Seat(RoomsWithout(w), p, c)
        /\ nextId' = NextId(i)
        /\ session' = [session EXCEPT ![s] = p]
        /\ topics' = [topics EXCEPT ![s] = @ \cup {c}]
        /\ expired' = expired \ {s}
        /\ out' = RetireLeave(w) \o
                  << Message("join", Snapshot(rooms', player', c), {s}) >>
        /\ UNCHANGED <<sockets, stale, pending>>

-----------------------------------------------------------------------------
(* Frames of a connection that needs a session *)

(* MOVE, DIG, CHAT, ... without an active session: NOT_HELLO and close. *)
NotHello(s) ==
    /\ s \in sockets
    /\ ~IsActivePlayer(session[s])
    /\ EndSocket(s)
    /\ UNCHANGED stale

(* A frame of an active session that changes nothing here except last_seen: *)
(* PONG, DIG, CHAT, ..., and a MOVE refused by its rate limit.              *)
KeepAlive(s) ==
    /\ s \in sockets
    /\ IsActivePlayer(session[s])
    /\ s \in expired
    /\ expired' = expired \ {s}
    /\ out' = <<>>
    /\ UNCHANGED <<sockets, session, stale, topics, players, retired, player,
                   rooms, nextId, pending>>

(* A MOVE or DIG to a chunk out of range ends an active session. *)
MoveOutOfRange(s) ==
    /\ s \in sockets
    /\ IsActivePlayer(session[s])
    /\ EndSocket(s)
    /\ UNCHANGED stale

(* Faulty variant: the old chunk's topic is never unsubscribed. *)
TopicsKeepingOld(s, p, c) == [topics EXCEPT ![s] = @ \cup {c}]

TopicsAfterMove(s, p, c) ==
    IF c # player[p].chunk
    THEN [topics EXCEPT ![s] = (@ \ {rooms.room[p]}) \cup {c}]
    ELSE topics

(* handle_move, accepted: LEAVE for the old area of interest, the topic and *)
(* room change, the queued move (update_player_move), JOIN for the new one. *)
Move(s, c) ==
    LET p       == session[s]
        changed == c # player[p].chunk
        first   == ~player[p].pose
    IN  /\ s \in sockets
        /\ IsActivePlayer(p)
        /\ player[p].connected
        /\ player[p].queued \/ Len(pending) < MaxPending
        /\ topics' = TopicsAfterMove(s, p, c)
        /\ rooms' = IF changed
                    THEN Seat(RemovePlayerFromRoom(rooms, p), p, c)
                    ELSE rooms
        /\ player' = [player EXCEPT ![p] = [@ EXCEPT !.chunk = c, !.pose = TRUE,
                                                     !.move = TRUE, !.queued = TRUE]]
        /\ pending' = IF player[p].queued THEN pending ELSE Append(pending, p)
        /\ expired' = expired \ {s}
        /\ out' = (IF changed /\ ~first
                   THEN << PublishFrom(s, "leave", p, player[p].chunk) >>
                   ELSE <<>>)
                  \o
                  (IF changed \/ first
                   THEN << PublishFrom(s, "join", p, c) >>
                   ELSE <<>>)
        /\ UNCHANGED <<sockets, session, stale, players, retired, nextId>>

-----------------------------------------------------------------------------
(* flush_pending_moves *)

(* Only the first entry of a player is sent: it clears has_pending_move. *)
FirstEntry(i) == \A j \in 1 .. i - 1 : pending[j] # pending[i]

Sendable(i) ==
    LET p == pending[i]
    IN  /\ p \in Allocated
        /\ player[p].connected
        /\ player[p].move
        /\ FirstEntry(i)

(* Entries that point to a deleted object.  Reading one is undefined: what *)
(* its flags and its pending_move look like is anything the memory holds.  *)
Dangling == {i \in 1 .. Len(pending) : pending[i] \notin Allocated}

(* What is published for an entry that is skipped. *)
NoItem == Message("nothing", {}, {})

MoveItem(i) ==
    PublishToAoi("move", pending[i], player[pending[i]].chunk)

(* If the flags read true, the item goes into the batches like any other,  *)
(* with any id, around any chunk: one out of range reaches a part of the   *)
(* region, or none of it.                                                  *)
GarbageItem(i, chunks) == Message("move", {i}, Subscribers(chunks))

GarbageReads ==
    [Dangling -> {NoItem} \cup
                 {GarbageItem(i, chunks) : i \in Id, chunks \in SUBSET Chunk}]

(* What the flush publishes, entry by entry. *)
FlushedItems(garbage) ==
    [i \in 1 .. Len(pending) |-> IF i \in Dangling THEN garbage[i]
                                ELSE IF Sendable(i) THEN MoveItem(i)
                                ELSE NoItem]

(* Faulty variant: a sent player still looks queued. *)
FieldsStillQueued ==
    [p \in Player |-> IF \E i \in 1 .. Len(pending) : pending[i] = p /\ Sendable(i)
                      THEN [player[p] EXCEPT !.move = FALSE]
                      ELSE player[p]]

FieldsAfterFlush ==
    [p \in Player |-> IF \E i \in 1 .. Len(pending) : pending[i] = p /\ Sendable(i)
                      THEN [player[p] EXCEPT !.move = FALSE, !.queued = FALSE]
                      ELSE player[p]]

FlushPendingMoves ==
    /\ pending # <<>>
    /\ \E garbage \in GarbageReads : out' = FlushedItems(garbage)
    /\ player' = FieldsAfterFlush
    /\ pending' = <<>>
    /\ UNCHANGED <<sockets, session, expired, stale, topics, players, retired,
                   rooms, nextId>>

-----------------------------------------------------------------------------
(* Time and the sweep *)

(* The connection stays silent for longer than the timeout that applies to *)
(* it: idle_timeout_sec since last_seen_ms, hello_timeout_sec since         *)
(* opened_ms while it has no player.                                        *)
Elapse(s) ==
    /\ s \in sockets \ expired
    /\ Cardinality(expired) < MaxSilent
    /\ expired' = expired \cup {s}
    /\ out' = <<>>
    /\ UNCHANGED <<sockets, session, stale, topics, players, retired, player,
                   rooms, nextId, pending>>

(* Faulty variant: connections that never said HELLO are not swept. *)
StaleSessions == {s \in sockets : s \in expired /\ IsActivePlayer(session[s])}

StaleSockets ==
    {s \in sockets : /\ s \in expired
                     /\ session[s] = NoPlayer \/ IsActivePlayer(session[s])}

ReapStaleSockets ==
    /\ StaleSockets # {}
    /\ stale' = StaleSockets
    /\ out' = <<>>
    /\ UNCHANGED <<sockets, session, expired, topics, players, retired, player,
                   rooms, nextId, pending>>

EndStaleSocket(s) ==
    /\ s \in stale
    /\ stale' = stale \ {s}
    /\ EndSocket(s)

-----------------------------------------------------------------------------

Frame(s) ==
    \/ Open(s)
    \/ Disconnect(s)
    \/ HelloAgain(s)
    \/ \E w \in Wallet, c \in Chunk \cup {OutOfRange} : HelloRejected(s, w, c)
    \/ \E w \in Wallet, c \in Chunk, p \in Player : HelloAccepted(s, w, c, p)
    \/ NotHello(s)
    \/ KeepAlive(s)
    \/ MoveOutOfRange(s)
    \/ \E c \in Chunk : Move(s, c)
    \/ Elapse(s)

LoopIsFree == stale = {}

Next ==
    \/ LoopIsFree /\ \E s \in Socket : Frame(s)
    \/ LoopIsFree /\ FlushPendingMoves
    \/ LoopIsFree /\ ReapStaleSockets
    \/ \E s \in Socket : EndStaleSocket(s)

(* The ticker thread defers the flush and the sweep to the loop for as     *)
(* long as the process runs.  The loop runs deferred callbacks in the order *)
(* they came, so neither can keep the other out for ever (hence strong      *)
(* fairness: each is disabled while a sweep is in progress), and runs each  *)
(* to its end.  Nothing obliges a client to do anything.                    *)
Fairness ==
    /\ SF_vars(LoopIsFree /\ FlushPendingMoves)
    /\ SF_vars(LoopIsFree /\ ReapStaleSockets)
    /\ \A s \in Socket : WF_vars(EndStaleSocket(s))

Spec == Init /\ [][Next]_vars /\ Fairness

-----------------------------------------------------------------------------
(* Properties *)

Messages ==
    [ kind : {"leave", "join", "move", "nothing"},
      ids  : SUBSET Id,
      to   : SUBSET Socket ]

(* Ids stay in 1 .. MaxId, every object that is owned holds the fields of  *)
(* a Player, and what is sent names ids and goes to connections.           *)
TypeOK ==
    /\ sockets \in SUBSET Socket
    /\ session \in [Socket -> Player \cup {NoPlayer}]
    /\ expired \in SUBSET Socket
    /\ stale \in SUBSET Socket
    /\ topics \in [Socket -> SUBSET Chunk]
    /\ players \in [Id -> Player \cup {NoPlayer}]
    /\ retired \in SUBSET Player
    /\ player \in [Player -> PlayerFields \cup {Blank}]
    /\ \A p \in Allocated : player[p] \in PlayerFields
    /\ rooms \in RoomTables
    /\ nextId \in Id
    /\ pending \in Seq(Player)
    /\ out \in Seq(Messages)

(* A wallet has at most one active session, whatever connections send      *)
(* HELLO with it and in whatever order they close.                         *)
OneSessionPerWallet ==
    \A p, q \in Active : player[p].wallet = player[q].wallet => p = q

(* players_ is keyed by the id its player carries, and owns only players   *)
(* that are connected and not retired: an id that is reused while its last *)
(* holder is retired belongs to one object.                                *)
PlayerMapConsistent ==
    \A i \in Id : players[i] # NoPlayer =>
        /\ player[players[i]].id = i
        /\ player[players[i]].connected
        /\ players[i] \notin retired

(* Every Player object, active or retired, is reachable from exactly one   *)
(* open connection, and no connection holds a deleted one: the close       *)
(* handler neither leaks an object nor leaves PerSocketData dangling.      *)
SessionOwnership ==
    /\ \A s \in Socket : session[s] # NoPlayer =>
            /\ s \in sockets
            /\ session[s] \in Allocated
            /\ \A r \in Socket : session[r] = session[s] => r = s
    /\ \A p \in Allocated : \E s \in sockets : session[s] = p

(* The rooms hold exactly the active players, each in the room of its own  *)
(* current chunk, with its seat bookkeeping intact; retired and deleted    *)
(* players are in none, so no broadcast or snapshot reaches for them.      *)
RoomsHoldActivePlayers ==
    /\ RoomHasSeat(rooms)
    /\ SeatHasRoom(rooms)
    /\ NoEmptyRoom(rooms)
    /\ \A p \in Player :
          rooms.room[p] = IF p \in Active THEN player[p].chunk ELSE NoRoom

(* An active session listens to the topic of its room and to no other      *)
(* chunk; a connection that never had a session listens to none.           *)
SubscriptionFollowsRoom ==
    \A s \in Socket :
        /\ session[s] = NoPlayer => topics[s] = {}
        /\ IsActivePlayer(session[s]) => topics[s] = {rooms.room[session[s]]}

(* The flags of update_player_move tell the truth: a player whose move     *)
(* waits is flagged as queued and is in the queue, so no later MOVE is     *)
(* swallowed for want of a queue entry.                                    *)
WaitingMoveIsQueued ==
    \A p \in Active :
        /\ player[p].move => player[p].queued
        /\ player[p].queued => \E i \in 1 .. Len(pending) : pending[i] = p

(* max_players bounds the active players, retirement included. *)
WithinMaxPlayers == Cardinality(Active) <= MaxPlayers

(* Seen by wallet, the sessions are a directory of who is where, and every *)
(* step of the server concerns one wallet: no interleaving of HELLOs,      *)
(* moves and closes takes somebody else's seat away or grants two.         *)
Directory ==
    INSTANCE WalletDirectory WITH
        Offline <- NoRoom,
        where   <- [w \in Wallet |->
                      LET seats == {c \in Chunk : \E p \in Occupants(rooms, c) :
                                                     player[p].wallet = w}
                      IN  IF seats = {} THEN NoRoom ELSE CHOOSE c \in seats : TRUE]

ImplementsDirectory == Directory!Spec

(* Closing the connection of a retired player never touches the player     *)
(* that replaced it, even when that one holds the same id.                 *)
RetiredCloseIsHarmless ==
    [][\A s \in sockets :
          session[s] \in retired /\ s \notin sockets'
              => UNCHANGED <<players, rooms>>]_vars

(* A queued move of an active player is sent, or the player leaves. *)
WaitingMoveIsSent ==
    \A p \in Player :
        p \in Active /\ player[p].move ~> ~(p \in Active /\ player[p].move)

(* A connection that is silent for too long is closed or speaks again, if  *)
(* it has an active session or never said HELLO (a retired one is exempt). *)
SilentSessionsEnd ==
    \A s \in Socket :
        s \in expired /\ session[s] \notin retired
            ~> ~(s \in expired /\ session[s] \notin retired)

(* "Disconnect silent sockets": config.cpp says it of every connection. *)
SilentSocketsEnd ==
    \A s \in Socket : s \in expired ~> s \notin expired

=============================================================================
