# Nicechunk Guardian: verification project

Guardian is a C++ WebSocket relay for one region of a voxel world.  It keeps no
world of its own: it authenticates nothing beyond a wallet key in `HELLO`, keeps
who is where, and relays moves, digs, chat, equipment and names to the clients
whose chunk is in the sender's *area of interest* (AOI).  It also keeps a small
registry of buildings.  This directory holds TLA+ modules of that program, TLC
configurations that check them on small instances, and TLAPS proofs.

All paths below are relative to `src/Guardian/src/`.

## 1. Inventory

| Component | State | Operations | Hard behaviour | What makes it correct |
|---|---|---|---|---|
| **Chunk rooms** (`guardian.cpp` 415-469) | `rooms_`: chunk key -> `ChunkRoom` with a vector of raw `Player*`; in each player `current_chunk_room`, `index_in_chunk_vector` | get-or-create, add, remove (swap with last and pop, erase an empty room), transfer | another player's index changes when one leaves | pointers, indexes and vectors agree; no empty rooms; behaves as plain set membership |
| **Sessions** (`guardian.cpp` 115-154, 368-413; `app.cpp` 115-214, 598-698) | `players_` (id -> owned object), `retired_players_` (owned objects without an id), `next_local_player_id_`, `PerSocketData::player`, `SocketRegistry` | open, `HELLO` (retire, accept or refuse), close, release | several connections with one wallet; ids reused while their last holder lives; one close handler for three kinds of connection | one active session per wallet; every object owned once and reachable from one connection; capacity |
| **Move relay** (`guardian.cpp` 471-488, 582-624; `app.cpp` 216-285) | `pending_move_players_` (raw pointers), `pending_move`, two flags per player, topic subscriptions | `MOVE`, chunk transfer, flush | the queue outlives the players in it; JOIN, LEAVE and MOVE reach clients by different ways | topic follows room; nobody's move is swallowed; no move under a foreign id |
| **Sweep** (`app.cpp` 545-570) | `last_seen_ms`, `opened_ms` | collect, end each | ends run close handlers while a list of pointers is being walked | silent connections end; the list stays current |
| **Rate limits** (`player.cpp`) | four window/counter pairs per player | allow or refuse | fixed window | at most the limit per window |
| **Digs** (`app.cpp` 287-404, `guardian.cpp` 508-513) | last sequence number | `DIG`, `DIG_BATCH` | sequence consumed before the checks | a repeated edit is not relayed again; a batch is relayed whole or not at all |
| **Chat, names, equipment** (`app.cpp` 406-480) | `display_name`, equipment fields | update, relay, snapshots | what a client that walks is told | snapshots carry the latest value |
| **Building registry** (`guardian.cpp` 18-100, 156-366; `app.cpp` 482-543, 575-597) | records by id, revision, hash, a file | upsert/remove, announce, load, save, pages, digest, ETag | crash between save steps; silent save failure; whole-file rejection on load | equal revisions mean equal contents; what is loaded is what was saved |
| **Chunk arithmetic and AOI** (`chunk.cpp`, `aoi.cpp`) | none | keys, local coordinates, indexes, offsets | 8- and 32-bit widths | round trips; one index per chunk |
| **Loop and ticker** (`app.cpp` 33-101, 701-798) | four timers, callbacks deferred to the loop, the flag `running` | flush, heartbeat, sweep, screen or statistics; start, failure to listen, join | three threads; delays of ticker, loop and network add up against timeouts one second apart | a client that answers is kept, a silent one goes in time; moves leave in time; the process serves or ends |
| **Dashboard** (`tui.cpp`, `app.cpp` 43-101, 744-784) | `TuiInput::commands_`, selected section and row | push, drain, apply, render | a queue of 64 between two threads, applied by a third | no command lost once accepted, doubled or overtaken |
| **Codec** (`protocol.cpp`, `protocol.h`, dispatch in `app.cpp` 598-676) | none | encode, decode, dispatch | two hands wrote the same layout; counts and lengths at their limits | what is accepted is what was sent; what is said differently is told apart |
| **Manifest transfer** (`app.cpp` 482-543, `guardian.cpp` 256-275) | the buffer of a connection, the pages that a client collects | digest, request, pages, drop, deferred end, reconnect | no result of a send is looked at; frames over the limit are dropped | no manifest is put together of parts that do not belong together; a client catches up |
| **Configuration** (`config.cpp`) | `Config` | parse, wizard, validate | ranges | what validation promises |
| **Metrics, logging** | counters | count, print | none | no decision reads them |
| **uWebSockets** (external) | sockets, topics, buffers, deferred callbacks | subscribe, publish, send, end, defer | `end` runs the close handler before it returns; a send over the limit is dropped | assumed as stated in section 3 |

How they interact: every handler runs on one event loop.  A `HELLO` first
retires the wallet's session (rooms, `players_`), then creates a player (ids,
rooms) and subscribes the connection to the topic of its room.  A `MOVE` changes
room and topic and queues a move; the ticker thread defers a flush of that queue
to the loop, and a sweep once per second.  Broadcasts go to the topics of the
chunks around the sender's chunk; the topic tree delivers them to whoever is
subscribed.  The hazards of all this are listed with their lines in
`PROJECT.json`.

## 2. Modules

| Module | Models | Notes |
|---|---|---|
| `RoomTable` | the room functions of `guardian.cpp` as operators on a record (`chunks`, `players`, `room`, `index`) | used by every module that owns rooms |
| `ChunkRooms` | the rooms as a state machine: `CreateIn`, `RemovePlayer`, `MovePlayerChunk` | implements `RoomMembership` |
| `RoomMembership` | abstract: a set of occupants per chunk | `Enter`, `Exit`, `Transfer` |
| `GuardianSessions` | the session core: connections, objects, ids, rooms, topics, move queue, sweep | one action per callback of the loop |
| `WalletDirectory` | abstract: each wallet is offline or present in one chunk | implemented by `GuardianSessions` |
| `Presence` | `GuardianSessions` and what each client has been told | client side is external |
| `Profiles` | equipment and names: what the server keeps, what its snapshots and broadcasts tell the clients | a player is one session; the client side is external |
| `RateLimit` | `rate_limit_allow` as operators on a limiter | used by `DigRelay` |
| `DigRelay` | `handle_dig` and `handle_dig_batch` for one session, against a clock | the client and its numbering are external |
| `BuildingRecords` | the registry as a value: which record supersedes which, which rectangles overlap or meet the region, what `upsert_building` and `load_building_manifest` take | used by `BuildingManifest` |
| `BuildingManifest` | the registry as a service: memory, file, temporary file, crashes, restarts, clients | one action per point at which a restart can see a difference |
| `DurableManifest` | abstract: one manifest, commits, clients that are told of it and fetch it | implemented by `BuildingManifest` when writes succeed |
| `EventLoop` | `run_app_instance`: the ticker thread, the callbacks it defers, the thread of the keyboard, start and end, and the time they give a session | one client stands for all |
| `Frames` | `protocol.cpp` and the dispatch on a frame's type: every layout, byte by byte | one message at a time; encoders of clients are external |
| `Batches` | how moves, digs and records are divided into frames | used by `Frames` and `ManifestTransfer` |
| `ManifestTransfer` | digests, requests and pages between the Guardian and one client, through a buffer with a limit | the client and the buffer are external |
| `ChunkGrid` | `chunk.cpp`, `aoi.cpp` and `local_to_global` with the widths of their integers | one player in any accepted configuration |
| `MC...` | values of the constants, views, symmetry | for TLC only |
| `..._proofs` | TLAPS proofs about the module of that name (`Chunks_proofs`: about `ChunkRooms` and `ChunkGrid`; `GuardianSessions_proofs`: also about `Presence`; `Wire_proofs`: about `Frames` and `ManifestTransfer`) | section 5 |

The arrows between them: `ChunkRooms` and `GuardianSessions` are built on
`RoomTable`; `Presence` extends `GuardianSessions`; `DigRelay` extends
`RateLimit`; `BuildingManifest` extends `BuildingRecords`; `Frames` and
`ManifestTransfer` extend `Batches`.  `GuardianSessions` and `Profiles` take the
area of interest as a constant `Near` that is reflexive and symmetric, which
`ChunkGrid` shows of the real one for radii up to 127.  `GuardianSessions` says
what the callbacks of the ticker do to all sessions and assumes that each is
deferred again and again; `EventLoop` is where they come from, with the clock
and the delays, and what they do to one session.  `ManifestTransfer` opens what
`BuildingManifest` takes as one step, the answer to a request.

`MCChunks`, `MCWire` and `MCEventLoop` each put two parts into one run: a
variable `part`, chosen at the start, says which of them a behaviour is of.  In
the first two the other part does not move; `MCEventLoop` divides the behaviours
of one module, into those where no key is pressed (`client`) and those where no
client comes (`keyboard`), each with an end of the clock of its own, since
commands and sessions have no state in common.

### Correspondence

`GuardianSessions` keeps one variable per data structure: `players`, `retired`,
`rooms`, `nextId`, `pending` are `players_`, `retired_players_`, `rooms_`,
`next_local_player_id_`, `pending_move_players_`; `session[s]` is
`PerSocketData::player`; `sockets` is the registry; `player[p]` is the object at
address `p`, `Blank` when there is none.  `topics` is the subscription state of
uWebSockets.  `expired` abstracts the clocks: a connection is in it when the
timeout that applies to it has passed since `last_seen_ms` or `opened_ms`.
`out` is what the last callback published, with the set of receivers fixed at
that moment; no action reads it.

Actions: `Open`; `HelloAgain`, `HelloRejected`, `HelloAccepted` (`handle_hello`,
each with the whole retirement of the old session inside); `Move` and
`MoveOutOfRange` (`handle_move`); `NotHello` (any session frame without an
active session); `KeepAlive` (any other accepted frame); `Disconnect` (the peer
hangs up, or a frame is rejected before the session is looked at);
`FlushPendingMoves`; `ReapStaleSockets` with `EndStaleSocket`.  Ending a
connection always contains the close handler, which has three branches:
`CloseWithoutPlayer`, `CloseActive`, `CloseRetired`.

`Profiles` keeps `equipment` and `name` per player as in `Player`, and for every
client `view[v][q]`, its entry for `q`.  `Hello` holds the three snapshots,
`Move` the LEAVE, the JOIN and the copy of the equipment, `Leave` is the close
handler or the retirement by another `HELLO`.

`DigRelay` has `limiter` and `lastSeq` as the server's state; `next`, `again` and
`sent` are the client's, and `copy` says whether its last frame was one that had
passed before.  The client repeats what was refused for its rate (`SendAgain`),
as often as it is refused, and may send its last single edit again although it
was taken (`Repeat`).  A `DIG` is a batch of one edit: the two handlers make the
same checks in the same order, and differ in how they pack what they send.
`Receive` is a whole handler, with `RateLimited`, `Failed` and `Relayed` as its
ways out.  Whether a target is near, far or outside of the region may differ
each time a frame arrives, since the player walks in between.

`BuildingManifest` divides the callback of `BUILDING_ANNOUNCE` into `Announce`
(`upsert_building` up to the save), `OpenTemporary`, `WriteTemporary`,
`RenameTemporary` and `Publish`, because the process may die in between;
`phase` keeps other callbacks out, since the loop runs them one at a time.
`Start` is the constructor with `load_building_manifest`.  Rectangles are tested
as in the code (`Overlaps`, `MeetsRegion`), with sums that never overflow, since
the code computes them in 64 bits from numbers of 32; `HalfWord` says how wide
those are, and `Center`, `RegionChunks` and `chunk_size_blocks` where the region
is.  What the tests are for is said by the blocks a building stands on
(`Ground`, `InRegion`).  The hash is the registry it was
computed from, that is, SHA-256 is taken to have no collisions.  `WriteOutcomes`
names what may become of a write: whole (`written`), noticed by the stream and
given up in silence (`refused`), noticed only by the destructor of the stream,
so that a file that was cut short is renamed (`cut`), or a `rename` that fails
(`unrenamed`).

`EventLoop` counts time in ticks, `Second` of them to a second.  `last` holds
the four timestamps of the ticker's lambda, `looked` its `t`, and `test` the
place in the chain of `if`s, since the main thread may clear `running` between
two of them.  A callback that is deferred is a record of the job, the time and,
for the screen, the commands that `drain` took.  `seen` is `last_seen_ms`;
`heard` is when the client was really heard of, and no action reads it.
`phase` is the main thread: `listen` calls back in `ListenSucceeds` or
`ListenFails`, and `Exit` is the return from `join`.  A PING and its PONG are a
member of `pings` while they are under way.

`Frames` keeps the message that a client meant, its frame, what the Guardian
made of it, and what it says with which frames.  A layout of an encoder is a
list of fields in the order of its writes, a decoder a table of offsets, as in
the source; the two are compared by the properties and share no definition.
Two tests of the handlers are part of the decoder: the kind of the equipment, and
the wallet of a `HELLO`, which must not be all zero.
`ClientSendsOther` changes a frame into one that no encoder made: cut, grown,
with another byte or type.

`ManifestTransfer` divides a callback that sends several frames into one step
for each (`outbox`), because the kernel takes bytes in between and the buffer
decides about the next frame; no other callback begins before it is empty.
A frame counts with its WebSocket header (`Framed`).

`ChunkGrid` starts in any configuration that `validate_config` accepts.
`Signed` is a cast to a signed type and `%` one to an unsigned type.

Decisions worth knowing:

* A callback is one step.  The sweep is the exception: it ends several
  connections in a row, so it is one step that collects and one per connection,
  and `LoopIsFree` keeps every other callback out until it is done.
* Addresses are reused.  `p \notin Allocated` is all that `HelloAccepted` asks
  of a new object, so an entry of `pending` may point to a later object at the
  same address.  An entry that points to no object is read by the flush anyway,
  as in the code (`guardian.cpp:598`); that read is undefined behaviour, and the
  model relays nothing or a MOVE item with an arbitrary id to an arbitrary
  audience (`GarbageItem`).  A crash of the process at that point ends every
  behaviour and is left out, and so are the two flags that the flush clears in
  the freed memory.
* The first free id is found by scanning upwards from `nextId` with a wrap; the
  scan is modelled by its result (`AllocatedId`).
* In `flush_pending_moves` the items of one player go out in every topic of its
  AOI in batches of at most 255; the model publishes one item per player.
* The AOI is a constant relation `Near`, assumed reflexive and symmetric, which
  the square of offsets in `build_aoi_offsets` is while the radius fits `int8_t`.
* Positions, names, equipment, hashes, metrics and logs are not in the state of
  `GuardianSessions`; positions are in `Frames`, names and equipment in
  `Profiles` and `Frames`.
* A byte of `Frames` has `Base` values.  Widths, sizes and offsets are those of
  the code, so a frame has as many bytes as in the program.

## 3. Fairness and assumptions about the outside

The ticker thread defers a flush every `1000 / movement_broadcast_hz` ms and a
sweep every second as long as the process runs (`app.cpp` 715-742), and the loop
runs deferred callbacks in the order they came.  So neither can be put off for
ever although both are disabled during a sweep: strong fairness of
`FlushPendingMoves` and of `ReapStaleSockets`.  A sweep that has begun is a
`for` loop: weak fairness of `EndStaleSocket`.  Nothing is assumed of clients.
From uWebSockets we take that callbacks do not interleave, that `publish`
delivers to those subscribed at that moment in order, and that `end` drops the
connection's subscriptions and runs the close handler before it returns.

`EventLoop` assumes bounds in place of fairness, since its promises are about
time: the ticker looks at the clock at least every `TickLag`, a deferred callback
waits at most `LoopLag`, a PING and its answer travel at most `ReplyLag`, and
`Pass` lets no time go by beyond them.  `LagAssumption` says that the three add
up to no more than a second, which is the least distance that `validate_config`
leaves between `heartbeat_interval_sec` and `idle_timeout_sec`.  Nothing in the
code enforces it: a loop that is blocked for longer (a slow disk in
`save_building_manifest`, say) may reap clients that answer, and that is the
condition under which the program works.  Weak fairness of the threads is for
`StartServesOrExits` alone.

`ManifestTransfer` assumes that the loop runs and is polled, that the kernel
takes more when the client reads, and that a client reads, asks when it has
heard of a revision it does not have, and connects again.  Registry changes and
breaks of the network need not happen.  From uWebSockets we take that a send
while more than `maxBackpressure` is buffered is dropped, that it closes the
connection (after the callback) if and only if `closeOnBackpressureLimit` is
set, and that any other send is tried at once behind what is buffered.  Frames
reach the kernel whole or count as buffered.

## 4. Runs

| Run | Shows | Bounds |
|---|---|---|
| `chunks` | rooms: seats, refinement of `RoomMembership`; numbers: exact coordinates, keys, indexes and broadcasts | 4 players, 3 chunks: swap-and-pop with the leaver first, last and in the middle of a vector; bytes of 8 values, words of 32, every radius, 4 regions, two of them across the ends of the words |
| `sessions` | the safety of the session core, refinement of `WalletDirectory` | 3 connections, 3 objects, 3 wallets, 2 chunks, 3 ids, capacity 2, queue of 2; no connection falls silent (the sweep is in `sessions_live`) |
| `sessions_live` | queued moves are sent; silent connections end | 2 connections, 2 wallets, 1 chunk, 2 silent at once, so a sweep ends two |
| `presence` | what clients are told | 3 connections, 2 wallets, 3 chunks in a row with radius 1: two of them do not see each other |
| `silent_sockets` | (violation) see section 6 | as `sessions_live` |
| `profiles` | who knows whose equipment and name | 2 players, 3 chunks in a row with radius 1, 2 values each of equipment and name |
| `dig_relay` | rate limit, sequence numbers, what is relayed | windows of 3 ticks in a clock of 8, limit 2, numbers modulo 3, 7 edits in frames of 1 or 2; frames refused for their rate and the last single edit are sent again |
| `buildings` | soundness of the registry under all failures | 2 foundations, 6 rectangles on a map of 16 by 16 blocks with a region of 4 by 4 left of zero, 10 announcements, 5 old files, 2 capacities, revisions that wrap after 3, 1 client |
| `durable_manifest` | refinement of `DurableManifest` when writes succeed | the same announcements, 2 clients, 5 revisions, crashes at every point |
| `wire` | frames: what is accepted is exact, messages arrive intact, events can be told apart; manifest: what a client puts together is exact, and it catches up | bytes of 6 values; every field with three values; texts and payloads up to one beyond their limits; 11 moves (two full batches of 5 and one) and 5 records (two full pages of 2 and one); 3 foundations in 2 pages, 3 revisions, one break, limits of 100 and 160 bytes |
| `event_loop` | time: who is reaped and when, moves in time; the order of commands; start and end | seconds of 4 ticks, heartbeat 1 s, timeout 2 s, delays of 1, 2 and 1 ticks; the client with a clock of 17; the keyboard with a clock of 7, a screen every 2 ticks, a queue of 2 and 4 commands |
| `wide_aoi` | (violation) see section 6 | as the numbers of `chunks` |

Why these are enough to be interesting: an id is reused while its
retired holder lives (`nextId` wraps after three HELLOs, and skips ids in use), the
server is full, a wallet replaces itself when the server is full, and a third
object takes the address of a deleted one that is still queued.  `MaxPending`
and `MaxSilent` are bounds of the model only: `Move` and `Elapse` wait beyond
them.  `sessions` and `presence` use a `VIEW` without `out`, which no action
reads, and symmetry of connections, objects and wallets; `sessions_live` has
neither, since it checks liveness.  In `dig_relay` the numbers wrap twice, two
windows touch, and a frame may be repeated before and after a window ends; its
clock stops at `MaxTime`, so the run is allowed to stop there (and only there is
`CHECK_DEADLOCK` off).  In `buildings` revisions wrap, files come from older
versions, with overlaps or buildings outside of the region, and the capacity may
shrink at a restart; the rectangles share exactly one column with a neighbour,
reach one column into the region, begin beside its last column, are one block
too narrow, or end one block beyond the map; `durable_manifest` has revisions that do not wrap, since
the abstract manifest counts without end, and one capacity, since a smaller one
throws the file away by design.  The widths of the numbers in `chunks` are small,
but the widest region fills a byte but for one value, as 255 chunks do in the
code, and the proofs are for all widths.

In `event_loop` the delays fill the second exactly (`LagAssumption` with
equality), so one tick more anywhere breaks `AnsweringClientIsKept`; heartbeat
and timeout are the closest that are accepted; 17 ticks are enough for a client
to miss a heartbeat, be reaped, and for two rounds of all timers.  For the
keyboard, screens come as close to each other as a callback may wait, so that two
callbacks with two commands each are under way at once; a key that is pressed
while two commands wait is dropped; the run stops when the clock does, hence no check for deadlock.  The proofs are for all values.

In `wire` a byte of 6 values leaves room for the error codes and for counts of 5,
which stand for the 255 of the code; the limits on texts and payloads are
smaller, sizes and offsets are not.  The two manifest limits: 160 bytes is the
first of the two pages with its header (`Fits` holds), 100 is less than it (it does not, and
only `AssembledManifestIsExact` speaks of those behaviours).  One break of the
network, and as many ends by the limit as there are drops.  A part that has
nothing more to say may stop, and so may a manifest transfer that has come to
its end.

All type invariants are proved (section 5); only that of `EventLoop` is a
property of its run as well.

What the properties say, and the faults they catch, is stated above each of them
in the modules; each is shown to fail for a plausible bug (`mutants` in
`PROJECT.json`), such as an index not updated by the swap, a retired player
that keeps its `connected` flag, or an activity test by id instead of address.

## 5. Proofs

`RoomTable_proofs` proves, for any players and chunks, that seating and removing
keep a table `Consistent` (typed, pointers and vectors agree, no empty room) and
what they do to each player's room.  `Chunks_proofs` concludes
`Spec => []...` for every invariant of the rooms and the refinement of
`RoomMembership`.

`GuardianSessions_proofs` proves the invariant

    IInv == TypeOK /\ OneSessionPerWallet /\ PlayerMapConsistent
            /\ SessionOwnership /\ RoomsHoldActivePlayers /\ SubscriptionFollowsRoom

inductive, one lemma per action, for any sets of connections, objects, wallets
and chunks and any `MaxPlayers \in 1 .. MaxId`.  The parts need each other:
`HELLO` retires the one session there is (`OneSessionPerWallet`), which has a
seat to give up (`RoomsHoldActivePlayers`); an id is free whenever the capacity
test passes because ids name distinct players (`PlayerMapConsistent`, a counting
argument); a close deletes an object no other connection holds
(`SessionOwnership`).  `AlwaysWithinMaxPlayers` and `RetiredCloseAlwaysHarmless`
follow with one more induction and one step argument.

`WaitingMoveAlwaysQueued` needs `QueueIsKept`, which adds that the two flags of a
player agree: the flush passes over an entry without `has_pending_move`, and a
player that kept `queued_pending_move` alone would never be queued again.  The
flush reaches the first entry of every player that has one, which is where it
clears both.  `SessionsImplementDirectory` shows first that a wallet is where its
one active player is (`DirectoryIsExact`, from the rooms and from
`OneSessionPerWallet`), then that every callback leaves all wallets but one
undisturbed (`StepDisturbsOne`), and then that such a step is an arrival or a
departure of that one (`OneWalletMoves`, which counts: no more wallets are
present than players are active).

What the clients see (`Presence`) rests on that invariant too.  `SceneInv` says that a settled client
knows the ids that are around it, read off `players_` (`Shown`), and that a
connection without a session knows nobody, so that the snapshot of its `HELLO`
starts from nothing.  Each callback has to publish the difference between who was
around before and who is after, to every listener at once: `Listening` says that
a client hears what concerns a chunk if and only if that chunk is near its own,
because it is subscribed to the one topic of its room and the area of interest is
symmetric; `DeliverTwo` says what a LEAVE followed by a JOIN adds up to, which is
what a walk or a `HELLO` over an older session sends; `ShownAfterDeparture` covers
an id that goes to a newcomer in the callback that retires its holder, which is
harmless since the newcomer has no pose yet.  `MovedPlayersAlwaysKnown` needs
`FlagsInv` too: a retired player that still has an entry in the queue reads as
not connected, and whoever has a move to send has been announced.  It speaks of
every MOVE item that is relayed for an entry that points to a `Player`, active,
retired, or a newcomer at the address of another.  After a player
has left, the entry it leaves behind points to none until its address is used
again; what the flush then sends is whatever the freed memory holds, possibly
under an id that nobody was told of, and no property can hold of it (section 6).

`BuildingManifest_proofs`: no block has two buildings, each building is on the
map and has a block in the region, they are within the capacity, and revision 0
means an empty registry.  The invariant speaks of the tests of the code
(`RegistryPasses`), because what is saved has to pass them when it is loaded;
that they mean the blocks is a matter of arithmetic, for any rectangles, region
and chunk size: `OverlapIsSharedGround`, and `MeetsRegionByGround` with
`RegionEnds`, that the bounds of the region are its first and last block on
either side of zero.  The invariant has to speak of the
files too: what `Start` recovers is sound because `Loadable` says so, but that
revision 0 comes back empty needs it of the file and of the temporary file, which
a rename may make the file.  `NewerIsStrictOrder` says that
`building_record_is_newer` is irreflexive, asymmetric and transitive even though
it compares by slot or by active revision.  Under every failure an ETag confirms
only the manifest in force (`ValidatedCopyAlwaysCurrent`, since the hash always is
that of the records), and no announcement undoes a newer one
(`BuildingsAlwaysGetNewer`).  `ManifestIsDurable` and `KnownRevisionAlwaysExact`
assume `Reliable`: writes succeed, the capacity does not change, and revisions do
not wrap.  Their invariant is `SavedInTime`: memory is what a restart would make
of the file, or one announcement ahead of it while the save is under way, and
nothing is handed out in that time; with `KnownHeld`, that no client is ahead of
the file.  The commit of the abstract manifest is the rename.

`Profiles_proofs`: what a client that stays knows of others' equipment and names,
by an invariant that is the two properties and `TypeOK`; the point is that the
audience of a broadcast is everybody who can see its sender, because the area of
interest is symmetric, and that a player who comes into view brings its
equipment along.

`Chunks_proofs` also has the arithmetic, for any `HalfByte` and `HalfWord` with
`2 * HalfByte <= HalfWord`: casts that keep what fits, a byte that stands for a
chunk of the region is that chunk's number even where the sum wraps, rows and
columns determine an index, and broadcasts cover the square once.

`EventLoop_proofs`: time, for any rates, intervals and delays that satisfy
`ConfigAssumption` and `LagAssumption`.  The invariant says where the clock may
be: no later than `TickLag` after the ticker's last look, no timer overdue by
more than one look, no deferred callback older than `LoopLag`, each PING under
way no older than `LoopLag + ReplyLag`.  From it: for a client that answers
there is at every moment a PONG not older than a heartbeat and the three delays,
or a PING under way that will bring one; that is less than the timeout
(`AnsweringClientIsAlwaysKept`).  For a silent one and for a move that waits,
either the timer of the sweep (of the flush) has not come round since, or its
callback is among the deferred ones (`SilentClientIsAlwaysReaped`,
`MovesAlwaysLeaveInTime`).  `TypeCorrect` and `CommandsAlwaysKeepOrder` need
nothing of the time: what was accepted from the keyboard is at every moment what
was applied, then what the deferred callbacks carry, in their order, then what
the dashboard has not taken yet.

`Wire_proofs`, for any base of the bytes, any limits and any page size.

* `AssembledManifestIsAlwaysExact` by `TransferInv`: every digest and page that
  is under way, in the buffer or with the kernel belongs to a revision there was,
  and a page is that page of it (`FramesAreTrue`); the pages a client has kept
  are of one revision and in their places (`PagesAreTrue`); the history only
  grows, so none of this is undone by a change, a drop or a new connection.  That
  all pages together are the whole manifest is `FlattenPages`.
* `AcceptedFramesAreAlwaysExact` by `FramesInv`: what a client has sent is bytes
  and what was made of it is `Received(wire)`.  One lemma for each decoder says
  that its message encodes to the frame.  They rest on two facts: layout and table
  agree on every offset and width (`Filling`, so that the layout writes the
  slices the table reads, `PutFields`, `PutBack`), and the digits of the number
  that bytes stand for are those bytes (`BytesOfNumber`, `BytesOfSigned`).
* `MessagesAlwaysArriveIntact` by `MeaningInv`, which adds that a frame that was
  meant is the encoding of what was meant.  It is the other direction: the number
  that digits stand for is the number of which they are the digits, with its sign
  (`NumberOfBytes`, `SignedOfBytes`), and what the table reads of what the layout
  wrote are the fields of the struct (`FieldsBack`, `StructBack`).  Texts and
  items beyond the limits are told from those within them by the length field,
  which holds the length modulo `Base` to its width, while the frame has its true
  length.
* `AcceptedAreMessages`, the other half of `AcceptedFramesAreAlwaysExact`: what
  is accepted of any bytes has every field within its type (`FieldsTyped`, since
  a table stays inside of the frame, `InsideTables`) and keeps the limits.
* `EventsAlwaysToldApart` by `SayingInv`: what the Guardian says is a struct of
  `protocol.h` and what it sends are the frames of that.  `Say` takes it from
  `EventsAssumption`; for `Relay` it needs `AcceptedAreMessages`, since what is
  relayed is put together of what was accepted (`RelayedIsEvent`).  Two events
  of one type with the same frames are the same, by `EventTells`.  In two
  concatenations that are equal, the parts are equal one after the other as long
  as each is as long as its counterpart, if those before it are the same
  (`FlattenTells`).  A text may have any length, and the layouts announce it
  before they append it, in a field wide enough for the limit (`TextTells`);
  lists are preceded by their counts, which are not cut (`CountedTells`), and the
  runs of a batch and the pages of a manifest, each told from its frame, add up
  to the list again (`BatchTells`, `PagesTell`).

What the recursive functions of these modules compute (the digits of a number,
what a concatenation of many has where) is proved by induction: every set of
naturals that is not empty has a least element (`LeastElement`, from the finite
sets of the library), so that a statement about a number, written as a set, is
shown of all numbers by looking at the least that is not in it (`UpTo`).

`DigRelay_proofs`: for any window, limit and batch size and any numbers modulo
`SeqMod > MaxBatch`.  `InSequence` says that the last number the server took is
less than the next one the client will use, by at most one batch; together with
`Upcoming`, that a frame which is still to be repeated is the last one and was
not taken, it follows that of a client that numbers its edits nothing but a copy
of an edit that was taken is ever out of sequence
(`HonestClientIsAlwaysInSequence`).  `FramesInLine` says that frames follow each
other without sharing an edit and that each of them was relayed whole or not at
all; a copy that arrives adds nothing, since its number is the last one the
server took (`EditsAlwaysRelayedWholeInOrder`).  `WithinWindows` counts, for every
possible second, the frames admitted in it before and after the start of the
limiter's window, each at most the limit (`AlwaysAtMostTwiceTheLimit`);
`CountIsEarned` says that the limiter counts frames that were really tried since
its window began, so a client that pauses for a window is admitted
(`WaitingAlwaysHelps`).

Assumptions: those named in the modules on their constants (`NearAssumption`,
`PlotAssumption`, `RegionAssumption`, `MaxPlayersAssumption`, `WidthAssumption`, `LastRevisionAssumption`,
`LagAssumption` and so on), which TLC evaluates in the runs.  `MessagesAssumption`
says that what clients mean are the structs of `protocol.h`, each field within its
type and texts of any length; `EventsAssumption` says the same of what the
Guardian says of its own accord, where a batch is not empty and a text keeps the
limit of its decoder, and `SpeakerAssumption` of the player and the tick of what
is relayed.  A page holds fewer records than two bytes can count
(`LimitsAssumption`; 128 in the code).

Only model-checked: all liveness (`WaitingMoveIsSent`, `SilentSessionsEnd`,
`ClientCatchesUp`, `StartServesOrExits`), since the prover has no rule for
fairness and `ENABLED`.  Every other property of a passing run is a theorem.

## 6. Findings

* `silent_sockets`: a connection whose player was retired by another `HELLO` is
  exempt from both timeouts (`app.cpp:556-565`), while the startup guide says
  "Disconnect silent sockets after N seconds" (`config.cpp:207`).  The
  counterexample is two HELLOs with one wallet, and silence.  (A peer that does
  not even answer protocol pings is closed by uWebSockets.)
* `wide_aoi`: offsets of a broadcast are stored as `int8_t` (`aoi.cpp:12`), and
  `validate_config` accepts diameters up to 511.  From 257 on the offsets wrap: a
  broadcast misses one side of its square and reaches other chunks twice, while
  the help text of `--aoi` speaks of the "Nearby broadcast diameter"
  (`config.cpp:203`).

Limits of the code that contradict no document, found while modelling and kept
out of the findings:

* A save that fails is silent.  Its revision has been published; after a restart
  the number is used again for other contents, and a client that holds the first
  is told over WebSocket that it is up to date.  (`KnownRevisionIsExact` fails
  with `refused` among the `WriteOutcomes`.)  HTTP compares hashes and is not
  affected (`ValidatedCopyIsCurrent` holds under all failures).
* A removed building comes back with an older announcement that arrives late.
* A restart with a smaller `max_building_records`, or for another region, turns
  the whole file down and the next announcement overwrites it.
* `max_connections` and `max_players_per_chunk` are read and not enforced.
* A name does not travel with a JOIN: who meets a player after its last
  `PLAYER_IDENTITY` does not know it.
* Who walks into another chunk gets no snapshot of the area it enters and no
  LEAVE for the one it left (`app.cpp:244`); it learns of the others when they
  move.  Hence `SettledSceneIsExact` speaks of clients that stay.
* The connection of a retired player keeps its topic until it is closed
  (`app.cpp:170`) and goes on receiving.
* An entry of a deleted player in the move queue is read (`guardian.cpp:598`),
  and whatever is there is relayed as a MOVE.  Hence `MovedPlayersAreKnown`
  speaks of the entries that point to a player.
* `accept_dig_seq` compares with the last number only (`guardian.cpp:508`): a copy
  of a batch, or of a frame before the last, is taken and relayed again.  And
  what failed half way cannot be sent again under its numbers, since those
  before the edit that failed are used up; nothing of it was relayed.
* With `close_on_backpressure_limit=false`, the default, a slow client misses a
  page or a digest for good unless it asks again, and a manifest that exceeds
  the limit may never fit; `ClientCatchesUp` therefore has the conditions
  `close_on_backpressure_limit` and `Fits`.
  The client in `scripts/local_client.py` takes frames of at most 4096 bytes.
* `movement_broadcast_hz=0` is accepted and divides by zero at the start
  (`app.cpp:705`); `ConfigAssumption` excludes it.
* `chunk_size_blocks=0` is accepted, and a region has no blocks then;
  `RegionAssumption` excludes it.
* The sum of a chunk and an offset is an `int32_t` (`guardian.cpp:584`), which
  overflows within the area of interest of the ends of the range.
* Callbacks of a loop that is blocked pile up without a bound.
* The "Equivalent command" of the wizard (`config.cpp:269`) leaves out the id of
  the Guardian and the path, and a `--config` file that cannot be read is passed
  over in silence (`config.cpp:148`).
* `TuiCommand::PreviousSection` is handled and never pushed.

## 7. Plan

Done: rooms, sessions, presence, profiles, rate limit and digs, the building
registry, the numbers; the event loop with its threads and delays; the codec;
the transfer of manifests through a limited buffer; the proofs of section 5.

Nothing is planned beyond this.  `ManifestTransfer` has one client: clients share
only the registry, which may change between any two of its steps, and the pages
of an answer are sent in one callback, so a request of another client is nothing
that the first could tell from a change or from waiting.

Not modelled: the text of the configuration file and of the command line, and
the wizard (input and output; what `validate_config` lets pass is in the
assumptions and in `ChunkGrid`); what the dashboard looks like, metrics and logs
(no decision reads them); text frames, which are refused before anything else
(`Disconnect` of `GuardianSessions` stands for them); TLS, the protocol's own
pings and the buffers of topics inside of uWebSockets.
