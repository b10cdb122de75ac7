------------------------------- MODULE Profiles -------------------------------
(***************************************************************************)
(* Equipment and display names: what the server keeps for each player, and  *)
(* what the clients around come to know of it by broadcasts, by the         *)
(* snapshots that answer HELLO, and by the copy of the equipment that goes  *)
(* out when a player enters a chunk.                                        *)
(*                                                                          *)
(* A player is one session here: ids, objects and retirement are those of   *)
(* GuardianSessions and play no part.  The client is external: it starts a  *)
(* fresh entry for a player at JOIN, drops it at LEAVE, and otherwise       *)
(* notes what it is sent.                                                   *)
(***************************************************************************)
EXTENDS Naturals

CONSTANTS
    Player,      \* sessions
    Chunk,       \* chunks of the service region
    Near,        \* Near[c]: the chunks in the area of interest of chunk c
    Equipment,   \* what a player may wear
    Name,        \* display names
    NoChunk,     \* the session is not there
    None         \* has_equipment, has_identity is false; nothing known

ASSUME NearAssumption ==
    /\ Near \in [Chunk -> SUBSET Chunk]
    /\ \A c \in Chunk : c \in Near[c]
    /\ \A c, d \in Chunk : d \in Near[c] => c \in Near[d]

ASSUME NoneAssumption ==
    NoChunk \notin Chunk /\ None \notin Equipment /\ None \notin Name

VARIABLES
    chunk,       \* current_chunk_x, current_chunk_z
    pose,        \* the players with has_pose
    equipment,   \* has_equipment, equipment_*
    name,        \* has_identity, display_name
    view,        \* view[v][q]: what the client of v knows of q
    settled      \* the players that are where they said HELLO

vars == <<chunk, pose, equipment, name, view, settled>>

Nothing == [equipment |-> None, name |-> None]

Init ==
    /\ chunk = [p \in Player |-> NoChunk]
    /\ pose = {}
    /\ equipment = [p \in Player |-> None]
    /\ name = [p \in Player |-> None]
    /\ view = [v \in Player |-> [q \in Player |-> Nothing]]
    /\ settled = {}

Online == {p \in Player : chunk[p] # NoChunk}

(* Who gets what p publishes to the area of interest of c: the subscribers  *)
(* of its topics, p left out.                                               *)
Audience(p, c) == {v \in Online \ {p} : chunk[v] \in Near[c]}

(* The views after the audiences of LEAVE and of JOIN with the equipment,   *)
(* or of one event with a new entry, took their messages.                   *)
Informed(audience, p, entry) ==
    [v \in Player |-> IF v \in audience THEN [view[v] EXCEPT ![p] = entry] ELSE view[v]]

-----------------------------------------------------------------------------

(* The players that a snapshot for someone in chunk c tells of. *)
Visible(c) == {q \in Online : q \in pose /\ chunk[q] \in Near[c]}

(* HELLO: collect_snapshot, collect_equipment_snapshot,                     *)
(* collect_identity_snapshot.                                               *)
Hello(p, c) ==
    /\ chunk[p] = NoChunk
    /\ chunk' = [chunk EXCEPT ![p] = c]
    /\ equipment' = [equipment EXCEPT ![p] = None]
    /\ name' = [name EXCEPT ![p] = None]
    /\ view' = [view EXCEPT ![p] =
                  [q \in Player |-> IF q \in Visible(c)
                                    THEN [equipment |-> equipment[q], name |-> name[q]]
                                    ELSE Nothing]]
    /\ settled' = settled \cup {p}
    /\ UNCHANGED pose

(* The connection closes, or another HELLO retires the player: LEAVE.       *)
Leave(p) ==
    /\ chunk[p] # NoChunk
    /\ view' = [Informed(Audience(p, chunk[p]), p, Nothing)
                  EXCEPT ![p] = [q \in Player |-> Nothing]]
    /\ chunk' = [chunk EXCEPT ![p] = NoChunk]
    /\ pose' = pose \ {p}
    /\ settled' = settled \ {p}
    /\ UNCHANGED <<equipment, name>>

(* Faulty variant: the equipment is sent only when the chunk changed. *)
EntryAtChange(p, c) ==
    [equipment |-> IF c # chunk[p] THEN equipment[p] ELSE None, name |-> None]

(* JOIN and, if the player has any, its equipment; never its name. *)
EntryAtJoin(p, c) == [equipment |-> equipment[p], name |-> None]

(* handle_move: LEAVE to the old area of interest if the player had a pose, *)
(* JOIN and equipment to the new one.                                       *)
Move(p, c) ==
    LET changed == c # chunk[p]
        first   == p \notin pose
        left    == IF changed /\ ~first THEN Audience(p, chunk[p]) ELSE {}
        joined  == IF changed \/ first THEN Audience(p, c) ELSE {}
    IN  /\ chunk[p] # NoChunk
        /\ view' = [v \in Player |->
                      IF v \in joined THEN [view[v] EXCEPT ![p] = EntryAtJoin(p, c)]
                      ELSE IF v \in left THEN [view[v] EXCEPT ![p] = Nothing]
                      ELSE view[v]]
        /\ chunk' = [chunk EXCEPT ![p] = c]
        /\ pose' = pose \cup {p}
        /\ settled' = IF changed THEN settled \ {p} ELSE settled
        /\ UNCHANGED <<equipment, name>>

(* handle_equipment, admitted by its rate limit. *)
Equip(p, e) ==
    /\ chunk[p] # NoChunk
    /\ equipment' = [equipment EXCEPT ![p] = e]
    /\ view' = [v \in Player |->
                  IF v \in Audience(p, chunk[p])
                  THEN [view[v] EXCEPT ![p].equipment = e]
                  ELSE view[v]]
    /\ UNCHANGED <<chunk, pose, name, settled>>

(* Faulty variant: the event is made before the name is stored. *)
EventBeforeUpdate(p, n) == name[p]

IdentityEvent(p, n) == n

(* handle_player_identity. *)
Rename(p, n) ==
    /\ chunk[p] # NoChunk
    /\ name' = [name EXCEPT ![p] = n]
    /\ view' = [v \in Player |->
                  IF v \in Audience(p, chunk[p])
                  THEN [view[v] EXCEPT ![p].name = IdentityEvent(p, n)]
                  ELSE view[v]]
    /\ UNCHANGED <<chunk, pose, equipment, settled>>

Next ==
    \E p \in Player :
        \/ \E c \in Chunk : Hello(p, c) \/ Move(p, c)
        \/ Leave(p)
        \/ \E e \in Equipment : Equip(p, e)
        \/ \E n \in Name : Rename(p, n)

Spec == Init /\ [][Next]_vars

-----------------------------------------------------------------------------
(* Properties *)

(* Chunks, equipment and names are what their names say. *)
TypeOK ==
    /\ chunk \in [Player -> Chunk \cup {NoChunk}]
    /\ pose \subseteq Online
    /\ equipment \in [Player -> Equipment \cup {None}]
    /\ name \in [Player -> Name \cup {None}]
    /\ view \in [Player -> [Player -> [equipment : Equipment \cup {None},
                                       name      : Name \cup {None}]]]
    /\ settled \subseteq Online

(* A client that stays where it said HELLO knows the equipment of everyone  *)
(* it can see, however they dressed, walked in and out, and in which order  *)
(* they did so and sent their first MOVE.                                   *)
EquipmentIsCurrent ==
    \A v \in settled : \A q \in Visible(chunk[v]) \ {v} :
        view[v][q].equipment = equipment[q]

(* Nobody it can see has another name for it than the current one; it may   *)
(* have none, since a player's name does not travel with its JOIN.          *)
KnownNameIsCurrent ==
    \A v \in settled : \A q \in Visible(chunk[v]) \ {v} :
        view[v][q].name \in {None, name[q]}

=============================================================================
