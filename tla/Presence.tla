------------------------------ MODULE Presence ------------------------------
(***************************************************************************)
(* What the clients are told about each other.  The module adds to          *)
(* GuardianSessions the scene of every connection: the ids its client was   *)
(* told of by PLAYER_JOIN (broadcast, or in the snapshot that answers       *)
(* HELLO) and not by a later PLAYER_LEAVE.  The server keeps no such set;   *)
(* it relies on sending the right messages to the right topics in the       *)
(* right order.                                                             *)
(*                                                                          *)
(* A client is settled while it stays in the chunk of its HELLO.  The       *)
(* server sends no snapshot to a client that walks into another chunk, and  *)
(* no LEAVE for the players it leaves behind, so nothing exact can be said  *)
(* about the scene of a client that walked.                                 *)
(***************************************************************************)
EXTENDS GuardianSessions

VARIABLES
    scene,    \* the ids each connection's client believes to be around
    settled   \* the sessions that never changed chunk

presenceVars == <<vars, scene, settled>>

(* How a client takes the messages of one callback, in their order: the     *)
(* last word about somebody counts, and without one it is as before.        *)
Told(m, s, kind) == IF m.kind = kind /\ s \in m.to THEN m.ids ELSE {}

Left(msgs, s, first) == UNION {Told(msgs[k], s, "leave") : k \in first .. Len(msgs)}

Deliver(known, s, msgs) ==
    (known \ Left(msgs, s, 1))
    \cup UNION {Told(msgs[k], s, "join") \ Left(msgs, s, k + 1) : k \in 1 .. Len(msgs)}

PresenceInit ==
    /\ Init
    /\ scene = [s \in Socket |-> {}]
    /\ settled = {}

(* A connection that is gone leaves no scene behind. *)
Observe ==
    /\ scene' = [s \in Socket |-> IF s \in sockets'
                                  THEN Deliver(scene[s], s, out')
                                  ELSE {}]
    /\ settled' = {s \in sockets' :
                     /\ session'[s] # NoPlayer
                     /\ \/ session[s] = NoPlayer
                        \/ /\ s \in settled
                           /\ player'[session'[s]].chunk = player[session[s]].chunk}

PresenceNext == Next /\ Observe

PresenceSpec == PresenceInit /\ [][PresenceNext]_presenceVars

-----------------------------------------------------------------------------

(* The players a client should show: those in its area of interest that    *)
(* have a pose, itself left out.                                           *)
Around(s) ==
    {player[q].id : q \in {q \in Active :
        /\ q # session[s]
        /\ player[q].pose
        /\ player[q].chunk \in Near[player[session[s]].chunk]}}

(* The snapshot and the JOIN and LEAVE broadcasts add up: whatever other   *)
(* clients do (walk, say HELLO twice, get retired, reuse an id, vanish),   *)
(* a settled client is never told too much or too little.                  *)
SettledSceneIsExact ==
    \A s \in settled : IsActivePlayer(session[s]) => scene[s] = Around(s)

(* A settled client gets MOVE items only for itself and for players it has *)
(* been told of, although a move waits in the queue while its player walks *)
(* on, is retired, or comes back with another connection, and although the *)
(* address of a player that left may be another player's by then.  It is   *)
(* said of the entries of the queue that point to a Player object: through *)
(* the entry of one that left and was deleted, flush_pending_moves relays  *)
(* whatever the memory holds, and nothing can be promised of that item.    *)
MovedPlayersAreKnown ==
    [][\A k \in DOMAIN out', s \in settled' :
          out'[k].kind = "move" /\ pending[k] \in Allocated
            /\ s \in out'[k].to /\ IsActivePlayer(session[s])'
              => out'[k].ids \subseteq scene'[s] \cup {player'[session'[s]].id}]_presenceVars

=============================================================================
