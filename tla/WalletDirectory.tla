--------------------------- MODULE WalletDirectory ---------------------------
(***************************************************************************)
(* What the session core promises, without connections, ids, objects and   *)
(* rooms: each wallet is offline or present in one chunk, at most           *)
(* MaxPlayers wallets are present, and a step concerns one wallet.          *)
(***************************************************************************)
EXTENDS Integers, FiniteSets

CONSTANTS
    Wallet,      \* wallet public keys
    Chunk,       \* chunks of the service region
    Offline,     \* not a chunk
    MaxPlayers   \* how many wallets can be present

VARIABLE where   \* the chunk each wallet is present in, or Offline

Present == {w \in Wallet : where[w] # Offline}

Init == where = [w \in Wallet |-> Offline]

(* A wallet arrives: for the first time, again over its old session, or by *)
(* walking over from another chunk.                                        *)
Arrive(w, c) ==
    /\ Cardinality(Present \ {w}) < MaxPlayers
    /\ where' = [where EXCEPT ![w] = c]

Depart(w) == where' = [where EXCEPT ![w] = Offline]

Next ==
    \E w \in Wallet :
        \/ Depart(w)
        \/ \E c \in Chunk : Arrive(w, c)

Spec == Init /\ [][Next]_where

=============================================================================
