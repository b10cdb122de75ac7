------------------------------ MODULE MCEventLoop ------------------------------
(* Seconds of four ticks, the closest heartbeat and timeout that are       *)
(* accepted, and delays that fill the second between them.                  *)
(*                                                                          *)
(* The client and the keyboard share nothing but the ticker and the order   *)
(* of the callbacks.  A behaviour is about one or the other: without keys   *)
(* for as long as a client's session may take, or without a session for     *)
(* long enough that several screens are under way.                          *)
EXTENDS EventLoop

CONSTANT MaxKeyTime   \* bound: of the clock when keys are pressed

VARIABLE part         \* "client" or "keyboard"

LoopInit ==
    /\ Init
    /\ part \in {"client", "keyboard"}

LoopNext ==
    \/ part = "client" /\ Next /\ UNCHANGED <<part, accepted>>
    \/ part = "keyboard" /\ Next /\ UNCHANGED <<part, session>> /\ now' <= MaxKeyTime

LoopSpec == LoopInit /\ [][LoopNext]_<<vars, part>> /\ Fairness

=============================================================================
