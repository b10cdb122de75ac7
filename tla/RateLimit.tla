------------------------------- MODULE RateLimit -------------------------------
(***************************************************************************)
(* rate_limit_allow of player.cpp as a value: a limiter is the start of a   *)
(* window and the number of frames admitted since.  Each player has one for *)
(* MOVE, one for DIG and DIG_BATCH, one for EQUIPMENT and one for            *)
(* BUILDING_ANNOUNCE, all with the same code.                               *)
(*                                                                          *)
(* Times are those of a steady clock, so "now" is never before the start of *)
(* the window and the unsigned difference of the code is the plain one.     *)
(***************************************************************************)
EXTENDS Integers

CONSTANTS
    Window,   \* the length of a window, 1000 ms in the code
    Limit     \* frames admitted per window, client_*_rate_limit_per_sec

ASSUME WindowAssumption == Window \in Nat \ {0}

ASSUME LimitAssumption == Limit \in Nat

Limiter == [start : Nat, count : 0 .. Limit]

(* As create_player leaves it. *)
NewLimiter(now) == [start |-> now, count |-> 0]

(* Faulty variants: the new window keeps its old start, or the old count.  *)
RefreshedInPlace(l, now) ==
    IF now - l.start >= Window THEN [l EXCEPT !.count = 0] ELSE l

RefreshedKeepingCount(l, now) ==
    IF now - l.start >= Window THEN [l EXCEPT !.start = now] ELSE l

(* The limiter after a window that is over gave way to a new one. *)
Refreshed(l, now) ==
    IF now - l.start >= Window THEN [start |-> now, count |-> 0] ELSE l

Allows(l, now) == Refreshed(l, now).count < Limit

(* The limiter after a frame, admitted or not. *)
AfterFrame(l, now) ==
    IF Allows(l, now)
    THEN [Refreshed(l, now) EXCEPT !.count = @ + 1]
    ELSE Refreshed(l, now)

=============================================================================
