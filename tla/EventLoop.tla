------------------------------ MODULE EventLoop -------------------------------
(***************************************************************************)
(* The threads of run_app_instance and what time they give a session: the   *)
(* ticker thread, which looks at the clock every 10 ms and defers callbacks *)
(* to the loop, the loop's thread, which runs them in that order between    *)
(* its sockets, the thread that reads the keyboard, and the start and the   *)
(* end of the three.  One connected client stands for all: what a callback  *)
(* does to it, it does to every one of them.                                *)
(*                                                                          *)
(* Time is a number of ticks.  That threads and clients do something in     *)
(* time is assumed in the form of three bounds, in Pass; what follows from  *)
(* them for the program's own promises is what the properties say.          *)
(***************************************************************************)
EXTENDS Integers, Sequences

CONSTANTS
    Second,            \* 1000 in the code, which counts milliseconds
    MovementHz,        \* movement_broadcast_hz
    HeartbeatSec,      \* heartbeat_interval_sec
    IdleTimeoutSec,    \* idle_timeout_sec
    ScreenInterval,    \* between two screens, or two lines of statistics
    KeyboardEnabled,   \* TuiInput::enabled_
    QueueLimit,        \* 64 in the code: commands that wait
    Key,               \* the keys that may be pressed
    TickLag,           \* the ticker looks at the clock at least this often
    LoopLag,           \* a deferred callback waits no longer than this
    ReplyLag,          \* a PING and its PONG are no longer under way
    MaxTime,           \* bound: of the clock
    MaxKeys,           \* bound: commands accepted
    MaxRooms           \* bound: active rooms on the screen

(* validate_config tests the heartbeat, and nobody the division by zero.    *)
ASSUME ConfigAssumption ==
    /\ Second \in Nat \ {0}
    /\ MovementHz \in Nat \ {0}
    /\ HeartbeatSec \in Nat \ {0}
    /\ IdleTimeoutSec \in Nat
    /\ HeartbeatSec < IdleTimeoutSec
    /\ ScreenInterval \in Nat
    /\ KeyboardEnabled \in BOOLEAN
    /\ QueueLimit \in Nat
    /\ MaxTime \in Nat
    /\ MaxKeys \in Nat
    /\ MaxRooms \in Nat

(* The delays of the machine and of the network add up to less than the     *)
(* least distance that validate_config leaves between the two intervals.    *)
ASSUME LagAssumption ==
    /\ TickLag \in Nat \ {0}
    /\ LoopLag \in Nat
    /\ ReplyLag \in Nat
    /\ TickLag + LoopLag + ReplyLag <= Second

Job == {"move", "heartbeat", "reap", "screen"}

(* The order of the tests in the ticker's loop.                             *)
TestOrder == <<"move", "heartbeat", "reap", "screen">>

(* Faulty variant: the rate is not used.                                    *)
MoveIntervalOfOneSecond == Second

MoveInterval == Second \div MovementHz

Interval ==
    [j \in Job |-> CASE j = "move"      -> MoveInterval
                     [] j = "heartbeat" -> HeartbeatSec * Second
                     [] j = "reap"      -> Second
                     [] j = "screen"    -> ScreenInterval]

IdleTimeout == IdleTimeoutSec * Second

VARIABLES
    now,        \* now_ms
    phase,      \* of the main thread
    ticker,     \* the ticker thread: "starting", "sleeping", "testing", "ended"
    test,       \* the timer it tests next, 0 when it does not test
    looked,     \* when it looked at the clock last, its t
    last,       \* last_move, last_heartbeat, last_reap, last_stats or last_tui
    deferred,   \* the callbacks deferred to the loop
    commands,   \* TuiInput::commands_
    accepted,   \* history: the commands that were ever put there
    applied,    \* history: the commands that were ever applied
    section,    \* tui_section_
    row,        \* tui_row_
    session,    \* of the client: "none", "active", "reaped"
    seen,       \* its last_seen_ms
    heard,      \* history: when a frame of its arrived last
    answers,    \* whether it still answers
    pings,      \* when the PINGs under way to it were deferred
    moved       \* since when a move waits to be broadcast

NoMove == -1

loopVars   == <<phase, ticker, test, looked, last>>
screenVars == <<commands, accepted, applied, section, row>>
clientVars == <<session, seen, heard, answers, pings, moved>>

vars == <<now, loopVars, deferred, screenVars, clientVars>>

-----------------------------------------------------------------------------
(* The dashboard *)

SectionCommand == <<"Section1", "Section2", "Section3", "Section4", "Section5">>

Digit == <<"1", "2", "3", "4", "5">>

NoCommand == "none"

(* read_loop: the command it pushes for a key; most keys have none.         *)
CommandOf(k) ==
    CASE k = "tab"            -> "NextSection"
      [] k \in {"j", "down"}  -> "RowDown"
      [] k \in {"k", "up"}    -> "RowUp"
      [] \E n \in 1 .. 5 : k = Digit[n] ->
             SectionCommand[CHOOSE n \in 1 .. 5 : k = Digit[n]]
      [] OTHER                -> NoCommand

(* The row starts again at the top when another section is selected.        *)
Select(n) == [section |-> n, row |-> 0]

(* Faulty variant: the row goes up from the top.                            *)
ApplyTuiCommandUnbounded(screen, c) ==
    CASE c = "NextSection" -> Select((screen.section + 1) % 5)
      [] c = "RowDown"     -> [screen EXCEPT !.row = @ + 1]
      [] c = "RowUp"       -> [screen EXCEPT !.row = @ - 1]
      [] OTHER             -> Select(CHOOSE n \in 0 .. 4 : c = SectionCommand[n + 1])

ApplyTuiCommand(screen, c) ==
    CASE c = "NextSection" -> Select((screen.section + 1) % 5)
      [] c = "RowDown"     -> [screen EXCEPT !.row = @ + 1]
      [] c = "RowUp"       -> [screen EXCEPT !.row = IF @ > 0 THEN @ - 1 ELSE 0]
      [] OTHER             -> Select(CHOOSE n \in 0 .. 4 : c = SectionCommand[n + 1])

(* The callback's loop over the commands of one screen.                     *)
ApplyAll(screen, cs) ==
    LET after[i \in 0 .. Len(cs)] ==
            IF i = 0 THEN screen ELSE ApplyTuiCommand(after[i - 1], cs[i])
    IN  after[Len(cs)]

(* render_tui pulls the selected row back into the list of rooms, and only  *)
(* there: the list of players has no such test.                             *)
RenderTui(screen, rooms) ==
    IF screen.section = 4 /\ rooms > 0 /\ screen.row >= rooms
    THEN [screen EXCEPT !.row = rooms - 1]
    ELSE screen

-----------------------------------------------------------------------------

Init ==
    /\ now = 0
    /\ phase = "booting"
    /\ ticker = "starting"
    /\ test = 0
    /\ looked = 0
    /\ last = [j \in Job |-> 0]
    /\ deferred = <<>>
    /\ commands = <<>>
    /\ accepted = <<>>
    /\ applied = <<>>
    /\ section = 0
    /\ row = 0
    /\ session = "none"
    /\ seen = 0
    /\ heard = 0
    /\ answers = TRUE
    /\ pings = {}
    /\ moved = NoMove

(* Time passes unless a thread or the client has to do something first.     *)
Pass ==
    /\ now < MaxTime
    /\ ticker \in {"sleeping", "ended"}
    /\ ticker = "sleeping" => now < looked + TickLag
    /\ phase \in {"booting", "running"} =>
           \A i \in 1 .. Len(deferred) : now < deferred[i].at + LoopLag
    /\ answers => \A p \in pings : now < p + LoopLag + ReplyLag
    /\ now' = now + 1
    /\ UNCHANGED <<loopVars, deferred, screenVars, clientVars>>

-----------------------------------------------------------------------------
(* The main thread *)

(* The thread goes on to app.run(), which does not return, or clears        *)
(* running and waits for the ticker.                                        *)
ListenSucceeds ==
    /\ phase = "booting"
    /\ phase' = "running"
    /\ UNCHANGED <<now, ticker, test, looked, last, deferred, screenVars, clientVars>>

ListenFails ==
    /\ phase = "booting"
    /\ phase' = "failed"
    /\ UNCHANGED <<now, ticker, test, looked, last, deferred, screenVars, clientVars>>

(* ticker.join() returns, and then the destructor of TuiInput has joined    *)
(* the other thread; callbacks that were deferred are never run.            *)
Exit ==
    /\ phase = "failed"
    /\ ticker = "ended"
    /\ phase' = "exited"
    /\ UNCHANGED <<now, ticker, test, looked, last, deferred, screenVars, clientVars>>

-----------------------------------------------------------------------------
(* The ticker thread *)

Running == phase \notin {"failed", "exited"}

(* The thread starts with all its timers at the present.                    *)
StartTicker ==
    /\ ticker = "starting"
    /\ ticker' = IF Running THEN "sleeping" ELSE "ended"
    /\ looked' = now
    /\ last' = [j \in Job |-> now]
    /\ UNCHANGED <<now, phase, test, deferred, screenVars, clientVars>>

Wake ==
    /\ ticker = "sleeping"
    /\ ticker' = "testing"
    /\ test' = 1
    /\ looked' = now
    /\ UNCHANGED <<now, phase, last, deferred, screenVars, clientVars>>

Due(j) == looked - last[j] >= Interval[j]

(* drain, when the screen is due.                                           *)
Drain(j) == IF j = "screen" THEN <<>> ELSE commands

(* The commands that the callback carries.                                  *)
Carried(j) == IF j = "screen" THEN commands ELSE <<>>

Callback(j) == [job |-> j, at |-> looked, keys |-> Carried(j)]

(* Faulty variant: nobody reads running.                                    *)
NextTestForever ==
    IF test < Len(TestOrder)
    THEN test' = test + 1 /\ UNCHANGED ticker
    ELSE test' = 0 /\ ticker' = "sleeping"

(* After the last test the thread looks at running, before it sleeps again. *)
NextTest ==
    IF test < Len(TestOrder)
    THEN test' = test + 1 /\ UNCHANGED ticker
    ELSE test' = 0 /\ ticker' = IF Running THEN "sleeping" ELSE "ended"

TestTimer ==
    /\ ticker = "testing"
    /\ LET j == TestOrder[test]
       IN  \/ /\ Due(j)
              /\ last' = [last EXCEPT ![j] = looked]
              /\ deferred' = Append(deferred, Callback(j))
              /\ commands' = Drain(j)
           \/ /\ ~Due(j)
              /\ UNCHANGED <<last, deferred, commands>>
    /\ NextTest
    /\ UNCHANGED <<now, phase, looked, accepted, applied, section, row, clientVars>>

-----------------------------------------------------------------------------
(* The keyboard's thread *)

HasRoom == Len(commands) < QueueLimit

(* Faulty variant: a command is put before those that wait.                 *)
PushInFront(c) == IF HasRoom THEN <<c>> \o commands ELSE commands

Push(c) == IF HasRoom THEN Append(commands, c) ELSE commands

(* A key that stands for a command is pressed; the command is lost when     *)
(* QueueLimit others wait.                                                  *)
Press(k) ==
    /\ KeyboardEnabled
    /\ phase # "exited"
    /\ Len(accepted) < MaxKeys
    /\ CommandOf(k) # NoCommand
    /\ commands' = Push(CommandOf(k))
    /\ accepted' = IF HasRoom THEN Append(accepted, CommandOf(k)) ELSE accepted
    /\ UNCHANGED <<now, loopVars, deferred, applied, section, row, clientVars>>

-----------------------------------------------------------------------------
(* The loop's thread *)

(* The oldest callback leaves the queue and runs.                           *)
Runs(j) ==
    /\ phase = "running"
    /\ deferred # <<>>
    /\ Head(deferred).job = j
    /\ deferred' = Tail(deferred)
    /\ UNCHANGED <<now, loopVars>>

(* flush_pending_moves *)
FlushMoves ==
    /\ Runs("move")
    /\ moved' = NoMove
    /\ UNCHANGED <<screenVars, session, seen, heard, answers, pings>>

(* Faulty variant: a PING counts as a sign of life of its receiver.         *)
PublishPingAsSeen ==
    /\ Runs("heartbeat")
    /\ pings' = pings \cup {Head(deferred).at}
    /\ seen' = now
    /\ UNCHANGED <<screenVars, session, heard, answers, moved>>

(* Every open connection is subscribed to the topic of the heartbeat.       *)
PublishPing ==
    /\ Runs("heartbeat")
    /\ pings' = pings \cup {Head(deferred).at}
    /\ UNCHANGED <<screenVars, session, seen, heard, answers, moved>>

Expired == now - seen > IdleTimeout

(* reap_stale_sockets, for a client with a session.                         *)
ReapStaleSockets ==
    /\ Runs("reap")
    /\ session' = IF session = "active" /\ Expired THEN "reaped" ELSE session
    /\ UNCHANGED <<screenVars, seen, heard, answers, pings, moved>>

(* The commands that came with the callback are applied and the screen is   *)
(* drawn, with as many rooms as there are.                                  *)
DrawScreen ==
    /\ Runs("screen")
    /\ applied' = applied \o Head(deferred).keys
    /\ \E rooms \in 0 .. MaxRooms :
          LET screen == RenderTui(ApplyAll([section |-> section, row |-> row],
                                           Head(deferred).keys), rooms)
          IN  section' = screen.section /\ row' = screen.row
    /\ UNCHANGED <<commands, accepted, clientVars>>

-----------------------------------------------------------------------------
(* The client *)

Hello ==
    /\ phase = "running"
    /\ session = "none"
    /\ session' = "active"
    /\ seen' = now
    /\ heard' = now
    /\ UNCHANGED <<now, loopVars, deferred, screenVars, answers, pings, moved>>

(* A MOVE waits for the next flush with the other players' moves.           *)
Move ==
    /\ phase = "running"
    /\ session = "active"
    /\ seen' = now
    /\ heard' = now
    /\ moved' = IF moved = NoMove THEN now ELSE moved
    /\ UNCHANGED <<now, loopVars, deferred, screenVars, session, answers, pings>>

(* Faulty variant: only what the player does counts as a sign of life.      *)
SeenWithoutPong == seen

(* A frame of any known type counts for a client that has a session.        *)
SeenNow == IF session = "active" THEN now ELSE seen

(* The client answers the PING that came first.                             *)
Pong ==
    /\ phase = "running"
    /\ answers
    /\ \E p \in pings :
          /\ \A q \in pings : p <= q
          /\ pings' = pings \ {p}
    /\ seen' = SeenNow
    /\ heard' = now
    /\ UNCHANGED <<now, loopVars, deferred, screenVars, session, answers, moved>>

(* The client hangs, or its network is gone.                                *)
FallSilent ==
    /\ answers
    /\ answers' = FALSE
    /\ UNCHANGED <<now, loopVars, deferred, screenVars, session, seen, heard, pings, moved>>

-----------------------------------------------------------------------------

Ticker == StartTicker \/ Wake \/ TestTimer

Loop == FlushMoves \/ PublishPing \/ ReapStaleSockets \/ DrawScreen

Next ==
    \/ Pass
    \/ ListenSucceeds \/ ListenFails \/ Exit
    \/ Ticker
    \/ \E k \in Key : Press(k)
    \/ Loop
    \/ Hello \/ Move \/ Pong \/ FallSilent

(* The threads are scheduled: listen returns, the ticker goes round, and    *)
(* the main thread returns from join when it can.                           *)
Fairness ==
    /\ WF_vars(ListenSucceeds \/ ListenFails)
    /\ WF_vars(Ticker)
    /\ WF_vars(Exit)

Spec == Init /\ [][Next]_vars /\ Fairness

-----------------------------------------------------------------------------
(* Properties *)

TypeOK ==
    /\ now \in Nat
    /\ phase \in {"booting", "running", "failed", "exited"}
    /\ ticker \in {"starting", "sleeping", "testing", "ended"}
    /\ test \in 0 .. Len(TestOrder)
    /\ (ticker = "testing") <=> (test # 0)
    /\ looked \in Nat
    /\ last \in [Job -> Nat]
    /\ \A i \in 1 .. Len(deferred) : deferred[i].job \in Job /\ deferred[i].at \in Nat
    /\ section \in 0 .. 4
    /\ row \in Nat
    /\ session \in {"none", "active", "reaped"}
    /\ seen \in Nat
    /\ heard \in Nat
    /\ answers \in BOOLEAN
    /\ pings \in SUBSET Nat
    /\ moved \in Nat \cup {NoMove}

(* A client that answers every PING is never taken for a silent one,        *)
(* however the PING, the answer and the sweep are delayed in between: the   *)
(* one second that a configuration leaves between heartbeat_interval_sec    *)
(* and idle_timeout_sec is enough for all the delays.                       *)
AnsweringClientIsKept == answers => session # "reaped"

(* A client that has fallen silent keeps its session, and its player in the *)
(* rooms, for no longer than the timeout, one second between two sweeps,    *)
(* and the delays of the two threads.                                       *)
SilentClientIsReaped ==
    session = "active" => now <= heard + (IdleTimeoutSec + 1) * Second + TickLag + LoopLag

(* A move waits for no longer than one interval of movement_broadcast_hz    *)
(* and the delays of the two threads, whenever it arrives.                  *)
MovesLeaveInTime ==
    moved # NoMove => now <= moved + Second \div MovementHz + TickLag + LoopLag

(* What callbacks carry, in their order.                                    *)
KeysIn(callbacks) ==
    LET keys[i \in 0 .. Len(callbacks)] ==
            IF i = 0 THEN <<>> ELSE keys[i - 1] \o callbacks[i].keys
    IN  keys[Len(callbacks)]

(* Between the keyboard's thread, the ticker and the loop no command that   *)
(* was accepted is lost, doubled or overtaken by a later one.               *)
CommandsKeepOrder == accepted = applied \o KeysIn(deferred) \o commands

(* The process comes to serve its clients or comes to its end: no thread is *)
(* waited for that does not end.                                            *)
StartServesOrExits == phase = "booting" ~> phase \in {"running", "exited"}

=============================================================================
