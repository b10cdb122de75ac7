--------------------------- MODULE EventLoop_proofs ---------------------------
(***************************************************************************)
(* What the threads of EventLoop promise, for every configuration that      *)
(* validate_config accepts and every bound on the delays.  What is promised *)
(* of the timers rests on one argument: whatever waits for a timer since    *)
(* some time finds either the timer older than itself, so that it is due in *)
(* time, or its callback already among the deferred ones.  What is promised *)
(* of the commands needs the recursive function KeysIn, and with it some    *)
(* lemmas on the induction along a sequence.                                *)
(***************************************************************************)
EXTENDS EventLoop, FiniteSetTheorems, SequenceTheorems, TLAPS

(* When the callback that serves what waits since s is deferred at latest.  *)
Deadline(j, s) == s + Interval[j] + TickLag

(* Timer j has not fired since s, or a callback it deferred since then is   *)
(* still to run.                                                            *)
Waiting(j, s) ==
    \/ last[j] <= s
    \/ \E i \in 1 .. Len(deferred) :
          /\ deferred[i].job = j
          /\ s < deferred[i].at
          /\ deferred[i].at <= Deadline(j, s)

JobTested(i) == ticker = "sleeping" \/ (ticker = "testing" /\ i < test)

(* The commands that keys stand for.                                        *)
KeyCommand == {CommandOf(k) : k \in Key} \ {NoCommand}

(* tui_section_ and tui_row_.                                               *)
Screen == [section : 0 .. 4, row : Nat]

(* What the deferred callbacks are: only that of the screen carries commands. *)
Callbacks ==
    {c \in [job : Job, at : Nat, keys : Seq(KeyCommand)] : c.job # "screen" => c.keys = <<>>}

(* The parts of the state that the argument reads have their types.         *)
Typed ==
    /\ now \in Nat /\ looked \in Nat /\ seen \in Nat
    /\ phase \in {"booting", "running", "failed", "exited"}
    /\ ticker \in {"starting", "sleeping", "testing", "ended"}
    /\ test \in 0 .. 4
    /\ ticker = "testing" => test # 0
    /\ last \in [Job -> Nat]
    /\ commands \in Seq(KeyCommand)
    /\ deferred \in Seq(Callbacks)
    /\ answers \in BOOLEAN
    /\ pings \in SUBSET Nat
    /\ session \in {"none", "active", "reaped"}
    /\ moved \in Nat \cup {NoMove}

(* The clock of the ticker.                                                 *)
TickerInTime ==
    /\ looked <= now
    /\ ticker = "starting" => \A j \in Job : last[j] = now
    /\ ticker = "sleeping" => now <= looked + TickLag
    /\ ticker = "testing" => now = looked
    /\ ticker = "ended" => phase \in {"failed", "exited"}

(* No timer is later than its interval and a round of the ticker.           *)
TimersInTime ==
    /\ \A j \in Job : last[j] <= looked \/ ticker = "starting"
    /\ ticker # "ended" =>
          \A j \in Job : looked <= last[j] + Interval[j] + TickLag
    /\ \A i \in 1 .. 4 : JobTested(i) =>
          looked <= last[TestOrder[i]] + Interval[TestOrder[i]]

(* No callback and no PING is later than the bounds say.                    *)
CallbacksInTime ==
    \A i \in 1 .. Len(deferred) :
        /\ deferred[i].at <= now
        /\ phase \in {"booting", "running"} => now <= deferred[i].at + LoopLag

PingsInTime ==
    answers => \A p \in pings : p <= now /\ now <= p + LoopLag + ReplyLag

(* There are sessions and moves only while the program serves.              *)
Serving ==
    /\ session # "none" => phase = "running"
    /\ moved # NoMove => phase = "running" /\ moved <= now
    /\ seen <= now
    /\ session = "active" => heard = seen

MoveWaits == moved # NoMove => Waiting("move", moved)

ReapWaits == session = "active" => Waiting("reap", seen + IdleTimeout)

PingWaits ==
    session = "active" /\ answers =>
        \/ Waiting("heartbeat", seen)
        \/ \E p \in pings : seen < p /\ p <= Deadline("heartbeat", seen)

(* The part of TypeOK that the timers have nothing to do with.              *)
ScreenTyped ==
    /\ (ticker = "testing") <=> (test # 0)
    /\ section \in 0 .. 4
    /\ row \in Nat
    /\ heard \in Nat
    /\ accepted \in Seq(KeyCommand)
    /\ applied \in Seq(KeyCommand)

Inv ==
    /\ Typed /\ TickerInTime /\ TimersInTime /\ CallbacksInTime /\ PingsInTime
    /\ Serving /\ MoveWaits /\ ReapWaits /\ PingWaits /\ AnsweringClientIsKept

-----------------------------------------------------------------------------
(* Constants *)

LEMMA Constants ==
    /\ Second \in Nat \ {0} /\ IdleTimeout \in Nat
    /\ TickLag \in Nat \ {0} /\ LoopLag \in Nat /\ ReplyLag \in Nat
    /\ Interval \in [Job -> Nat]
    /\ Interval["reap"] = Second
    /\ Interval["move"] = Second \div MovementHz
    /\ Interval["heartbeat"] + TickLag + LoopLag + ReplyLag <= IdleTimeout
    /\ NoMove \in Int /\ NoMove \notin Nat
<1>1. HeartbeatSec * Second \in Nat /\ IdleTimeoutSec * Second \in Nat
  BY ConfigAssumption
<1>2. (HeartbeatSec + 1) * Second <= IdleTimeoutSec * Second
  BY ConfigAssumption
<1>3. HeartbeatSec * Second + Second <= IdleTimeoutSec * Second
  BY <1>2, ConfigAssumption
<1>4. Second \div MovementHz \in Nat
  BY ConfigAssumption
<1>5. \A j \in Job : Interval[j] \in Nat
  BY <1>1, <1>4, ConfigAssumption DEF Interval, Job, MoveInterval
<1>6. Interval \in [Job -> Nat]
  BY <1>5 DEF Interval
<1>7. /\ Interval["heartbeat"] = HeartbeatSec * Second
      /\ Interval["reap"] = Second
      /\ Interval["move"] = Second \div MovementHz
  BY DEF Interval, Job, MoveInterval
<1>8. TickLag \in Nat \ {0} /\ LoopLag \in Nat /\ ReplyLag \in Nat
      /\ TickLag + LoopLag + ReplyLag <= Second /\ Second \in Nat \ {0}
  BY LagAssumption, ConfigAssumption
<1>9. HeartbeatSec * Second + TickLag + LoopLag + ReplyLag <= IdleTimeoutSec * Second
  BY <1>1, <1>3, <1>8
<1> QED BY <1>1, <1>6, <1>7, <1>8, <1>9 DEF IdleTimeout, NoMove

LEMMA TestsAreJobs ==
    /\ Len(TestOrder) = 4
    /\ \A i \in 1 .. 4 : TestOrder[i] \in Job
    /\ \A j \in Job : \E i \in 1 .. 4 : TestOrder[i] = j
<1>1. /\ TestOrder[1] = "move" /\ TestOrder[2] = "heartbeat"
      /\ TestOrder[3] = "reap" /\ TestOrder[4] = "screen" /\ Len(TestOrder) = 4
  BY DEF TestOrder
<1> QED BY <1>1 DEF Job

(* A member of a sequence, what is at its end, and what it leaves behind.    *)
LEMMA Members ==
    ASSUME NEW S, NEW s \in Seq(S)
    PROVE  /\ Len(s) \in Nat
           /\ \A i \in 1 .. Len(s) : s[i] \in S
  OBVIOUS

LEMMA Appended ==
    ASSUME NEW S, NEW s \in Seq(S), NEW e \in S
    PROVE  /\ Append(s, e) \in Seq(S)
           /\ Len(Append(s, e)) = Len(s) + 1
           /\ \A i \in 1 .. Len(s) : Append(s, e)[i] = s[i]
           /\ Append(s, e)[Len(s) + 1] = e
  OBVIOUS

LEMMA HeadGone ==
    ASSUME NEW S, NEW s \in Seq(S), s # <<>>
    PROVE  /\ Tail(s) \in Seq(S)
           /\ Head(s) = s[1] /\ 1 \in 1 .. Len(s)
           /\ Len(Tail(s)) = Len(s) - 1
           /\ \A i \in 1 .. Len(s) - 1 : Tail(s)[i] = s[i + 1]
  OBVIOUS

LEMMA DeferredTyped ==
    ASSUME Typed
    PROVE  /\ Len(deferred) \in Nat
           /\ \A i \in 1 .. Len(deferred) :
                 deferred[i].job \in Job /\ deferred[i].at \in Nat
<1>1. deferred \in Seq(Callbacks)
  BY DEF Typed
<1>2. \A i \in 1 .. Len(deferred) : deferred[i] \in Callbacks
  BY <1>1, Members
<1> QED BY <1>1, <1>2, Members DEF Callbacks

-----------------------------------------------------------------------------
(* Recursive functions *)

(* Every set of natural numbers that is not empty has a least element.     *)
LEMMA LeastElement ==
    ASSUME NEW S \in SUBSET Nat, S # {}
    PROVE  \E m \in S : \A n \in S : m <= n
<1> DEFINE T == {0 .. m - 1 : m \in S}
<1>1. T # {} /\ T \subseteq FiniteSubsetsOf(Nat)
  <2>1. \A m \in S : (0 .. m-1) \in SUBSET Nat /\ IsFiniteSet(0 .. m-1)
    BY FS_Interval
  <2> QED BY <2>1 DEF FiniteSubsetsOf
<1>2. \E X \in T : \A Y \in T : <<Y, X>> \notin StrictSubsetOrdering(Nat)
  <2> HIDE DEF T
  <2> QED BY <1>1, FS_StrictSubsetOrderingWellFounded, WFMin
<1>3. PICK m \in S : \A Y \in T : <<Y, 0 .. m-1>> \notin StrictSubsetOrdering(Nat)
  BY <1>2
<1>4. ASSUME NEW n \in S, n < m
      PROVE  FALSE
  <2> DEFINE X == 0 .. m-1
             Y == 0 .. n-1
  <2>1. Y \subseteq X /\ n \in X /\ n \notin Y
    BY <1>4
  <2>2. X \in SUBSET Nat /\ Y \in SUBSET Nat
    OBVIOUS
  <2>3. <<Y, X>> \in StrictSubsetOrdering(Nat)
    BY <2>1, <2>2 DEF StrictSubsetOrdering
  <2> QED BY <1>3, <2>3
<1>5. \A n \in S : m <= n
  BY <1>4
<1> QED BY <1>5

(* Induction up to n, for the set of the numbers with some property.        *)
LEMMA UpTo ==
    ASSUME NEW n \in Nat, NEW T, 0 \in T,
           \A i \in 0 .. n - 1 : i \in T => i + 1 \in T
    PROVE  \A i \in 0 .. n : i \in T
<1> SUFFICES ASSUME NEW k \in 0 .. n, k \notin T
             PROVE  FALSE
  OBVIOUS
<1> DEFINE S == {i \in 0 .. n : i \notin T}
<1>1. PICK m \in S : \A i \in S : m <= i
  <2>1. S \in SUBSET Nat /\ S # {}
    OBVIOUS
  <2> HIDE DEF S
  <2> QED BY <2>1, LeastElement
<1>2. m # 0 /\ m - 1 \in 0 .. n - 1
  OBVIOUS
<1>3. m - 1 \in T
  BY <1>1, <1>2
<1> QED BY <1>2, <1>3

(* A function on 0 .. n can be defined by its value at 0 and by what one    *)
(* step makes of a value.                                                   *)
Iterates(f, n, a, step) ==
    f[0] = a /\ \A i \in 1 .. n : f[i] = step[<<f[i - 1], i>>]

LEMMA RecursiveFunction ==
    ASSUME NEW n \in Nat, NEW S, NEW a \in S, NEW step \in [S \X (1 .. n) -> S]
    PROVE  \E f \in [0 .. n -> S] : Iterates(f, n, a, step)
<1> USE DEF Iterates
<1> DEFINE Upto(m) == \E f \in [0 .. m -> S] :
                         f[0] = a /\ \A i \in 1 .. m : f[i] = step[<<f[i - 1], i>>]
           T == {m \in 0 .. n : Upto(m)}
<1>1. 0 \in T
  <2>1. [i \in 0 .. 0 |-> a] \in [0 .. 0 -> S]
    OBVIOUS
  <2>2. [i \in 0 .. 0 |-> a][0] = a
    OBVIOUS
  <2>3. Upto(0)
    <3> DEFINE f == [i \in 0 .. 0 |-> a]
    <3>1. f \in [0 .. 0 -> S] /\ f[0] = a /\ \A i \in 1 .. 0 : f[i] = step[<<f[i - 1], i>>]
      BY <2>1, <2>2
    <3> HIDE DEF f
    <3> QED BY <3>1
  <2> QED BY <2>3
<1>2. ASSUME NEW m \in 0 .. n - 1, m \in T
      PROVE  m + 1 \in T
  <2>1. PICK f \in [0 .. m -> S] :
                f[0] = a /\ \A i \in 1 .. m : f[i] = step[<<f[i - 1], i>>]
    BY <1>2
  <2> DEFINE v == step[<<f[m], m + 1>>]
             g == [i \in 0 .. m + 1 |-> IF i <= m THEN f[i] ELSE v]
  <2>2. v \in S
    <3>1. f[m] \in S /\ m + 1 \in 1 .. n
      BY <2>1
    <3>2. <<f[m], m + 1>> \in S \X (1 .. n)
      BY <3>1
    <3> QED BY <3>2
  <2>3. g \in [0 .. m + 1 -> S] /\ g[0] = a
    <3> HIDE DEF v
    <3> QED BY <2>1, <2>2
  <2>4. ASSUME NEW i \in 1 .. m + 1
        PROVE  g[i] = step[<<g[i - 1], i>>]
    <3>1. CASE i <= m
      <4>1. i \in 1 .. m /\ g[i] = f[i] /\ g[i - 1] = f[i - 1]
        BY <3>1
      <4> QED BY <2>1, <4>1
    <3>2. CASE i = m + 1
      <4>1. g[i] = v /\ g[i - 1] = f[m]
        BY <3>2
      <4> QED BY <3>2, <4>1
    <3> QED BY <3>1, <3>2
  <2> HIDE DEF g
  <2>5. Upto(m + 1)
    BY <2>3, <2>4
  <2> QED BY <2>5
<1>3. n \in T
  <2> HIDE DEF T
  <2>1. \A i \in 0 .. n - 1 : i \in T => i + 1 \in T
    BY <1>2
  <2>2. \A i \in 0 .. n : i \in T
    BY <1>1, <2>1, UpTo, Zenon
  <2> QED BY <2>2
<1> QED BY <1>3

(* Two functions that agree at 0 and are continued in the same way agree.   *)
LEMMA Agree ==
    ASSUME NEW n \in Nat, NEW f, NEW g, f[0] = g[0],
           \A i \in 1 .. n : f[i - 1] = g[i - 1] => f[i] = g[i]
    PROVE  f[n] = g[n]
<1> DEFINE T == {i \in 0 .. n : f[i] = g[i]}
<1>1. 0 \in T
  OBVIOUS
<1>2. ASSUME NEW i \in 0 .. n - 1, i \in T
      PROVE  i + 1 \in T
  <2>1. i + 1 \in 1 .. n /\ f[(i + 1) - 1] = g[(i + 1) - 1]
    BY <1>2
  <2> QED BY <2>1
<1>3. n \in T
  <2> HIDE DEF T
  <2>1. \A i \in 0 .. n - 1 : i \in T => i + 1 \in T
    BY <1>2
  <2>2. \A i \in 0 .. n : i \in T
    BY <1>1, <2>1, UpTo, Zenon
  <2> QED BY <2>2
<1> QED BY <1>3
(* It does not matter how a concatenation is grouped.                       *)
LEMMA Regrouped ==
    ASSUME NEW a \in Seq(KeyCommand), NEW b \in Seq(KeyCommand), NEW c \in Seq(KeyCommand)
    PROVE  (a \o b) \o c = a \o (b \o c)
BY ConcatAssociative

(* Sequences can be appended one after the other.                           *)
Concatenates(f, n, e) ==
    f[0] = <<>> /\ \A i \in 1 .. n : f[i] = f[i - 1] \o e[i]

LEMMA Concatenation ==
    ASSUME NEW n \in Nat, NEW V, NEW e \in [1 .. n -> Seq(V)]
    PROVE  \E f \in [0 .. n -> Seq(V)] : Concatenates(f, n, e)
<1> DEFINE S == Seq(V)
           step == [x \in S \X (1 .. n) |-> x[1] \o e[x[2]]]
<1>1. <<>> \in S
  OBVIOUS
<1>2. \A s \in S, i \in 1 .. n : s \o e[i] \in S
  BY ConcatProperties
<1> HIDE DEF S
<1>3. step \in [S \X (1 .. n) -> S]
  BY <1>2
<1>4. \A s \in S, i \in 1 .. n : step[<<s, i>>] = s \o e[i]
  OBVIOUS
<1>5. PICK f \in [0 .. n -> S] : Iterates(f, n, <<>>, step)
  <2> HIDE DEF step
  <2> QED BY <1>1, <1>3, RecursiveFunction
<1>6. f[0] = <<>> /\ \A i \in 1 .. n : f[i] = step[<<f[i - 1], i>>]
  <2> HIDE DEF step
  <2> QED BY <1>5 DEF Iterates
<1>7. \A i \in 1 .. n : f[i] = f[i - 1] \o e[i]
  <2> HIDE DEF step
  <2>1. \A i \in 1 .. n : f[i - 1] \in S
    OBVIOUS
  <2> QED BY <1>4, <1>6, <2>1
<1> QED BY <1>6, <1>7 DEF S, Concatenates

(* The equations of KeysIn.                                                 *)
ComputesKeys(f, n, q) ==
    /\ f[0] = <<>>
    /\ \A i \in 1 .. n : f[i] = f[i - 1] \o q[i].keys
    /\ KeysIn(q) = f[n]

LEMMA KeysInDef ==
    ASSUME NEW q \in Seq(Callbacks)
    PROVE  \E f \in [0 .. Len(q) -> Seq(KeyCommand)] : ComputesKeys(f, Len(q), q)
<1> DEFINE n == Len(q)
           S == Seq(KeyCommand)
           keys[i \in 0 .. n] == IF i = 0 THEN <<>> ELSE keys[i - 1] \o q[i].keys
<1>1. n \in Nat
  OBVIOUS
<1>2. \A i \in 1 .. n : q[i].keys \in S
  <2>1. \A i \in 1 .. n : q[i] \in Callbacks
    BY Members
  <2> QED BY <2>1 DEF Callbacks
<1>3. KeysIn(q) = keys[n]
  BY DEF KeysIn
<1> HIDE DEF n
<1>4. PICK f \in [0 .. n -> S] : f[0] = <<>> /\ \A i \in 1 .. n : f[i] = f[i - 1] \o q[i].keys
  <2> DEFINE e == [i \in 1 .. n |-> q[i].keys]
  <2>1. e \in [1 .. n -> S] /\ \A i \in 1 .. n : e[i] = q[i].keys
    BY <1>2
  <2> HIDE DEF e
  <2>2. \E f \in [0 .. n -> S] : Concatenates(f, n, e)
    BY <1>1, <2>1, Concatenation
  <2> QED BY <2>1, <2>2 DEF Concatenates
<1> HIDE DEF S
<1>5. f = [i \in 0 .. n |-> IF i = 0 THEN <<>> ELSE f[i - 1] \o q[i].keys]
  <2>1. \A i \in 0 .. n : f[i] = IF i = 0 THEN <<>> ELSE f[i - 1] \o q[i].keys
    BY <1>1, <1>4
  <2> QED BY <2>1
<1>6. keys = [i \in 0 .. n |-> IF i = 0 THEN <<>> ELSE keys[i - 1] \o q[i].keys]
  BY <1>5, Zenon
<1>7. keys[n] = f[n]
  <2> HIDE DEF keys
  <2>1. keys[0] = f[0]
    BY <1>1, <1>4, <1>6
  <2>2. \A i \in 1 .. n : keys[i - 1] = f[i - 1] => keys[i] = f[i]
    <3>1. \A i \in 1 .. n : keys[i] = keys[i - 1] \o q[i].keys
      BY <1>1, <1>6
    <3> QED BY <1>4, <3>1
  <2> QED BY <1>1, <2>1, <2>2, Agree
<1>8. ComputesKeys(f, n, q)
  BY <1>3, <1>4, <1>7 DEF ComputesKeys
<1> QED BY <1>8 DEF n, S

LEMMA KeysInNothing == KeysIn(<<>>) = <<>>
<1>1. <<>> \in Seq(Callbacks) /\ Len(<<>>) = 0
  OBVIOUS
<1> QED BY <1>1, KeysInDef DEF ComputesKeys

LEMMA KeysInTyped ==
    ASSUME NEW q \in Seq(Callbacks)
    PROVE  KeysIn(q) \in Seq(KeyCommand)
<1>1. PICK f \in [0 .. Len(q) -> Seq(KeyCommand)] : ComputesKeys(f, Len(q), q)
  BY KeysInDef
<1>2. Len(q) \in 0 .. Len(q)
  OBVIOUS
<1>3. KeysIn(q) = f[Len(q)]
  BY <1>1 DEF ComputesKeys
<1> HIDE DEF KeysIn
<1> QED BY <1>2, <1>3

LEMMA KeysInAppend ==
    ASSUME NEW q \in Seq(Callbacks), NEW c \in Callbacks
    PROVE  KeysIn(Append(q, c)) = KeysIn(q) \o c.keys
<1> DEFINE n == Len(q)
           r == Append(q, c)
<1>1. /\ r \in Seq(Callbacks) /\ Len(r) = n + 1 /\ n \in Nat
      /\ \A i \in 1 .. n : r[i] = q[i]
      /\ r[n + 1] = c
  BY Appended, Members
<1>2. PICK f : ComputesKeys(f, n, q)
  BY KeysInDef
<1> HIDE DEF n, r
<1>3. PICK g : ComputesKeys(g, n + 1, r)
  BY <1>1, KeysInDef
<1>4. f[n] = g[n]
  <2>1. ASSUME NEW i \in 1 .. n, f[i - 1] = g[i - 1]
        PROVE  f[i] = g[i]
    <3>1. f[i] = f[i - 1] \o q[i].keys
      BY <1>2 DEF ComputesKeys
    <3>2. r[i] = q[i] /\ i \in 1 .. n + 1
      BY <1>1
    <3>3. g[i] = g[i - 1] \o r[i].keys
      BY <1>3, <3>2 DEF ComputesKeys
    <3> QED BY <2>1, <3>1, <3>2, <3>3
  <2>2. f[0] = g[0]
    BY <1>2, <1>3 DEF ComputesKeys
  <2>3. \A i \in 1 .. n : f[i - 1] = g[i - 1] => f[i] = g[i]
    BY <2>1
  <2> QED BY <1>1, <2>2, <2>3, Agree
<1>5. g[n + 1] = g[n] \o c.keys
  <2>1. n + 1 \in 1 .. n + 1 /\ (n + 1) - 1 = n
    BY <1>1
  <2>2. g[n + 1] = g[(n + 1) - 1] \o r[n + 1].keys
    BY <1>3, <2>1 DEF ComputesKeys
  <2> QED BY <1>1, <2>1, <2>2
<1>6. KeysIn(q) = f[n] /\ KeysIn(r) = g[n + 1]
  BY <1>2, <1>3 DEF ComputesKeys
<1> QED BY <1>4, <1>5, <1>6 DEF r

LEMMA KeysInTail ==
    ASSUME NEW q \in Seq(Callbacks), q # <<>>
    PROVE  KeysIn(q) = Head(q).keys \o KeysIn(Tail(q))
<1> DEFINE n == Len(q) - 1
           r == Tail(q)
           h == Head(q).keys
           K == Seq(KeyCommand)
<1>1. /\ r \in Seq(Callbacks) /\ Len(r) = n /\ n \in Nat /\ Len(q) = n + 1
      /\ \A i \in 1 .. n : r[i] = q[i + 1]
      /\ q[1].keys = h /\ h \in K
      /\ \A i \in 1 .. n : r[i].keys \in K
  <2>1. /\ r \in Seq(Callbacks) /\ Head(q) = q[1] /\ 1 \in 1 .. Len(q)
        /\ Len(r) = Len(q) - 1
        /\ \A i \in 1 .. Len(q) - 1 : r[i] = q[i + 1]
    BY HeadGone
  <2>2. q[1] \in Callbacks /\ Len(q) \in Nat
    BY <2>1, Members
  <2>3. \A i \in 1 .. n : r[i] \in Callbacks
    BY <2>1, Members
  <2>4. h \in K /\ \A i \in 1 .. n : r[i].keys \in K
    BY <2>1, <2>2, <2>3 DEF Callbacks
  <2> QED BY <2>1, <2>2, <2>4
<1> HIDE DEF n, r, h, K
<1>0. PICK f : ComputesKeys(f, n + 1, q)
  BY <1>1, KeysInDef
<1>2. /\ f[0] = <<>>
      /\ \A i \in 1 .. n + 1 : f[i] = f[i - 1] \o q[i].keys
      /\ KeysIn(q) = f[n + 1]
  BY <1>0 DEF ComputesKeys
<1>8. PICK g \in [0 .. n -> K] : ComputesKeys(g, n, r)
  BY <1>1, KeysInDef DEF K
<1>3. /\ g[0] = <<>>
      /\ \A i \in 1 .. n : g[i] = g[i - 1] \o r[i].keys
      /\ KeysIn(r) = g[n]
  BY <1>8 DEF ComputesKeys
<1> DEFINE F == [i \in 0 .. n |-> f[i + 1]]
           G == [i \in 0 .. n |-> h \o g[i]]
<1>9. \A i \in 0 .. n : F[i] = f[i + 1] /\ G[i] = h \o g[i]
  OBVIOUS
<1>10. n \in Nat
  BY <1>1
<1> HIDE DEF F, G
<1>4. F[0] = G[0]
  <2>1. f[1] = <<>> \o h
    <3>1. 1 \in 1 .. n + 1 /\ 1 - 1 = 0
      BY <1>1
    <3>2. f[1] = f[1 - 1] \o q[1].keys
      BY <1>2, <3>1
    <3>3. q[1].keys = h
      BY <1>1
    <3>4. f[1 - 1] = <<>>
      BY <1>2, <3>1
    <3> QED BY <3>2, <3>3, <3>4, Zenon
  <2>2. <<>> \o h = h /\ h \o <<>> = h
    BY <1>1, ConcatEmptySeq DEF K
  <2>3. 0 \in 0 .. n /\ 0 + 1 = 1
    BY <1>10
  <2>4. F[0] = f[1] /\ G[0] = h \o <<>>
    BY <1>3, <1>9, <2>3
  <2> QED BY <2>1, <2>2, <2>4
<1>5. ASSUME NEW i \in 1 .. n, F[i - 1] = G[i - 1]
      PROVE  F[i] = G[i]
  <2>1. f[i] = h \o g[i - 1]
    <3>1. i - 1 \in 0 .. n /\ (i - 1) + 1 = i
      BY <1>10
    <3>2. F[i - 1] = f[(i - 1) + 1] /\ G[i - 1] = h \o g[i - 1]
      BY <1>9, <3>1
    <3> QED BY <1>5, <3>1, <3>2
  <2>2. f[i + 1] = f[i] \o r[i].keys
    <3>1. i + 1 \in 1 .. n + 1 /\ (i + 1) - 1 = i
      BY <1>1
    <3>2. f[i + 1] = f[(i + 1) - 1] \o q[i + 1].keys
      BY <1>2, <3>1
    <3>3. q[i + 1] = r[i]
      BY <1>1
    <3> QED BY <3>1, <3>2, <3>3
  <2>3. g[i - 1] \in K /\ r[i].keys \in K
    BY <1>1
  <2>4. (h \o g[i - 1]) \o r[i].keys = h \o (g[i - 1] \o r[i].keys)
    <3>1. h \in K
      BY <1>1
    <3>2. \A a, b, c \in K : (a \o b) \o c = a \o (b \o c)
      BY Regrouped DEF K
    <3> QED BY <2>3, <3>1, <3>2, Zenon
  <2>6. g[i] = g[i - 1] \o r[i].keys
    BY <1>3
  <2>5. f[i + 1] = h \o g[i]
    BY <2>1, <2>2, <2>4, <2>6
  <2>7. i \in 0 .. n
    BY <1>10
  <2> QED BY <1>9, <2>5, <2>7
<1>6. F[n] = G[n]
  <2>1. \A i \in 1 .. n : F[i - 1] = G[i - 1] => F[i] = G[i]
    BY <1>5
  <2> QED BY <1>4, <1>10, <2>1, Agree
<1>7. f[n + 1] = h \o g[n]
  <2>1. n \in 0 .. n
    BY <1>10
  <2> QED BY <1>6, <1>9, <2>1
<1> QED BY <1>2, <1>3, <1>7 DEF r, h

LEMMA KeyCommands ==
    KeyCommand \subseteq {"NextSection", "RowDown", "RowUp", "Section1", "Section2",
                          "Section3", "Section4", "Section5"}
<1> SUFFICES ASSUME NEW k \in Key, CommandOf(k) # NoCommand
             PROVE  CommandOf(k) \in {"NextSection", "RowDown", "RowUp", "Section1",
                                      "Section2", "Section3", "Section4", "Section5"}
  BY DEF KeyCommand
<1>1. \A n \in 1 .. 5 : SectionCommand[n] \in {"Section1", "Section2", "Section3",
                                               "Section4", "Section5"}
  BY DEF SectionCommand
<1>2. CASE \E n \in 1 .. 5 : k = Digit[n]
  <2> DEFINE m == CHOOSE n \in 1 .. 5 : k = Digit[n]
  <2>1. m \in 1 .. 5
    BY <1>2
  <2>2. SectionCommand[m] \in {"Section1", "Section2", "Section3", "Section4", "Section5"}
    BY <1>1, <2>1
  <2> HIDE DEF m
  <2>3. CommandOf(k) \in {"NextSection", "RowDown", "RowUp", SectionCommand[m]}
    BY <1>2 DEF CommandOf, m
  <2> QED BY <2>2, <2>3
<1>3. CASE ~\E n \in 1 .. 5 : k = Digit[n]
  <2>1. CommandOf(k) \in {"NextSection", "RowDown", "RowUp", NoCommand}
    BY <1>3 DEF CommandOf
  <2> QED BY <2>1
<1> QED BY <1>2, <1>3

(* Whatever the command, the row does not go below the first, and the       *)
(* section is one of the five.                                              *)
LEMMA ApplyTyped ==
    ASSUME NEW screen \in Screen, NEW c \in KeyCommand
    PROVE  ApplyTuiCommand(screen, c) \in Screen
<1>1. screen.section \in 0 .. 4 /\ screen.row \in Nat
  BY DEF Screen
<1>2. c \in {"NextSection", "RowDown", "RowUp", "Section1", "Section2", "Section3",
             "Section4", "Section5"}
  BY KeyCommands
<1>3. \A n \in 0 .. 4 : Select(n) \in Screen
  BY DEF Select, Screen
<1>4. CASE c = "NextSection"
  <2>1. (screen.section + 1) % 5 \in 0 .. 4
    BY <1>1
  <2> QED BY <1>3, <1>4, <2>1 DEF ApplyTuiCommand
<1>5. CASE c = "RowDown"
  BY <1>1, <1>5 DEF ApplyTuiCommand, Screen
<1>6. CASE c = "RowUp"
  <2>1. (IF screen.row > 0 THEN screen.row - 1 ELSE 0) \in Nat
    BY <1>1
  <2> QED BY <1>1, <1>6, <2>1 DEF ApplyTuiCommand, Screen
<1>7. CASE c \notin {"NextSection", "RowDown", "RowUp"}
  <2>1. \E n \in 0 .. 4 : c = SectionCommand[n + 1]
    <3>1. /\ SectionCommand[0 + 1] = "Section1" /\ SectionCommand[1 + 1] = "Section2"
          /\ SectionCommand[2 + 1] = "Section3" /\ SectionCommand[3 + 1] = "Section4"
          /\ SectionCommand[4 + 1] = "Section5"
      BY DEF SectionCommand
    <3> QED BY <1>2, <1>7, <3>1
  <2> DEFINE m == CHOOSE n \in 0 .. 4 : c = SectionCommand[n + 1]
  <2>2. m \in 0 .. 4
    BY <2>1
  <2>3. ApplyTuiCommand(screen, c) = Select(m)
    BY <1>7 DEF ApplyTuiCommand
  <2> HIDE DEF m
  <2> QED BY <1>3, <2>2, <2>3
<1> QED BY <1>4, <1>5, <1>6, <1>7

LEMMA ApplyAllTyped ==
    ASSUME NEW screen \in Screen, NEW cs \in Seq(KeyCommand)
    PROVE  ApplyAll(screen, cs) \in Screen
<1> DEFINE n == Len(cs)
           after[i \in 0 .. n] ==
              IF i = 0 THEN screen ELSE ApplyTuiCommand(after[i - 1], cs[i])
           step == [x \in Screen \X (1 .. n) |-> ApplyTuiCommand(x[1], cs[x[2]])]
<1>1. n \in Nat /\ \A i \in 1 .. n : cs[i] \in KeyCommand
  BY Members
<1>2. ApplyAll(screen, cs) = after[n]
  BY DEF ApplyAll
<1> HIDE DEF n
<1>3. step \in [Screen \X (1 .. n) -> Screen]
  BY <1>1, ApplyTyped
<1>4. \A t \in Screen, i \in 1 .. n : step[<<t, i>>] = ApplyTuiCommand(t, cs[i])
  OBVIOUS
<1> HIDE DEF step
<1>5. PICK f \in [0 .. n -> Screen] : Iterates(f, n, screen, step)
  BY <1>1, <1>3, RecursiveFunction
<1>6. f[0] = screen /\ \A i \in 1 .. n : f[i] = ApplyTuiCommand(f[i - 1], cs[i])
  <2>1. \A i \in 1 .. n : f[i - 1] \in Screen /\ f[i] = step[<<f[i - 1], i>>]
    BY <1>1, <1>5 DEF Iterates
  <2>2. \A i \in 1 .. n : f[i] = ApplyTuiCommand(f[i - 1], cs[i])
    BY <1>4, <2>1
  <2> QED BY <1>5, <2>2 DEF Iterates
<1>7. f = [i \in 0 .. n |-> IF i = 0 THEN screen ELSE ApplyTuiCommand(f[i - 1], cs[i])]
  <2>1. \A i \in 0 .. n : f[i] = IF i = 0 THEN screen ELSE ApplyTuiCommand(f[i - 1], cs[i])
    BY <1>1, <1>6
  <2> QED BY <2>1
<1>8. after = [i \in 0 .. n |->
                  IF i = 0 THEN screen ELSE ApplyTuiCommand(after[i - 1], cs[i])]
  BY <1>7, Zenon
<1>9. after[n] = f[n]
  <2> HIDE DEF after
  <2>1. after[0] = f[0]
    BY <1>1, <1>6, <1>8
  <2>2. \A i \in 1 .. n : after[i - 1] = f[i - 1] => after[i] = f[i]
    <3>1. \A i \in 1 .. n : after[i] = ApplyTuiCommand(after[i - 1], cs[i])
      BY <1>1, <1>8
    <3> QED BY <1>6, <3>1
  <2> QED BY <1>1, <2>1, <2>2, Agree
<1>10. n \in 0 .. n
  BY <1>1
<1> QED BY <1>2, <1>9, <1>10

-----------------------------------------------------------------------------
(* What the clock is at most *)

(* Wherever the ticker is in its round, no timer is overdue by more than a  *)
(* round.                                                                   *)
LEMMA TimersNotOverdue ==
    ASSUME Typed, TickerInTime, TimersInTime, phase = "running", NEW j \in Job
    PROVE  now <= last[j] + Interval[j] + TickLag
<1>1. /\ last[j] \in Nat /\ Interval[j] \in Nat /\ TickLag \in Nat
      /\ now \in Nat /\ looked \in Nat
  BY Constants DEF Typed
<1>2. CASE ticker = "starting"
  BY <1>1, <1>2 DEF TickerInTime
<1>3. CASE ticker = "testing"
  BY <1>1, <1>3 DEF TickerInTime, TimersInTime
<1>4. CASE ticker = "sleeping"
  <2>1. PICK i \in 1 .. 4 : TestOrder[i] = j
    BY TestsAreJobs
  <2>2. looked <= last[j] + Interval[j]
    BY <2>1, <1>4 DEF TimersInTime, JobTested
  <2> QED BY <1>1, <1>4, <2>2 DEF TickerInTime
<1> QED BY <1>2, <1>3, <1>4 DEF Typed, TickerInTime

(* What waits, waits no longer than until its deadline and the lag of the   *)
(* loop.                                                                    *)
LEMMA WaitingIsShort ==
    ASSUME Typed, TickerInTime, TimersInTime, CallbacksInTime, phase = "running",
           NEW j \in Job, NEW s \in Nat, Waiting(j, s)
    PROVE  now <= Deadline(j, s) + LoopLag
<1>1. /\ last[j] \in Nat /\ Interval[j] \in Nat /\ TickLag \in Nat
      /\ LoopLag \in Nat /\ now \in Nat
  BY Constants DEF Typed
<1>2. CASE last[j] <= s
  BY <1>1, <1>2, TimersNotOverdue DEF Deadline
<1>3. CASE \E i \in 1 .. Len(deferred) :
              deferred[i].job = j /\ s < deferred[i].at /\ deferred[i].at <= Deadline(j, s)
  <2>1. PICK i \in 1 .. Len(deferred) : deferred[i].at <= Deadline(j, s)
    BY <1>3
  <2>2. deferred[i].at \in Nat
    BY <2>1, DeferredTyped
  <2>3. now <= deferred[i].at + LoopLag
    BY <2>1 DEF CallbacksInTime
  <2> QED BY <1>1, <2>1, <2>2, <2>3 DEF Deadline
<1> QED BY <1>2, <1>3 DEF Waiting

-----------------------------------------------------------------------------
(* The invariant *)

LEMMA InitImpliesInv == Init => Inv
<1> SUFFICES ASSUME Init
             PROVE  Inv
  OBVIOUS
<1>1. Typed
  <2>1. <<>> \in Seq(KeyCommand) /\ <<>> \in Seq(Callbacks)
    OBVIOUS
  <2> QED BY <2>1, Constants DEF Init, Typed
<1>2. TickerInTime /\ CallbacksInTime /\ PingsInTime /\ Serving
  BY DEF Init, TickerInTime, CallbacksInTime, PingsInTime, Serving
<1>3. TimersInTime
  <2>1. \A j \in Job : last[j] = 0 /\ Interval[j] \in Nat
    BY Constants DEF Init
  <2> QED BY <2>1, Constants DEF Init, TimersInTime, JobTested
<1>4. MoveWaits /\ ReapWaits /\ PingWaits /\ AnsweringClientIsKept
  BY DEF Init, MoveWaits, ReapWaits, PingWaits, AnsweringClientIsKept
<1> QED BY <1>1, <1>2, <1>3, <1>4 DEF Inv

LEMMA TypedNext ==
    ASSUME Typed, [Next]_vars
    PROVE  Typed'
<1>1. deferred \in Seq(Callbacks) /\ commands \in Seq(KeyCommand)
  BY DEF Typed
<1>2. CASE Pass
  BY <1>2 DEF Typed, Pass, loopVars, screenVars, clientVars
<1>3. CASE ListenSucceeds \/ ListenFails \/ Exit
  BY <1>3 DEF Typed, ListenSucceeds, ListenFails, Exit, screenVars, clientVars
<1>4. CASE StartTicker
  BY <1>4 DEF Typed, StartTicker, screenVars, clientVars
<1>5. CASE Wake
  BY <1>5 DEF Typed, Wake, screenVars, clientVars
<1>6. CASE TestTimer
  <2>1. test \in 1 .. 4
    BY <1>6 DEF Typed, TestTimer
  <2> DEFINE j == TestOrder[test]
  <2>2. j \in Job
    BY <2>1, TestsAreJobs
  <2>3. Drain(j) \in Seq(KeyCommand) /\ Carried(j) \in Seq(KeyCommand)
    BY <1>1 DEF Drain, Carried
  <2>4. Callback(j) \in Callbacks
    BY <2>2, <2>3 DEF Typed, Callback, Callbacks, Carried
  <2>5. /\ last' \in [Job -> Nat]
        /\ deferred' \in Seq(Callbacks)
        /\ commands' \in Seq(KeyCommand)
    <3>1. Append(deferred, Callback(j)) \in Seq(Callbacks)
      BY <1>1, <2>4, Appended
    <3> QED BY <1>6, <1>1, <2>3, <3>1 DEF Typed, TestTimer
  <2>6. /\ test' \in 0 .. 4
        /\ ticker' \in {"sleeping", "testing", "ended"}
        /\ ticker' = "testing" => test' # 0
    BY <1>6, <2>1, TestsAreJobs DEF TestTimer, NextTest
  <2> QED BY <1>6, <2>5, <2>6 DEF Typed, TestTimer, clientVars
<1>7. ASSUME NEW k \in Key, Press(k)
      PROVE  Typed'
  <2>1. CommandOf(k) \in KeyCommand
    BY <1>7 DEF KeyCommand, Press
  <2>2. commands' \in Seq(KeyCommand)
    BY <1>1, <1>7, <2>1, Appended DEF Press, Push
  <2> QED BY <1>7, <2>2 DEF Typed, Press, loopVars, clientVars
<1>8. CASE Loop
  <2>1. deferred' \in Seq(Callbacks)
    <3>1. deferred # <<>> /\ deferred' = Tail(deferred)
      BY <1>8 DEF Loop, FlushMoves, PublishPing, ReapStaleSockets, DrawScreen, Runs
    <3> QED BY <1>1, <3>1, HeadGone
  <2>2. CASE PublishPing
    <3>1. Head(deferred).at \in Nat
      BY <1>1, <2>2, HeadGone, DeferredTyped DEF PublishPing, Runs
    <3> QED BY <2>1, <2>2, <3>1 DEF Typed, PublishPing, Runs, loopVars, screenVars
  <2>3. CASE FlushMoves
    BY <2>1, <2>3 DEF Typed, FlushMoves, Runs, loopVars, screenVars
  <2>4. CASE ReapStaleSockets
    BY <2>1, <2>4 DEF Typed, ReapStaleSockets, Runs, loopVars, screenVars
  <2>5. CASE DrawScreen
    BY <2>1, <2>5 DEF Typed, DrawScreen, Runs, loopVars, clientVars
  <2> QED BY <1>8, <2>2, <2>3, <2>4, <2>5 DEF Loop
<1>9. CASE Hello
  BY <1>9 DEF Typed, Hello, loopVars, screenVars
<1>10. CASE Move
  BY <1>10 DEF Typed, Move, loopVars, screenVars
<1>11. CASE Pong
  BY <1>11 DEF Typed, Pong, SeenNow, loopVars, screenVars
<1>12. CASE FallSilent
  BY <1>12 DEF Typed, FallSilent, loopVars, screenVars
<1>13. CASE UNCHANGED vars
  BY <1>13 DEF Typed, vars, loopVars, screenVars, clientVars
<1> QED BY <1>2, <1>3, <1>4, <1>5, <1>6, <1>7, <1>8, <1>9, <1>10, <1>11, <1>12, <1>13
         DEF Next, Ticker

(* The steps that leave the clock, the threads and the callbacks alone.     *)
ClientStep ==
    \/ \E k \in Key : Press(k)
    \/ Hello \/ Move \/ Pong \/ FallSilent
    \/ UNCHANGED vars

LEMMA ClientStepsKeepClock ==
    ASSUME ClientStep
    PROVE  UNCHANGED <<now, phase, ticker, test, looked, last, deferred>>
BY DEF ClientStep, Press, Hello, Move, Pong, FallSilent, vars, loopVars

LEMMA LoopKeepsClock ==
    ASSUME Loop
    PROVE  /\ UNCHANGED <<now, phase, ticker, test, looked, last>>
           /\ phase = "running" /\ deferred # <<>> /\ deferred' = Tail(deferred)
BY DEF Loop, FlushMoves, PublishPing, ReapStaleSockets, DrawScreen, Runs, loopVars

LEMMA TickerNext ==
    ASSUME Typed, TickerInTime, TimersInTime, [Next]_vars
    PROVE  TickerInTime' /\ TimersInTime'
<1>1. /\ now \in Nat /\ looked \in Nat /\ TickLag \in Nat
      /\ \A j \in Job : last[j] \in Nat /\ Interval[j] \in Nat
  BY Constants DEF Typed
<1>2. CASE Pass
  BY <1>1, <1>2 DEF Pass, TickerInTime, TimersInTime, JobTested, loopVars
<1>3. CASE ListenSucceeds \/ ListenFails \/ Exit
  BY <1>3 DEF ListenSucceeds, ListenFails, Exit, TickerInTime, TimersInTime, JobTested
<1>4. CASE StartTicker
  <2>1. /\ now' = now /\ phase' = phase /\ looked' = now /\ test' = test
        /\ \A j \in Job : last'[j] = now
        /\ ticker' \in {"sleeping", "ended"}
        /\ ticker' = "ended" => phase \in {"failed", "exited"}
    BY <1>4 DEF StartTicker, Running
  <2> QED BY <1>1, <2>1, TestsAreJobs DEF TickerInTime, TimersInTime, JobTested
<1>5. CASE Wake
  <2>1. /\ now' = now /\ phase' = phase /\ looked' = now /\ test' = 1
        /\ last' = last /\ ticker = "sleeping" /\ ticker' = "testing"
    BY <1>5 DEF Wake
  <2>2. \A j \in Job : now <= last[j] + Interval[j] + TickLag
    <3> SUFFICES ASSUME NEW j \in Job
                 PROVE  now <= last[j] + Interval[j] + TickLag
      OBVIOUS
    <3>1. PICK i \in 1 .. 4 : TestOrder[i] = j
      BY TestsAreJobs
    <3>2. looked <= last[j] + Interval[j]
      BY <2>1, <3>1 DEF TimersInTime, JobTested
    <3> QED BY <1>1, <2>1, <3>2 DEF TickerInTime
  <2>3. \A j \in Job : last[j] <= now
    BY <1>1, <2>1 DEF TickerInTime, TimersInTime
  <2> QED BY <1>1, <2>1, <2>2, <2>3 DEF TickerInTime, TimersInTime, JobTested
<1>6. CASE TestTimer
  <2> DEFINE j == TestOrder[test]
  <2>1. test \in 1 .. 4 /\ j \in Job /\ ticker = "testing"
    BY <1>6, TestsAreJobs DEF Typed, TestTimer
  <2>2. /\ now' = now /\ phase' = phase /\ looked' = looked
        /\ \/ Due(j) /\ last' = [last EXCEPT ![j] = looked]
           \/ ~Due(j) /\ last' = last
    BY <1>6 DEF TestTimer
  <2>3. \/ test < 4 /\ test' = test + 1 /\ ticker' = "testing"
        \/ test = 4 /\ test' = 0 /\ ticker' = "sleeping"
        \/ test = 4 /\ test' = 0 /\ ticker' = "ended" /\ phase \in {"failed", "exited"}
    BY <1>6, <2>1, TestsAreJobs DEF TestTimer, NextTest, Running
  <2>4. TickerInTime'
    BY <1>1, <2>1, <2>2, <2>3, Constants DEF TickerInTime
  <2>5. looked <= last'[j] + Interval[j] /\ last'[j] <= looked /\ last'[j] \in Nat
    <3>1. last[j] \in Nat /\ Interval[j] \in Nat /\ last[j] <= looked
      BY <1>1, <2>1 DEF TimersInTime
    <3>2. CASE Due(j) /\ last' = [last EXCEPT ![j] = looked]
      <4>1. last'[j] = looked
        BY <2>1, <3>2 DEF Typed
      <4> QED BY <1>1, <3>1, <4>1
    <3>3. CASE ~Due(j) /\ last' = last
      <4>1. looked - last[j] < Interval[j]
        BY <1>1, <3>1, <3>3 DEF Due
      <4> QED BY <1>1, <3>1, <3>3, <4>1
    <3> QED BY <2>2, <3>2, <3>3
  <2>6. \A i \in Job : i # j => last'[i] = last[i]
    BY <2>1, <2>2 DEF Typed
  <2>7. \A i \in Job : /\ last'[i] <= looked
                       /\ looked <= last'[i] + Interval[i] + TickLag
    BY <1>1, <2>1, <2>5, <2>6 DEF TimersInTime
  <2>8. ASSUME NEW i \in 1 .. 4, JobTested(i)'
        PROVE  looked <= last'[TestOrder[i]] + Interval[TestOrder[i]]
    <3>1. TestOrder[i] \in Job
      BY TestsAreJobs
    <3>2. CASE TestOrder[i] = j
      BY <2>5, <3>2
    <3>3. CASE TestOrder[i] # j
      <4>1. i # test
        BY <3>3
      <4>2. i < test
        BY <2>1, <2>3, <2>8, <4>1 DEF JobTested
      <4> QED BY <2>1, <2>6, <3>1, <3>3, <4>2 DEF TimersInTime, JobTested
    <3> QED BY <3>2, <3>3
  <2> QED BY <2>2, <2>4, <2>7, <2>8 DEF TimersInTime
<1>7. CASE ClientStep
  BY <1>7, ClientStepsKeepClock DEF TickerInTime, TimersInTime, JobTested
<1>8. CASE Loop
  BY <1>8, LoopKeepsClock DEF TickerInTime, TimersInTime, JobTested
<1> QED BY <1>2, <1>3, <1>4, <1>5, <1>6, <1>7, <1>8 DEF Next, Ticker, ClientStep

LEMMA CallbacksNext ==
    ASSUME Typed, TickerInTime, CallbacksInTime, [Next]_vars
    PROVE  CallbacksInTime'
<1>1. /\ now \in Nat /\ looked \in Nat /\ LoopLag \in Nat
      /\ deferred \in Seq(Callbacks)
  BY Constants DEF Typed
<1>2. CASE Pass
  BY <1>1, <1>2, DeferredTyped DEF Pass, CallbacksInTime, loopVars
<1>3. CASE ListenSucceeds \/ ListenFails \/ Exit
  BY <1>3 DEF ListenSucceeds, ListenFails, Exit, CallbacksInTime
<1>4. CASE StartTicker \/ Wake
  BY <1>4 DEF StartTicker, Wake, CallbacksInTime
<1>5. CASE TestTimer
  <2>1. /\ now' = now /\ phase' = phase
        /\ \/ deferred' = Append(deferred, Callback(TestOrder[test]))
           \/ deferred' = deferred
    BY <1>5 DEF TestTimer
  <2>2. CASE deferred' = deferred
    BY <2>1, <2>2 DEF CallbacksInTime
  <2>3. CASE deferred' = Append(deferred, Callback(TestOrder[test]))
    <3>1. /\ Len(deferred) \in Nat /\ Len(deferred') = Len(deferred) + 1
          /\ \A i \in 1 .. Len(deferred) : deferred'[i] = deferred[i]
          /\ deferred'[Len(deferred) + 1] = Callback(TestOrder[test])
      <4> DEFINE C == Callbacks \cup {Callback(TestOrder[test])}
      <4>1. deferred \in Seq(C) /\ Callback(TestOrder[test]) \in C
        BY <1>1
      <4> HIDE DEF C
      <4> QED BY <1>1, <2>3, <4>1, Appended, Members
    <3>2. Callback(TestOrder[test]).at = now
      BY <1>5 DEF TestTimer, Callback, TickerInTime
    <3> QED BY <1>1, <2>1, <3>1, <3>2 DEF CallbacksInTime
  <2> QED BY <2>1, <2>2, <2>3
<1>6. CASE ClientStep
  BY <1>6, ClientStepsKeepClock DEF CallbacksInTime
<1>7. CASE Loop
  <2>1. /\ now' = now /\ phase' = phase /\ Len(deferred) \in Nat
        /\ Len(deferred') = Len(deferred) - 1
        /\ \A i \in 1 .. Len(deferred) - 1 : deferred'[i] = deferred[i + 1]
    BY <1>1, <1>7, LoopKeepsClock, HeadGone, Members
  <2> QED BY <1>1, <2>1 DEF CallbacksInTime
<1> QED BY <1>2, <1>3, <1>4, <1>5, <1>6, <1>7 DEF Next, Ticker, ClientStep

LEMMA PingsNext ==
    ASSUME Typed, CallbacksInTime, PingsInTime, [Next]_vars
    PROVE  PingsInTime'
<1>1. now \in Nat /\ LoopLag \in Nat /\ ReplyLag \in Nat /\ pings \in SUBSET Nat
  BY Constants DEF Typed
<1>2. CASE Pass
  BY <1>1, <1>2 DEF Pass, PingsInTime, clientVars
<1>3. CASE PublishPing
  <2>1. /\ now' = now /\ answers' = answers /\ phase = "running"
        /\ pings' = pings \cup {Head(deferred).at} /\ deferred # <<>>
    BY <1>3 DEF PublishPing, Runs
  <2>2. Head(deferred) = deferred[1] /\ 1 \in 1 .. Len(deferred)
    BY <2>1, HeadGone DEF Typed
  <2>3. /\ Head(deferred).at \in Nat /\ Head(deferred).at <= now
        /\ now <= Head(deferred).at + LoopLag
    BY <2>1, <2>2, DeferredTyped DEF CallbacksInTime
  <2> QED BY <1>1, <2>1, <2>3 DEF PingsInTime
<1>4. CASE FlushMoves \/ ReapStaleSockets
  BY <1>4 DEF FlushMoves, ReapStaleSockets, Runs, PingsInTime
<1>5. CASE DrawScreen
  BY <1>5 DEF DrawScreen, Runs, PingsInTime, clientVars
<1>6. CASE Hello \/ Move \/ Pong \/ FallSilent
  BY <1>6 DEF Hello, Move, Pong, FallSilent, PingsInTime
<1>7. CASE ListenSucceeds \/ ListenFails \/ Exit \/ Ticker
  BY <1>7 DEF ListenSucceeds, ListenFails, Exit, Ticker, StartTicker, Wake, TestTimer,
              clientVars, PingsInTime
<1>8. ASSUME NEW k \in Key, Press(k)
      PROVE  PingsInTime'
  BY <1>8 DEF Press, clientVars, PingsInTime
<1>9. CASE UNCHANGED vars
  BY <1>9 DEF vars, clientVars, PingsInTime
<1> QED BY <1>2, <1>3, <1>4, <1>5, <1>6, <1>7, <1>8, <1>9 DEF Next, Loop

LEMMA ServingNext ==
    ASSUME Typed, Serving, [Next]_vars
    PROVE  Serving'
<1>1. now \in Nat /\ seen \in Nat /\ moved \in Nat \cup {NoMove}
  BY DEF Typed
<1>2. CASE Pass
  BY <1>1, <1>2, Constants DEF Pass, Serving, clientVars, loopVars
<1>3. CASE ListenSucceeds \/ ListenFails \/ Exit
  BY <1>3 DEF ListenSucceeds, ListenFails, Exit, Serving, clientVars
<1>4. CASE Ticker
  BY <1>4 DEF Ticker, StartTicker, Wake, TestTimer, Serving, clientVars
<1>5. CASE Loop
  BY <1>5 DEF Loop, FlushMoves, PublishPing, ReapStaleSockets, DrawScreen, Runs, Serving,
              loopVars, clientVars
<1>6. CASE Hello \/ Pong \/ FallSilent
  BY <1>1, <1>6 DEF Hello, Pong, SeenNow, FallSilent, Serving, loopVars
<1>7. CASE Move
  <2>1. moved' = now \/ (moved # NoMove /\ moved' = moved)
    BY <1>7 DEF Move
  <2> QED BY <1>1, <1>7, <2>1 DEF Move, Serving, loopVars
<1>8. ASSUME NEW k \in Key, Press(k)
      PROVE  Serving'
  BY <1>8 DEF Press, Serving, clientVars, loopVars
<1>9. CASE UNCHANGED vars
  BY <1>9 DEF vars, Serving, clientVars, loopVars
<1> QED BY <1>2, <1>3, <1>4, <1>5, <1>6, <1>7, <1>8, <1>9 DEF Next

-----------------------------------------------------------------------------
(* What waits *)

LEMMA TimersArePast ==
    ASSUME Typed, TickerInTime, TimersInTime, NEW j \in Job
    PROVE  last[j] \in Nat /\ last[j] <= now
<1>1. last[j] \in Nat /\ looked \in Nat /\ now \in Nat
  BY DEF Typed
<1> QED BY <1>1 DEF TickerInTime, TimersInTime

(* What waits for a timer waits on, until the callback runs that it waits   *)
(* for.                                                                     *)
LEMMA WaitingNext ==
    ASSUME Typed, TickerInTime, TimersInTime, [Next]_vars,
           NEW j \in Job, NEW s \in Nat, Waiting(j, s)
    PROVE  \/ Waiting(j, s)'
           \/ /\ Loop /\ Head(deferred).job = j
              /\ s < Head(deferred).at /\ Head(deferred).at <= Deadline(j, s)
<1>1. /\ deferred \in Seq(Callbacks) /\ Len(deferred) \in Nat
      /\ last[j] \in Nat /\ looked \in Nat /\ Interval[j] \in Nat /\ TickLag \in Nat
  BY Constants, Members DEF Typed
<1>2. CASE UNCHANGED <<last, deferred>>
  BY <1>2 DEF Waiting, Deadline
<1>3. CASE StartTicker
  <2>1. last[j] = now /\ last'[j] = now /\ deferred' = deferred
    BY <1>3 DEF StartTicker, TickerInTime
  <2> QED BY <2>1 DEF Waiting, Deadline
<1>4. CASE TestTimer
  <2> DEFINE k == TestOrder[test]
  <2>1. k \in Job /\ ticker = "testing"
    BY <1>4, TestsAreJobs DEF Typed, TestTimer
  <2>2. CASE ~Due(k)
    BY <1>2, <1>4, <2>2 DEF TestTimer
  <2>3. CASE Due(k)
    <3>1. /\ last' = [last EXCEPT ![k] = looked]
          /\ deferred' = Append(deferred, Callback(k))
      BY <1>4, <2>3 DEF TestTimer
    <3>2. /\ Len(deferred') = Len(deferred) + 1
          /\ \A i \in 1 .. Len(deferred) : deferred'[i] = deferred[i]
          /\ deferred'[Len(deferred) + 1] = Callback(k)
      <4> DEFINE C == Callbacks \cup {Callback(k)}
      <4>1. deferred \in Seq(C) /\ Callback(k) \in C
        BY <1>1
      <4> HIDE DEF C, k
      <4> QED BY <3>1, <4>1, Appended
    <3>3. CASE \E i \in 1 .. Len(deferred) :
                  /\ deferred[i].job = j
                  /\ s < deferred[i].at
                  /\ deferred[i].at <= Deadline(j, s)
      <4>1. PICK i \in 1 .. Len(deferred) :
                  /\ deferred[i].job = j
                  /\ s < deferred[i].at
                  /\ deferred[i].at <= Deadline(j, s)
        BY <3>3
      <4>2. i \in 1 .. Len(deferred') /\ deferred'[i] = deferred[i]
        BY <1>1, <3>2
      <4> QED BY <4>1, <4>2 DEF Waiting, Deadline
    <3>4. CASE last[j] <= s /\ k # j
      BY <2>1, <3>1, <3>4 DEF Typed, Waiting
    <3>5. CASE last[j] <= s /\ k = j
      <4>1. last'[j] = looked
        BY <3>1, <3>5 DEF Typed
      <4>2. CASE looked <= s
        BY <4>1, <4>2 DEF Waiting
      <4>3. CASE s < looked
        <5>1. looked <= last[j] + Interval[j] + TickLag
          BY <2>1 DEF TimersInTime
        <5>2. looked <= Deadline(j, s)
          BY <1>1, <3>5, <5>1 DEF Deadline
        <5>3. Callback(k).job = j /\ Callback(k).at = looked
          BY <3>5 DEF Callback
        <5>4. Len(deferred) + 1 \in 1 .. Len(deferred')
          BY <1>1, <3>2
        <5> QED BY <3>2, <4>3, <5>2, <5>3, <5>4 DEF Waiting, Deadline
      <4> QED BY <1>1, <4>2, <4>3
    <3> QED BY <3>3, <3>4, <3>5 DEF Waiting
  <2> QED BY <2>2, <2>3
<1>5. CASE Loop
  <2>1. /\ last' = last /\ deferred # <<>> /\ deferred' = Tail(deferred)
    BY <1>5, LoopKeepsClock
  <2>2. /\ Head(deferred) = deferred[1]
        /\ Len(deferred') = Len(deferred) - 1
        /\ \A i \in 1 .. Len(deferred) - 1 : deferred'[i] = deferred[i + 1]
    BY <1>1, <2>1, HeadGone
  <2>3. CASE last[j] <= s
    BY <2>1, <2>3 DEF Waiting
  <2>4. CASE \E i \in 1 .. Len(deferred) :
                /\ deferred[i].job = j
                /\ s < deferred[i].at
                /\ deferred[i].at <= Deadline(j, s)
    <3>1. PICK i \in 1 .. Len(deferred) :
                /\ deferred[i].job = j
                /\ s < deferred[i].at
                /\ deferred[i].at <= Deadline(j, s)
      BY <2>4
    <3>2. CASE i = 1
      BY <1>5, <2>2, <3>1, <3>2
    <3>3. CASE i # 1
      <4>1. i - 1 \in 1 .. Len(deferred') /\ deferred'[i - 1] = deferred[i]
        BY <1>1, <2>2, <3>3
      <4> QED BY <3>1, <4>1 DEF Waiting, Deadline
    <3> QED BY <3>2, <3>3
  <2> QED BY <2>3, <2>4 DEF Waiting
<1>6. CASE Pass \/ ListenSucceeds \/ ListenFails \/ Exit \/ Wake
  BY <1>2, <1>6 DEF Pass, ListenSucceeds, ListenFails, Exit, Wake, loopVars
<1>7. CASE ClientStep
  BY <1>2, <1>7, ClientStepsKeepClock
<1> QED BY <1>3, <1>4, <1>5, <1>6, <1>7 DEF Next, Ticker, ClientStep

(* What any step does to the client.                                        *)
LEMMA ClientNext ==
    ASSUME [Next]_vars
    PROVE  \/ UNCHANGED <<session, seen, answers, pings, moved>>
           \/ FlushMoves \/ PublishPing \/ ReapStaleSockets
           \/ Hello \/ Move \/ Pong \/ FallSilent
<1>1. ASSUME NEW k \in Key, Press(k)
      PROVE  UNCHANGED clientVars
  BY <1>1 DEF Press
<1>2. CASE \/ Pass \/ ListenSucceeds \/ ListenFails \/ Exit \/ Ticker \/ DrawScreen
           \/ UNCHANGED vars
  BY <1>2 DEF Pass, ListenSucceeds, ListenFails, Exit, Ticker, StartTicker, Wake, TestTimer,
              DrawScreen, Runs, vars, clientVars
<1> QED BY <1>1, <1>2 DEF Next, Loop, clientVars

(* The callback at the head, by its job.                                    *)
LEMMA LoopByJob ==
    ASSUME Loop
    PROVE  /\ Head(deferred).job = "move" => FlushMoves
           /\ Head(deferred).job = "heartbeat" => PublishPing
           /\ Head(deferred).job = "reap" => ReapStaleSockets
BY DEF Loop, FlushMoves, PublishPing, ReapStaleSockets, DrawScreen, Runs

LEMMA HeadIsPast ==
    ASSUME Typed, CallbacksInTime, deferred # <<>>
    PROVE  Head(deferred).at \in Nat /\ Head(deferred).at <= now
<1>1. Head(deferred) = deferred[1] /\ 1 \in 1 .. Len(deferred)
  BY HeadGone DEF Typed
<1> QED BY <1>1, DeferredTyped DEF CallbacksInTime

LEMMA MoveWaitsNext ==
    ASSUME Inv, [Next]_vars
    PROVE  MoveWaits'
<1> USE DEF Inv
<1>1. "move" \in Job /\ now \in Nat /\ moved \in Nat \cup {NoMove}
  BY DEF Job, Typed
<1>2. CASE moved' = moved /\ moved # NoMove
  <2>1. Waiting("move", moved) /\ moved \in Nat
    BY <1>1, <1>2 DEF MoveWaits
  <2>2. ~(Loop /\ Head(deferred).job = "move")
    BY <1>2, LoopByJob DEF FlushMoves
  <2> DEFINE s == moved
  <2> HIDE DEF s
  <2>3. Waiting("move", s) /\ s \in Nat
    BY <2>1 DEF s
  <2>4. last'["move"] <= s \/ \E i \in 1 .. Len(deferred') :
              /\ deferred'[i].job = "move"
              /\ s < deferred'[i].at
              /\ deferred'[i].at <= Deadline("move", s)
    BY <1>1, <2>2, <2>3, WaitingNext DEF Waiting, Deadline
  <2> QED BY <1>2, <2>4 DEF s, MoveWaits, Waiting, Deadline
<1>3. CASE moved' # moved /\ moved' # NoMove
  <2>1. Move /\ moved' = now
    BY <1>3, ClientNext DEF FlushMoves, PublishPing, ReapStaleSockets, Hello, Move, Pong, FallSilent
  <2>2. last' = last
    BY <2>1 DEF Move, loopVars
  <2>3. last'["move"] <= moved'
    BY <1>1, <2>1, <2>2, TimersArePast
  <2> QED BY <2>3 DEF MoveWaits, Waiting
<1> QED BY <1>2, <1>3 DEF MoveWaits

LEMMA ReapWaitsNext ==
    ASSUME Inv, [Next]_vars
    PROVE  ReapWaits'
<1> USE DEF Inv
<1>1. /\ "reap" \in Job /\ now \in Nat /\ seen \in Nat /\ IdleTimeout \in Nat
      /\ seen + IdleTimeout \in Nat
  BY Constants DEF Job, Typed
<1>2. CASE session = "active" /\ session' = "active" /\ seen' = seen
  <2>1. Waiting("reap", seen + IdleTimeout)
    BY <1>2 DEF ReapWaits
  <2>2. ASSUME Loop, Head(deferred).job = "reap", seen + IdleTimeout < Head(deferred).at
        PROVE  FALSE
    <3>1. ReapStaleSockets /\ deferred # <<>>
      BY <2>2, LoopByJob, LoopKeepsClock
    <3>2. Head(deferred).at \in Nat /\ Head(deferred).at <= now
      BY <3>1, HeadIsPast
    <3>3. Expired
      BY <1>1, <2>2, <3>2 DEF Expired
    <3> QED BY <1>2, <3>1, <3>3 DEF ReapStaleSockets
  <2> DEFINE s == seen + IdleTimeout
  <2>3. s \in Nat /\ Waiting("reap", s) /\ s' = s
    BY <1>1, <1>2, <2>1 DEF IdleTimeout
  <2>4. ~(Loop /\ Head(deferred).job = "reap" /\ s < Head(deferred).at)
    BY <2>2
  <2> HIDE DEF s
  <2>5. last'["reap"] <= s \/ \E i \in 1 .. Len(deferred') :
              /\ deferred'[i].job = "reap"
              /\ s < deferred'[i].at
              /\ deferred'[i].at <= Deadline("reap", s)
    BY <1>1, <2>3, <2>4, WaitingNext DEF Waiting, Deadline
  <2>6. Waiting("reap", s)'
    BY <2>3, <2>5 DEF Waiting, Deadline
  <2> QED BY <2>6 DEF s, ReapWaits
<1>3. CASE session' = "active" /\ ~(session = "active" /\ seen' = seen)
  <2>1. (Hello \/ Move \/ Pong) /\ seen' = now
    BY <1>3, ClientNext
       DEF FlushMoves, PublishPing, ReapStaleSockets, Hello, Move, Pong, SeenNow, FallSilent
  <2>2. last' = last
    BY <2>1 DEF Hello, Move, Pong, loopVars
  <2>3. last["reap"] \in Nat /\ last["reap"] <= now
    BY <1>1, TimersArePast
  <2>4. last'["reap"] <= seen' + IdleTimeout
    BY <1>1, <2>1, <2>2, <2>3
  <2> QED BY <2>4 DEF ReapWaits, Waiting, IdleTimeout
<1> QED BY <1>2, <1>3 DEF ReapWaits

LEMMA PingWaitsNext ==
    ASSUME Inv, [Next]_vars
    PROVE  PingWaits'
<1> USE DEF Inv
<1>1. "heartbeat" \in Job /\ now \in Nat /\ seen \in Nat
  BY DEF Job, Typed
<1> DEFINE P(t, ps) == \E p \in ps : t < p /\ p <= Deadline("heartbeat", t)
           Kept == session = "active" /\ answers /\ session' = "active" /\ answers' /\ seen' = seen
<1>2. CASE Kept
  <2>1. Waiting("heartbeat", seen) \/ P(seen, pings)
    BY <1>2 DEF PingWaits
  <2>2. pings \subseteq pings' \/ Pong
    BY ClientNext DEF FlushMoves, PublishPing, ReapStaleSockets, Hello, Move, FallSilent
  <2>3. CASE ~Pong /\ P(seen, pings)
    BY <1>2, <2>2, <2>3 DEF PingWaits, Deadline
  <2>4. CASE Waiting("heartbeat", seen)
    <3> DEFINE s == seen
    <3>1. s \in Nat /\ Waiting("heartbeat", s) /\ s' = s
      BY <1>1, <1>2, <2>4
    <3> HIDE DEF s
    <3>2. \/ Waiting("heartbeat", s)'
          \/ /\ Loop /\ Head(deferred).job = "heartbeat"
             /\ s < Head(deferred).at /\ Head(deferred).at <= Deadline("heartbeat", s)
      <4>1. \/ last'["heartbeat"] <= s
            \/ \E i \in 1 .. Len(deferred') :
                  /\ deferred'[i].job = "heartbeat"
                  /\ s < deferred'[i].at
                  /\ deferred'[i].at <= Deadline("heartbeat", s)
            \/ /\ Loop /\ Head(deferred).job = "heartbeat"
               /\ s < Head(deferred).at /\ Head(deferred).at <= Deadline("heartbeat", s)
        BY <1>1, <3>1, WaitingNext DEF Waiting, Deadline
      <4> QED BY <3>1, <4>1 DEF Waiting, Deadline
    <3>3. CASE Waiting("heartbeat", s)'
      BY <3>3 DEF s, PingWaits
    <3>4. CASE /\ Loop /\ Head(deferred).job = "heartbeat"
               /\ s < Head(deferred).at /\ Head(deferred).at <= Deadline("heartbeat", s)
      <4>1. Head(deferred).at \in pings'
        BY <3>4, LoopByJob DEF PublishPing
      <4>2. P(s, pings')
        BY <3>4, <4>1
      <4> QED BY <1>2, <4>2 DEF s, PingWaits, Deadline
    <3> QED BY <3>2, <3>3, <3>4
  <2>5. CASE Pong /\ P(seen, pings)
    <3>1. seen' = now /\ last' = last
      BY <1>2, <2>5 DEF Pong, SeenNow, loopVars
    <3> QED BY <1>1, <3>1, TimersArePast DEF PingWaits, Waiting
  <2> QED BY <2>1, <2>3, <2>4, <2>5
<1>3. CASE session' = "active" /\ answers' /\ ~Kept
  <2>1. (Hello \/ Move \/ Pong) /\ seen' = now
    BY <1>3, ClientNext
       DEF FlushMoves, PublishPing, ReapStaleSockets, Hello, Move, Pong, SeenNow, FallSilent, Typed
  <2>2. last' = last
    BY <2>1 DEF Hello, Move, Pong, loopVars
  <2>3. last'["heartbeat"] <= seen'
    BY <1>1, <2>1, <2>2, TimersArePast
  <2> QED BY <2>3 DEF PingWaits, Waiting
<1> QED BY <1>2, <1>3 DEF PingWaits

(* Whatever an answering client waits for, it is not yet as old as the      *)
(* timeout.                                                                 *)
LEMMA AnsweringClientIsFresh ==
    ASSUME Inv, session = "active", answers
    PROVE  ~Expired
<1> USE DEF Inv
<1>1. /\ "heartbeat" \in Job /\ now \in Nat /\ seen \in Nat /\ IdleTimeout \in Nat
      /\ LoopLag \in Nat /\ ReplyLag \in Nat /\ TickLag \in Nat
      /\ Interval["heartbeat"] \in Nat
      /\ Interval["heartbeat"] + TickLag + LoopLag + ReplyLag <= IdleTimeout
  BY Constants DEF Job, Typed
<1>2. CASE Waiting("heartbeat", seen)
  <2>1. now <= Deadline("heartbeat", seen) + LoopLag
    BY <1>1, <1>2, WaitingIsShort DEF Serving
  <2> QED BY <1>1, <2>1 DEF Deadline, Expired
<1>3. CASE \E p \in pings : seen < p /\ p <= Deadline("heartbeat", seen)
  <2>1. PICK p \in pings : p <= Deadline("heartbeat", seen)
    BY <1>3
  <2>2. p \in Nat /\ now <= p + LoopLag + ReplyLag
    BY <2>1 DEF Typed, PingsInTime
  <2> QED BY <1>1, <2>1, <2>2 DEF Deadline, Expired
<1> QED BY <1>2, <1>3 DEF PingWaits

LEMMA AnsweringNext ==
    ASSUME Inv, [Next]_vars
    PROVE  AnsweringClientIsKept'
<1>1. AnsweringClientIsKept
  BY DEF Inv
<1>2. CASE ReapStaleSockets
  BY <1>1, <1>2, AnsweringClientIsFresh DEF ReapStaleSockets, AnsweringClientIsKept
<1>3. CASE ~ReapStaleSockets
  BY <1>1, <1>3, ClientNext
     DEF AnsweringClientIsKept, FlushMoves, PublishPing, Hello, Move, Pong, FallSilent
<1> QED BY <1>2, <1>3

LEMMA InvNext ==
    ASSUME Inv, [Next]_vars
    PROVE  Inv'
BY TypedNext, TickerNext, CallbacksNext, PingsNext, ServingNext, MoveWaitsNext, ReapWaitsNext,
   PingWaitsNext, AnsweringNext DEF Inv

LEMMA AlwaysInv == Spec => []Inv
<1>1. Inv /\ [Next]_vars => Inv'
  BY InvNext
<1> QED BY InitImpliesInv, <1>1, PTL DEF Spec

-----------------------------------------------------------------------------
(* The screen and its commands *)

ScreenInv == Typed /\ ScreenTyped /\ CommandsKeepOrder

LEMMA InitImpliesScreenInv == Init => ScreenInv
<1> SUFFICES ASSUME Init
             PROVE  ScreenInv
  OBVIOUS
<1>1. Typed
  BY InitImpliesInv DEF Inv
<1>2. ScreenTyped
  <2>1. <<>> \in Seq(KeyCommand)
    OBVIOUS
  <2> QED BY <2>1 DEF Init, ScreenTyped
<1>3. CommandsKeepOrder
  <2>1. KeysIn(deferred) = <<>> /\ commands = <<>> /\ applied = <<>> /\ accepted = <<>>
    BY KeysInNothing DEF Init
  <2>2. <<>> \o <<>> \o <<>> = <<>>
    BY ConcatEmptySeq, EmptySeq
  <2> QED BY <2>1, <2>2 DEF CommandsKeepOrder
<1> QED BY <1>1, <1>2, <1>3 DEF ScreenInv

(* What is drained is carried by the callback, and by nothing else.         *)
LEMMA TestTimerKeepsOrder ==
    ASSUME ScreenInv, TestTimer
    PROVE  CommandsKeepOrder'
<1> DEFINE j == TestOrder[test]
           K == Seq(KeyCommand)
<1>1. /\ deferred \in Seq(Callbacks) /\ commands \in K /\ applied \in K
      /\ KeysIn(deferred) \in K
  BY KeysInTyped DEF ScreenInv, Typed, ScreenTyped
<1>2. j \in Job
  <2>1. test \in 1 .. 4
    BY DEF ScreenInv, Typed, TestTimer
  <2> QED BY <2>1, TestsAreJobs
<1>3. accepted' = accepted /\ applied' = applied
  BY DEF TestTimer
<1>4. CASE deferred' = deferred /\ commands' = commands
  BY <1>3, <1>4 DEF ScreenInv, CommandsKeepOrder, KeysIn
<1>5. CASE deferred' = Append(deferred, Callback(j)) /\ commands' = Drain(j)
  <2>1. Callback(j) \in Callbacks /\ Callback(j).keys = Carried(j)
    <3>1. Carried(j) \in K /\ looked \in Nat
      BY <1>1 DEF Carried, ScreenInv, Typed
    <3> QED BY <1>2, <3>1 DEF Callback, Callbacks, Carried
  <2>2. KeysIn(deferred') = KeysIn(deferred) \o Carried(j)
    BY <1>1, <1>5, <2>1, KeysInAppend
  <2>3. \/ Carried(j) = commands /\ Drain(j) = <<>>
        \/ Carried(j) = <<>> /\ Drain(j) = commands
    BY DEF Carried, Drain
  <2> DEFINE a == applied
             k == KeysIn(deferred)
             c == commands
  <2>4. a \in K /\ k \in K /\ c \in K /\ k \o c \in K /\ a \o k \in K
    BY <1>1, ConcatProperties
  <2>5. a \o (k \o c) \o <<>> = a \o k \o c
    <3>1. a \o (k \o c) = a \o k \o c
      BY <2>4, ConcatAssociative
    <3>2. a \o (k \o c) \in K
      BY <2>4, ConcatProperties
    <3> HIDE DEF a, k, c
    <3> QED BY <3>1, <3>2, ConcatEmptySeq
  <2>6. k \o <<>> = k
    BY <2>4, ConcatEmptySeq
  <2> HIDE DEF a, k, c, j
  <2>7. accepted = a \o k \o c
    BY DEF a, k, c, ScreenInv, CommandsKeepOrder
  <2>8. \/ KeysIn(deferred') = k \o c /\ commands' = <<>>
        \/ KeysIn(deferred') = k \o <<>> /\ commands' = c
    BY <1>5, <2>2, <2>3 DEF k, c
  <2>9. accepted = a \o KeysIn(deferred') \o commands'
    BY <2>5, <2>6, <2>7, <2>8
  <2> QED BY <1>3, <2>9 DEF a, CommandsKeepOrder, KeysIn
<1> QED BY <1>4, <1>5 DEF TestTimer

(* The loop applies what its callback carries before all that comes later.  *)
LEMMA LoopKeepsOrder ==
    ASSUME ScreenInv, Loop
    PROVE  applied' \in Seq(KeyCommand) /\ CommandsKeepOrder'
<1> DEFINE K == Seq(KeyCommand)
           h == Head(deferred).keys
           t == KeysIn(Tail(deferred))
           a == applied
           c == commands
<1>1. deferred \in Seq(Callbacks) /\ deferred # <<>> /\ deferred' = Tail(deferred)
  BY LoopKeepsClock DEF ScreenInv, Typed
<1>2. h \in K /\ t \in K /\ a \in K /\ c \in K
  <2>1. Head(deferred) \in Callbacks /\ Tail(deferred) \in Seq(Callbacks)
    BY <1>1, HeadTailProperties
  <2>2. h \in K
    BY <2>1 DEF Callbacks
  <2> QED BY <2>1, <2>2, KeysInTyped DEF ScreenInv, Typed, ScreenTyped
<1>3. KeysIn(deferred) = h \o t
  BY <1>1, KeysInTail
<1>4. accepted = a \o (h \o t) \o c
  BY <1>3 DEF ScreenInv, CommandsKeepOrder
<1>5. accepted' = accepted /\ commands' = c
  BY DEF Loop, FlushMoves, PublishPing, ReapStaleSockets, DrawScreen, Runs, screenVars
<1>6. CASE DrawScreen
  <2>1. applied' = a \o h
    BY <1>6 DEF DrawScreen
  <2>2. a \o h \in K
    BY <1>2, ConcatProperties
  <2>3. (a \o h) \o t = a \o (h \o t)
    <3> HIDE DEF a, h, t
    <3> QED BY <1>2, ConcatAssociative
  <2>4. KeysIn(deferred') = t
    BY <1>1
  <2> HIDE DEF a, h, t, c
  <2>5. accepted' = applied' \o KeysIn(deferred') \o commands'
    BY <1>4, <1>5, <2>1, <2>3, <2>4
  <2> QED BY <2>1, <2>2, <2>5 DEF CommandsKeepOrder, KeysIn
<1>7. CASE FlushMoves \/ PublishPing \/ ReapStaleSockets
  <2>1. applied' = a
    BY <1>7 DEF FlushMoves, PublishPing, ReapStaleSockets, screenVars
  <2>2. h = <<>>
    <3>1. Head(deferred) \in Callbacks
      BY <1>1, HeadTailProperties
    <3>2. Head(deferred).job # "screen"
      BY <1>7 DEF FlushMoves, PublishPing, ReapStaleSockets, Runs
    <3> QED BY <3>1, <3>2 DEF Callbacks
  <2>3. KeysIn(deferred') = t
    BY <1>1
  <2>4. <<>> \o t = t
    BY <1>2, ConcatEmptySeq
  <2> HIDE DEF a, h, t, c
  <2>5. accepted' = applied' \o KeysIn(deferred') \o commands'
    BY <1>4, <1>5, <2>1, <2>2, <2>3, <2>4
  <2> QED BY <1>2, <2>1, <2>5 DEF CommandsKeepOrder, KeysIn
<1> QED BY <1>6, <1>7 DEF Loop

(* The keyboard's thread puts a command behind all others or nowhere.       *)
LEMMA PressKeepsOrder ==
    ASSUME ScreenInv, NEW k \in Key, Press(k)
    PROVE  accepted' \in Seq(KeyCommand) /\ CommandsKeepOrder'
<1> DEFINE c == CommandOf(k)
           K == Seq(KeyCommand)
           front == applied \o KeysIn(deferred)
<1>1. accepted \in K /\ commands \in K /\ c \in KeyCommand /\ <<c>> \in K
  <2>1. c \in KeyCommand
    BY DEF Press, KeyCommand
  <2> QED BY <2>1 DEF ScreenInv, Typed, ScreenTyped
<1>2. front \in K
  <2>1. deferred \in Seq(Callbacks) /\ applied \in K
    BY DEF ScreenInv, Typed, ScreenTyped
  <2> QED BY <2>1, KeysInTyped, ConcatProperties
<1>3. accepted = front \o commands
  BY DEF ScreenInv, CommandsKeepOrder
<1>4. front' = front
  BY DEF Press, KeysIn
<1>5. CASE ~HasRoom
  <2>1. accepted' = accepted /\ commands' = commands
    BY <1>5 DEF Press, Push
  <2> QED BY <1>1, <1>3, <1>4, <2>1 DEF CommandsKeepOrder
<1>6. CASE HasRoom
  <2>1. accepted' = Append(accepted, c) /\ commands' = Append(commands, c)
    BY <1>6 DEF Press, Push
  <2> HIDE DEF front, c
  <2>2. accepted' = accepted \o <<c>> /\ commands' = commands \o <<c>>
    BY <1>1, <2>1, AppendIsConcat
  <2>3. (front \o commands) \o <<c>> = front \o (commands \o <<c>>)
    BY <1>1, <1>2, ConcatAssociative
  <2>4. accepted' \in K
    BY <1>1, <2>1, AppendProperties
  <2>5. accepted' = front' \o commands'
    BY <1>3, <1>4, <2>2, <2>3
  <2> QED BY <2>4, <2>5 DEF front, CommandsKeepOrder
<1> QED BY <1>5, <1>6

LEMMA ScreenTypedNext ==
    ASSUME ScreenInv, [Next]_vars
    PROVE  ScreenTyped' /\ CommandsKeepOrder'
<1> USE DEF ScreenInv
<1>1. now \in Nat
  BY DEF Typed
<1>2. CASE \/ Pass \/ ListenSucceeds \/ ListenFails \/ Exit \/ StartTicker \/ Wake
           \/ Hello \/ Move \/ Pong \/ FallSilent \/ UNCHANGED vars
  <2>1. UNCHANGED <<section, row, accepted, applied, commands, deferred>>
    BY <1>2 DEF Pass, ListenSucceeds, ListenFails, Exit, StartTicker, Wake, Hello, Move, Pong,
                FallSilent, vars, screenVars
  <2>2. heard' \in Nat
    BY <1>1, <1>2 DEF Pass, ListenSucceeds, ListenFails, Exit, StartTicker, Wake, Hello, Move,
                      Pong, FallSilent, vars, clientVars, ScreenTyped
  <2>3. ((ticker = "testing") <=> (test # 0))'
    BY <1>2 DEF Pass, ListenSucceeds, ListenFails, Exit, StartTicker, Wake, Hello, Move, Pong,
                FallSilent, vars, loopVars, ScreenTyped
  <2> QED BY <2>1, <2>2, <2>3 DEF ScreenTyped, CommandsKeepOrder, KeysIn
<1>3. CASE TestTimer
  <2>1. UNCHANGED <<section, row, accepted, applied, heard>>
    BY <1>3 DEF TestTimer, clientVars
  <2>2. ((ticker = "testing") <=> (test # 0))'
    <3>1. test \in 1 .. 4 /\ Len(TestOrder) = 4 /\ ticker = "testing"
      BY <1>3, TestsAreJobs DEF Typed, TestTimer
    <3> QED BY <1>3, <3>1 DEF TestTimer, NextTest
  <2> QED BY <1>3, <2>1, <2>2, TestTimerKeepsOrder DEF ScreenTyped
<1>4. ASSUME NEW k \in Key, Press(k)
      PROVE  ScreenTyped' /\ CommandsKeepOrder'
  BY <1>4, PressKeepsOrder DEF Press, loopVars, clientVars, ScreenTyped
<1>5. CASE Loop
  <2>1. accepted' = accepted /\ heard' = heard /\ ticker' = ticker /\ test' = test
    BY <1>5 DEF Loop, FlushMoves, PublishPing, ReapStaleSockets, DrawScreen, Runs, screenVars,
                clientVars, loopVars
  <2>2. section' \in 0 .. 4 /\ row' \in Nat
    <3>1. CASE DrawScreen
      <4>1. Head(deferred).keys \in Seq(KeyCommand)
        <5>1. Head(deferred) \in Callbacks
          BY <3>1, HeadTailProperties DEF DrawScreen, Runs, Typed
        <5> QED BY <5>1 DEF Callbacks
      <4>2. [section |-> section, row |-> row] \in Screen
        BY DEF ScreenTyped, Screen
      <4> DEFINE applies == ApplyAll([section |-> section, row |-> row], Head(deferred).keys)
      <4>3. applies \in Screen
        BY <4>1, <4>2, ApplyAllTyped
      <4>4. PICK rooms \in 0 .. MaxRooms :
                   /\ section' = RenderTui(applies, rooms).section
                   /\ row' = RenderTui(applies, rooms).row
        BY <3>1 DEF DrawScreen
      <4> HIDE DEF applies
      <4>5. RenderTui(applies, rooms) \in Screen
        BY <4>3, ConfigAssumption DEF RenderTui, Screen
      <4> QED BY <4>4, <4>5 DEF Screen
    <3>2. CASE FlushMoves \/ PublishPing \/ ReapStaleSockets
      BY <3>2 DEF FlushMoves, PublishPing, ReapStaleSockets, screenVars, ScreenTyped
    <3> QED BY <1>5, <3>1, <3>2 DEF Loop
  <2> QED BY <1>5, <2>1, <2>2, LoopKeepsOrder DEF ScreenTyped
<1> QED BY <1>2, <1>3, <1>4, <1>5 DEF Next, Ticker

LEMMA AlwaysScreenInv == Spec => []ScreenInv
<1>1. ScreenInv /\ [Next]_vars => ScreenInv'
  BY TypedNext, ScreenTypedNext DEF ScreenInv
<1> QED BY InitImpliesScreenInv, <1>1, PTL DEF Spec

-----------------------------------------------------------------------------
(* Theorems *)

(* The state of the three threads and of the client has its types; in       *)
(* particular tui_row_ and tui_section_ stay a row and a section, whatever  *)
(* keys are pressed and however many rooms there are when render_tui looks. *)
THEOREM TypeCorrect == Spec => []TypeOK
<1>1. ScreenInv => TypeOK
  <2> SUFFICES ASSUME ScreenInv
               PROVE  TypeOK
    OBVIOUS
  <2>1. Typed /\ ScreenTyped
    BY DEF ScreenInv
  <2>2. \A i \in 1 .. Len(deferred) : deferred[i].job \in Job /\ deferred[i].at \in Nat
    BY <2>1, DeferredTyped
  <2>3. Len(TestOrder) = 4
    BY TestsAreJobs
  <2> QED BY <2>1, <2>2, <2>3 DEF Typed, ScreenTyped, TypeOK
<1> QED BY AlwaysScreenInv, <1>1, PTL

(* drain, the callback of the screen and its loop over the commands: what   *)
(* TuiInput accepted is applied in the order in which it was pressed, for    *)
(* any limit of the queue and any interleaving of the three threads.        *)
THEOREM CommandsAlwaysKeepOrder == Spec => []CommandsKeepOrder
<1>1. ScreenInv => CommandsKeepOrder
  BY DEF ScreenInv
<1> QED BY AlwaysScreenInv, <1>1, PTL

(* The sweep of app.cpp never ends the session of a client that answers its *)
(* PINGs, for any intervals that validate_config lets pass, as long as the  *)
(* delays add up to no more than the second between them.                   *)
THEOREM AnsweringClientIsAlwaysKept == Spec => []AnsweringClientIsKept
<1>1. Inv => AnsweringClientIsKept
  BY DEF Inv
<1> QED BY AlwaysInv, <1>1, PTL

(* The session of a client that is silent ends after idle_timeout_sec, a    *)
(* second and the delays at the latest, for any configuration.              *)
THEOREM SilentClientIsAlwaysReaped == Spec => []SilentClientIsReaped
<1>1. ASSUME Inv, session = "active"
      PROVE  now <= heard + (IdleTimeoutSec + 1) * Second + TickLag + LoopLag
  <2> USE <1>1 DEF Inv
  <2>1. /\ "reap" \in Job /\ now \in Nat /\ seen \in Nat /\ heard = seen
        /\ IdleTimeout \in Nat /\ seen + IdleTimeout \in Nat
        /\ Interval["reap"] = Second /\ Second \in Nat
    BY Constants DEF Job, Typed, Serving
  <2>2. now <= Deadline("reap", seen + IdleTimeout) + LoopLag
    BY <2>1, WaitingIsShort DEF ReapWaits, Serving
  <2>3. (IdleTimeoutSec + 1) * Second = IdleTimeout + Second
    BY ConfigAssumption DEF IdleTimeout
  <2> QED BY <2>1, <2>2, <2>3, Constants DEF Deadline
<1>2. Inv => SilentClientIsReaped
  BY <1>1 DEF SilentClientIsReaped
<1> QED BY AlwaysInv, <1>2, PTL

(* A move is broadcast within one interval and the delays, for any rate.    *)
THEOREM MovesAlwaysLeaveInTime == Spec => []MovesLeaveInTime
<1>1. ASSUME Inv, moved # NoMove
      PROVE  now <= moved + Second \div MovementHz + TickLag + LoopLag
  <2> USE <1>1 DEF Inv
  <2>1. "move" \in Job /\ moved \in Nat /\ Interval["move"] = Second \div MovementHz
    BY Constants DEF Job, Typed
  <2>2. now <= Deadline("move", moved) + LoopLag
    BY <2>1, WaitingIsShort DEF MoveWaits, Serving
  <2> QED BY <2>1, <2>2 DEF Deadline
<1>2. Inv => MovesLeaveInTime
  BY <1>1 DEF MovesLeaveInTime
<1> QED BY AlwaysInv, <1>2, PTL

=============================================================================
