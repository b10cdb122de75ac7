---------------------------- MODULE DigRelay_proofs ----------------------------
(***************************************************************************)
(* The rate limit and the sequence numbers of the edits, whatever the       *)
(* length of a window, the limit, the numbers' modulus and the batch.       *)
(***************************************************************************)
EXTENDS DigRelay, FiniteSetTheorems, WellFoundedInduction, TLAPS

-----------------------------------------------------------------------------
(* The numbers of the edits.                                                *)

(* Numbers less than a turn apart differ under the modulus.                 *)
LEMMA CloseNumbersDiffer ==
    ASSUME NEW m \in Nat \ {0}, NEW a \in Nat, NEW b \in Nat,
           a < b, b - a < m
    PROVE  a % m # b % m
<1> DEFINE qa == a \div m
           qb == b \div m
<1>1. /\ qa \in Nat /\ qb \in Nat
      /\ a = m * qa + (a % m) /\ b = m * qb + (b % m)
  OBVIOUS
<1> HIDE DEF qa, qb
<1>2. SUFFICES ASSUME a % m = b % m PROVE FALSE
  OBVIOUS
<1>3. b - a = m * (qb - qa)
  BY <1>1, <1>2
<1>4. CASE qb <= qa
  <2>1. m * (qb - qa) <= 0
    BY <1>1, <1>4
  <2> QED BY <1>3, <2>1
<1>5. CASE qb - qa >= 1
  <2>1. m * (qb - qa) >= m
    BY <1>1, <1>5
  <2> QED BY <1>3, <2>1
<1> QED BY <1>1, <1>4, <1>5

(* The loop stops at an edit of the frame that fails, and at the first.     *)
LEMMA FirstFaultIsAFault ==
    ASSUME NEW f \in Frames, NEW targets, Faults(f, targets) # {}
    PROVE  /\ FirstFault(f, targets) \in Faults(f, targets)
           /\ FirstFault(f, targets) \in 1 .. f.size
<1>1. f.size \in Nat /\ Faults(f, targets) \subseteq 1 .. f.size
  BY BatchAssumption, SeqAssumption DEF Frames, Faults
<1>2. Faults(f, targets) \subseteq Nat
  BY <1>1
<1>3. PICK k \in Faults(f, targets) : \A j \in Faults(f, targets) :
          ~ (<<j, k>> \in OpToRel(<, Nat))
  BY <1>2, NatLessThanWellFounded, WFMin
<1>4. \A j \in Faults(f, targets) : k <= j
  <2>1. SUFFICES ASSUME NEW j \in Faults(f, targets), j < k PROVE FALSE
    BY <1>2
  <2>2. <<j, k>> \in OpToRel(<, Nat)
    BY <1>2, <2>1 DEF OpToRel
  <2> QED BY <1>3, <2>2
<1>5. FirstFault(f, targets) \in Faults(f, targets)
  BY <1>4 DEF FirstFault
<1> QED BY <1>1, <1>5

(* The first edit that the server has not been shown yet: that of the frame *)
(* to send again, unless the server let that pass before.                   *)
Upcoming == IF again = NoFrame \/ copy THEN next ELSE again.first

(* What the values of the variables are, as far as the proofs need it.      *)
Typed ==
    /\ now \in 0 .. MaxTime
    /\ limiter \in Limiter /\ limiter.start <= now
    /\ next \in Nat
    /\ again \in Frames \cup {NoFrame}
    /\ sent \in SUBSET Frames
    /\ copy \in BOOLEAN
    /\ relayed \in Seq(Nat)
    /\ admitted \in [0 .. MaxTime -> Nat]

(* The frames that were sent end where the upcoming edit begins, but for    *)
(* the one that is still to be let pass; that one ends the list.            *)
FramesInLine ==
    /\ again # NoFrame => again \in sent /\ again.first + again.size = next
    /\ again # NoFrame /\ copy => again \in LastSingle
    /\ \A f \in sent : \/ f.first + f.size <= Upcoming
                       \/ f = again /\ ~copy

(* The server has seen an edit before the upcoming one, by less than a      *)
(* turn of the numbers; if that was a frame of its own, it was the last.    *)
ServerFollows ==
    /\ \/ lastSeq = NoSeq
       \/ \E e \in Nat : /\ lastSeq = e % SeqMod
                         /\ e < Upcoming /\ Upcoming - e <= MaxBatch
    /\ again = NoFrame \/ copy => \A f \in LastSingle : lastSeq = SeqOf(f, 1)

(* Nothing is relayed from the upcoming edit on. *)
InSequence ==
    /\ FramesInLine
    /\ ServerFollows
    /\ \A i \in 1 .. Len(relayed) : relayed[i] < Upcoming
    /\ RelayedWholeInOrder
    /\ HonestClientIsInSequence

(* A frame arrives. *)
Arrival(f) ==
    /\ f \in Frames
    /\ Receive(f)
    /\ next' \in Nat
    /\ sent' \in SUBSET Frames
    /\ copy' \in BOOLEAN
    /\ UNCHANGED now

(* It has new edits, whether or not it was refused for its rate before ...  *)
Sent(f) ==
    /\ Arrival(f)
    /\ again \in {NoFrame, f}
    /\ f.first = Upcoming
    /\ next' = f.first + f.size
    /\ sent' = sent \cup {f}
    /\ copy' = FALSE

(* ... or is a copy of what passed. *)
Repeated(f) ==
    /\ Arrival(f)
    /\ f \in LastSingle
    /\ again = NoFrame \/ copy
    /\ copy' = TRUE
    /\ UNCHANGED <<next, sent>>

LEMMA EveryFrameIsAnArrival ==
    ASSUME Typed, FramesInLine, [Next]_vars
    PROVE  \/ UNCHANGED vars
           \/ Tick
           \/ \E f \in Frames : Sent(f) \/ Repeated(f)
<1>1. ASSUME NEW f \in Frames, Send(f) PROVE Sent(f)
  <2>1. /\ f.first \in Nat /\ f.size \in Nat /\ next \in Nat
        /\ f.first = next /\ next' = next + f.size
    BY <1>1, BoundAssumption, BatchAssumption, SeqAssumption
       DEF Send, Frames, Typed
  <2>2. Arrival(f)
    <3>1. next' \in Nat
      BY <2>1
    <3>2. sent' \in SUBSET Frames /\ copy' \in BOOLEAN
      BY <1>1 DEF Send, Typed
    <3> QED BY <1>1, <3>1, <3>2 DEF Send, Arrival
  <2> QED BY <1>1, <2>1, <2>2 DEF Send, Sent, Upcoming
<1>2. ASSUME SendAgain
      PROVE  again \in Frames /\ (Sent(again) \/ Repeated(again))
  <2>1. /\ again # NoFrame /\ again \in Frames /\ again \in sent
        /\ again.first + again.size = next
        /\ UNCHANGED <<now, next, sent, copy>>
    BY <1>2 DEF SendAgain, Typed, FramesInLine
  <2>2. Arrival(again)
    BY <1>2, <2>1 DEF SendAgain, Arrival, Typed
  <2>3. CASE copy
    BY <2>1, <2>2, <2>3 DEF FramesInLine, Repeated
  <2>4. CASE ~copy
    <3>1. sent' = sent \cup {again} /\ copy' = FALSE
      BY <2>1, <2>4
    <3> QED BY <2>1, <2>2, <2>4, <3>1 DEF Sent, Upcoming
  <2> QED BY <2>1, <2>3, <2>4
<1>3. ASSUME NEW f \in Frames, Repeat(f) PROVE Repeated(f)
  <2>1. Arrival(f)
    BY <1>3 DEF Repeat, Arrival, Typed
  <2> QED BY <1>3, <2>1 DEF Repeat, Repeated
<1> QED BY <1>1, <1>2, <1>3 DEF Next

(* A limiter goes on being one, and starts its window now or earlier.       *)
LEMMA LimiterStays ==
    ASSUME Typed
    PROVE  /\ Refreshed(limiter, now) \in Limiter
           /\ Refreshed(limiter, now).start <= now
           /\ AfterFrame(limiter, now) \in Limiter
           /\ AfterFrame(limiter, now).start = Refreshed(limiter, now).start
<1>1. /\ Refreshed(limiter, now) \in Limiter
      /\ Refreshed(limiter, now).start <= now
  BY LimitAssumption, WindowAssumption, BoundAssumption
     DEF Typed, Limiter, Refreshed
<1> QED BY <1>1, LimitAssumption DEF AfterFrame, Allows, Limiter

LEMMA TypedStays ==
    ASSUME Typed, InSequence, [Next]_vars
    PROVE  Typed'
<1>1. CASE UNCHANGED vars
  BY <1>1 DEF vars, Typed
<1>2. CASE Tick
  <2>1. limiter.start \in Nat
    BY DEF Typed, Limiter
  <2>2. now < MaxTime /\ now' = now + 1
    BY <1>2 DEF Tick
  <2>3. now \in Nat /\ limiter.start <= now
    BY BoundAssumption DEF Typed
  <2>4. now + 1 \in 0 .. MaxTime /\ limiter.start <= now + 1
    BY <2>1, <2>2, <2>3, BoundAssumption
  <2> QED BY <1>2, <2>4 DEF Tick, Typed
<1>3. ASSUME NEW f \in Frames, Arrival(f) PROVE Typed'
  <2>1. /\ f.size \in Nat /\ f.first \in Nat /\ next' \in Nat
        /\ now' = now /\ limiter' = AfterFrame(limiter, now)
        /\ sent' \in SUBSET Frames /\ copy' \in BOOLEAN
    BY <1>3, BoundAssumption, BatchAssumption, SeqAssumption
       DEF Arrival, Receive, Frames
  <2>2. limiter' \in Limiter /\ limiter'.start <= now'
    BY <2>1, LimiterStays
  <2>3. CASE RateLimited(f)
    BY <1>3, <2>1, <2>2, <2>3 DEF RateLimited, Typed
  <2>4. CASE Admitted /\ \/ UNCHANGED relayed
                         \/ relayed' = relayed \o [i \in 1 .. f.size |-> f.first + i - 1]
    <3>1. again' = NoFrame /\ admitted' \in [0 .. MaxTime -> Nat]
      BY <2>4 DEF Admitted, Typed
    <3> DEFINE edits == [i \in 1 .. f.size |-> f.first + i - 1]
    <3>2. edits \in Seq(Nat)
      <4>1. \A i \in 1 .. f.size : f.first + i - 1 \in Nat
        BY <2>1
      <4>2. edits \in [1 .. f.size -> Nat]
        BY <4>1
      <4> QED BY <2>1, <4>2
    <3>5. relayed \in Seq(Nat)
      BY DEF Typed
    <3> HIDE DEF edits
    <3>3. relayed \o edits \in Seq(Nat)
      BY <3>2, <3>5
    <3>4. relayed' \in Seq(Nat)
      BY <2>4, <3>5, <3>3 DEF edits
    <3> QED BY <2>1, <2>2, <3>1, <3>4 DEF Typed
  <2> QED BY <1>3, <2>3, <2>4 DEF Arrival, Receive, Failed, Relayed
<1> QED BY <1>1, <1>2, <1>3, EveryFrameIsAnArrival DEF InSequence, Sent, Repeated

(* Every edit of the frame that is sent has an acceptable number.           *)
LEMMA NumbersAreAccepted ==
    ASSUME Typed, InSequence, NEW f \in Frames, f.first = Upcoming,
           NEW k \in 1 .. f.size
    PROVE  AcceptsSeq(f, k)
<1>1. /\ f.first \in Nat /\ f.size \in Nat /\ k \in Nat /\ k >= 1
      /\ SeqMod \in Nat \ {0} /\ SeqMod > 1 /\ MaxBatch < SeqMod
  BY BoundAssumption, BatchAssumption, SeqAssumption DEF Frames
<1>2. CASE k = 1
  <2>1. SeqOf(f, k) = f.first % SeqMod /\ SeqBefore(f, k) = lastSeq
    BY <1>1, <1>2 DEF SeqOf, SeqBefore
  <2>2. CASE lastSeq = NoSeq
    BY <1>1, <2>1, <2>2, SeqAssumption DEF AcceptsSeq
  <2>3. ASSUME NEW e \in Nat, lastSeq = e % SeqMod,
               e < Upcoming, Upcoming - e <= MaxBatch
        PROVE  AcceptsSeq(f, k)
    <3>1. e < f.first /\ f.first - e < SeqMod
      BY <1>1, <2>3, BatchAssumption, SeqAssumption
    <3>2. e % SeqMod # f.first % SeqMod
      BY <1>1, <3>1, CloseNumbersDiffer
    <3> QED BY <2>1, <2>3, <3>2 DEF AcceptsSeq
  <2> QED BY <2>2, <2>3 DEF InSequence, ServerFollows
<1>3. CASE k > 1
  <2>1. /\ SeqOf(f, k) = (f.first + k - 1) % SeqMod
        /\ SeqBefore(f, k) = (f.first + (k - 1) - 1) % SeqMod
    BY <1>1, <1>3 DEF SeqOf, SeqBefore
  <2>2. /\ f.first + k - 1 \in Nat /\ f.first + (k - 1) - 1 \in Nat
        /\ f.first + (k - 1) - 1 < f.first + k - 1
        /\ (f.first + k - 1) - (f.first + (k - 1) - 1) < SeqMod
    BY <1>1, <1>3
  <2>3. (f.first + (k - 1) - 1) % SeqMod # (f.first + k - 1) % SeqMod
    BY <1>1, <2>2, CloseNumbersDiffer
  <2> QED BY <2>1, <2>3 DEF AcceptsSeq
<1> QED BY <1>1, <1>2, <1>3

(* So the loop stops only for a target, never for a number.                 *)
LEMMA FailsForItsTarget ==
    ASSUME Typed, InSequence, NEW f \in Frames, f.first = Upcoming,
           NEW targets, Faults(f, targets) # {}, Failed(f, targets)
    PROVE  \E k \in 1 .. f.size : /\ lastSeq' = SeqOf(f, k)
                                  /\ answer' = "OUT_OF_RANGE"
<1> DEFINE k == FirstFault(f, targets)
<1>1. k \in 1 .. f.size
  BY FirstFaultIsAFault
<1>2. AcceptsSeq(f, k)
  BY <1>1, NumbersAreAccepted
<1>3. lastSeq' = SeqOf(f, k) /\ answer' = "OUT_OF_RANGE"
  BY <1>2 DEF Failed
<1> QED BY <1>1, <1>3

(* Growing numbers below a, followed by a, a + 1, ..., still grow.          *)
LEMMA OrderedWhole ==
    ASSUME NEW n \in Nat, NEW m \in Nat, NEW a \in Nat, NEW old, NEW whole,
           \A i \in 1 .. n : whole[i] = old[i] /\ old[i] \in Nat /\ old[i] < a,
           \A i, j \in 1 .. n : i < j => old[i] < old[j],
           \A i \in n + 1 .. n + m : whole[i] = a + (i - n) - 1
    PROVE  /\ \A i \in 1 .. n + m : whole[i] < a + m
           /\ \A i, j \in 1 .. n + m : i < j => whole[i] < whole[j]
<1>1. ASSUME NEW i \in 1 .. n + m
      PROVE  \/ i \in 1 .. n /\ whole[i] = old[i]
             \/ i \in n + 1 .. n + m /\ whole[i] = a + (i - n) - 1
  OBVIOUS
<1>2. ASSUME NEW i \in 1 .. n + m PROVE whole[i] < a + m
  BY <1>1
<1>3. ASSUME NEW i \in 1 .. n + m, NEW j \in 1 .. n + m, i < j
      PROVE  whole[i] < whole[j]
  <2>1. CASE j \in 1 .. n
    BY <1>3, <2>1
  <2>2. CASE i \in 1 .. n /\ j \in n + 1 .. n + m
    BY <1>3, <2>2
  <2>3. CASE i \in n + 1 .. n + m
    BY <1>3, <2>3
  <2> QED BY <1>3, <2>1, <2>2, <2>3
<1> QED BY <1>2, <1>3

(* What is relayed after a frame of new edits is whole. *)
LEMMA FrameKeepsWhole ==
    ASSUME Typed, InSequence, NEW f \in Frames, f.first = Upcoming,
           again \in {NoFrame, f}, sent' = sent \cup {f}, NEW targets,
           Failed(f, targets) \/ Relayed(f, targets)
    PROVE  \A g \in sent' : \/ Edits(g) \subseteq RelayedEdits'
                            \/ Edits(g) \cap RelayedEdits' = {}
<1>1. /\ f.first \in Nat /\ f.size \in Nat /\ f.size >= 1 /\ next \in Nat
      /\ relayed \in Seq(Nat)
      /\ \A i \in 1 .. Len(relayed) : relayed[i] \in Nat /\ relayed[i] < f.first
  BY BoundAssumption, BatchAssumption, SeqAssumption
     DEF Frames, Typed, InSequence
<1>2. \A g \in sent : g # f =>
          /\ g.first \in Nat /\ g.size \in Nat
          /\ g.first + g.size <= f.first
          /\ Edits(g) \subseteq RelayedEdits \/ Edits(g) \cap RelayedEdits = {}
  <2> SUFFICES ASSUME NEW g \in sent, g # f
               PROVE  /\ g.first \in Nat /\ g.size \in Nat
                      /\ g.first + g.size <= f.first
                      /\ \/ Edits(g) \subseteq RelayedEdits
                         \/ Edits(g) \cap RelayedEdits = {}
    OBVIOUS
  <2>1. g \in Frames /\ g.first \in Nat /\ g.size \in Nat /\ g.size >= 1
    BY BoundAssumption, BatchAssumption, SeqAssumption DEF Typed, Frames
  <2>2. \/ g.first + g.size <= f.first
        \/ g = again /\ ~copy
    BY DEF InSequence, FramesInLine
  <2>3. g # again
    BY <2>1, FrameAssumption
  <2> QED BY <2>1, <2>2, <2>3 DEF InSequence, RelayedWholeInOrder
<1>3. RelayedEdits \cap Edits(f) = {}
  BY <1>1 DEF RelayedEdits, Edits
<1>4. CASE Failed(f, targets)
  <2>1. RelayedEdits' = RelayedEdits
    BY <1>4 DEF Failed, RelayedEdits
  <2> QED BY <1>2, <1>3, <2>1
<1>5. CASE Relayed(f, targets)
  <2> DEFINE edits == [i \in 1 .. f.size |-> f.first + i - 1]
             n     == Len(relayed)
  <2>1. relayed' = relayed \o edits
    BY <1>5 DEF Relayed
  <2>2. n \in Nat /\ Len(relayed \o edits) = n + f.size
    BY <1>1
  <2>3. /\ \A i \in 1 .. n : (relayed \o edits)[i] = relayed[i]
        /\ \A i \in n + 1 .. n + f.size : (relayed \o edits)[i] = f.first + (i - n) - 1
    BY <1>1
  <2> HIDE DEF edits, n
  <2>4. RelayedEdits' = RelayedEdits \cup Edits(f)
    <3>1. ASSUME NEW e \in RelayedEdits' PROVE e \in RelayedEdits \cup Edits(f)
      <4>1. PICK i \in 1 .. n + f.size : e = (relayed \o edits)[i]
        BY <2>1, <2>2, <3>1 DEF RelayedEdits
      <4>2. CASE i \in 1 .. n
        BY <2>3, <4>1, <4>2 DEF RelayedEdits, n
      <4>3. CASE i \in n + 1 .. n + f.size
        BY <1>1, <2>2, <2>3, <4>1, <4>3 DEF Edits
      <4> QED BY <2>2, <1>1, <4>1, <4>2, <4>3
    <3>2. ASSUME NEW e \in RelayedEdits PROVE e \in RelayedEdits'
      <4>1. PICK i \in 1 .. n : e = relayed[i]
        BY <3>2 DEF RelayedEdits, n
      <4>2. i \in 1 .. n + f.size /\ e = (relayed \o edits)[i]
        BY <1>1, <2>2, <2>3, <4>1
      <4> QED BY <2>1, <2>2, <4>2 DEF RelayedEdits
    <3>3. ASSUME NEW e \in Edits(f) PROVE e \in RelayedEdits'
      <4>1. e \in Nat /\ f.first <= e /\ e <= f.first + f.size - 1
        BY <1>1, <3>3 DEF Edits
      <4> DEFINE i == n + (e - f.first) + 1
      <4>2. i \in n + 1 .. n + f.size /\ i \in 1 .. n + f.size
            /\ f.first + (i - n) - 1 = e
        <5>1. n \in Nat /\ f.first \in Nat /\ f.size \in Nat
          BY <1>1, <2>2
        <5>2. i \in Nat /\ i >= n + 1 /\ i <= n + f.size
          BY <4>1, <5>1
        <5> HIDE DEF i
        <5>3. i \in n + 1 .. n + f.size /\ i \in 1 .. n + f.size
          BY <5>1, <5>2
        <5>4. f.first + (i - n) - 1 = e
          BY <4>1, <5>1 DEF i
        <5> QED BY <5>3, <5>4
      <4> HIDE DEF i
      <4>3. e = (relayed \o edits)[i]
        BY <2>3, <4>2
      <4> QED BY <2>1, <2>2, <4>2, <4>3 DEF RelayedEdits
    <3> QED BY <3>1, <3>2, <3>3
  <2>5. \A g \in sent : g # f => Edits(g) \cap Edits(f) = {}
    BY <1>1, <1>2 DEF Edits
  <2> QED BY <1>2, <2>4, <2>5
<1> QED BY <1>4, <1>5

(* The frames stay in line when one of new edits arrives. *)
LEMMA FrameStaysInLine ==
    ASSUME Typed, FramesInLine, NEW f \in Frames, Sent(f),
           again' = f \/ again' = NoFrame
    PROVE  FramesInLine'
<1>1. /\ f.first \in Nat /\ f.size \in Nat /\ f.size >= 1
      /\ f.first = Upcoming /\ next' = f.first + f.size
      /\ sent' = sent \cup {f} /\ copy' = FALSE /\ f # NoFrame
  BY BoundAssumption, BatchAssumption, SeqAssumption, FrameAssumption
     DEF Frames, Sent
<1>2. \A g \in sent : g # f => g.first + g.size <= f.first
  <2> SUFFICES ASSUME NEW g \in sent, g # f PROVE g.first + g.size <= f.first
    OBVIOUS
  <2>1. g # again
    BY FrameAssumption DEF Typed, Sent
  <2> QED BY <1>1, <2>1 DEF FramesInLine
<1>3. CASE again' = NoFrame
  <2>1. Upcoming' = f.first + f.size
    BY <1>1, <1>3 DEF Upcoming
  <2>2. \A g \in sent : g # f => g.first \in Nat /\ g.size \in Nat
    BY BoundAssumption, BatchAssumption, SeqAssumption DEF Typed, Frames
  <2>3. \A g \in sent' : g.first + g.size <= Upcoming'
    BY <1>1, <1>2, <2>1, <2>2
  <2> QED BY <1>3, <2>3 DEF FramesInLine
<1>4. CASE again' = f
  <2>1. Upcoming' = f.first /\ again' # NoFrame /\ again' \in sent'
    BY <1>1, <1>4 DEF Upcoming
  <2>2. \A g \in sent' : g.first + g.size <= Upcoming' \/ (g = again' /\ ~copy')
    BY <1>1, <1>2, <1>4, <2>1
  <2> QED BY <1>1, <1>4, <2>1, <2>2 DEF FramesInLine
<1> QED BY <1>3, <1>4

(* A frame of new edits moves the numbers on, or is kept to be sent again.  *)
LEMMA SentKeepsSequence ==
    ASSUME Typed, InSequence, NEW f \in Frames, Sent(f)
    PROVE  InSequence'
<1>1. /\ f.first \in Nat /\ f.size \in Nat /\ f.size >= 1 /\ f.size <= MaxBatch
      /\ MaxBatch \in Nat /\ f.first = Upcoming /\ next' = f.first + f.size
      /\ again \in {NoFrame, f} /\ sent' = sent \cup {f} /\ copy' = FALSE
      /\ f # NoFrame
  BY BoundAssumption, BatchAssumption, SeqAssumption, FrameAssumption
     DEF Frames, Sent
<1>2. /\ relayed \in Seq(Nat)
      /\ \A i \in 1 .. Len(relayed) : relayed[i] \in Nat /\ relayed[i] < f.first
      /\ \A i, j \in 1 .. Len(relayed) : i < j => relayed[i] < relayed[j]
  BY <1>1 DEF InSequence, Typed, RelayedWholeInOrder
<1>3. CASE RateLimited(f)
  <2>1. /\ again' = f /\ Upcoming' = f.first
        /\ lastSeq' = lastSeq /\ relayed' = relayed /\ answer' = "RATE_LIMIT"
    BY <1>1, <1>3 DEF RateLimited, Upcoming
  <2>2. FramesInLine'
    BY <2>1, FrameStaysInLine DEF InSequence
  <2>3. ServerFollows'
    BY <1>1, <2>1 DEF InSequence, ServerFollows
  <2>4. \A g \in sent' : \/ Edits(g) \subseteq RelayedEdits'
                         \/ Edits(g) \cap RelayedEdits' = {}
    <3>1. Edits(f) \cap RelayedEdits = {}
      BY <1>1, <1>2 DEF Edits, RelayedEdits
    <3>2. RelayedEdits' = RelayedEdits
      BY <2>1 DEF RelayedEdits
    <3> QED BY <1>1, <3>1, <3>2 DEF InSequence, RelayedWholeInOrder
  <2>5. RelayedWholeInOrder' /\ \A i \in 1 .. Len(relayed') : relayed'[i] < f.first
    BY <1>2, <2>1, <2>4 DEF RelayedWholeInOrder
  <2>6. HonestClientIsInSequence'
    BY <2>1 DEF HonestClientIsInSequence
  <2> QED BY <2>1, <2>2, <2>3, <2>5, <2>6 DEF InSequence
<1>4. ASSUME Admitted, NEW k \in 1 .. f.size, lastSeq' = SeqOf(f, k)
      PROVE  /\ Upcoming' = f.first + f.size
             /\ FramesInLine'
             /\ ServerFollows'
  <2>1. again' = NoFrame /\ Upcoming' = f.first + f.size
    BY <1>1, <1>4 DEF Admitted, Upcoming
  <2>2. FramesInLine'
    BY <2>1, FrameStaysInLine DEF InSequence
  <2> DEFINE u == f.first + k - 1
  <2>3. u \in Nat /\ u < Upcoming' /\ Upcoming' - u <= MaxBatch
    BY <1>1, <2>1
  <2>4. lastSeq' = u % SeqMod
    BY <1>4 DEF SeqOf
  <2> HIDE DEF u
  <2>5. ASSUME NEW g \in LastSingle' PROVE lastSeq' = SeqOf(g, 1)
    <3>1. g \in sent' /\ g.size = 1 /\ g.first + 1 = f.first + f.size
      BY <1>1, <2>5 DEF LastSingle
    <3>2. CASE g = f
      BY <1>1, <1>4, <3>1, <3>2
    <3>3. CASE g # f
      <4>1. g \in sent /\ g # again /\ g.first \in Nat
        BY <1>1, <3>1, <3>3, FrameAssumption, BoundAssumption DEF Typed, Frames
      <4>2. g.first + g.size <= f.first
        BY <1>1, <4>1 DEF InSequence, FramesInLine
      <4> QED BY <1>1, <3>1, <4>1, <4>2
    <3> QED BY <3>2, <3>3
  <2> QED BY <2>1, <2>2, <2>3, <2>4, <2>5 DEF ServerFollows
<1>5. ASSUME NEW targets, Failed(f, targets) PROVE InSequence'
  <2>1. Admitted /\ Faults(f, targets) # {} /\ relayed' = relayed
    BY <1>5 DEF Failed
  <2>2. PICK k \in 1 .. f.size : lastSeq' = SeqOf(f, k) /\ answer' = "OUT_OF_RANGE"
    BY <1>1, <1>5, <2>1, FailsForItsTarget
  <2>3. \A i \in 1 .. Len(relayed) : relayed[i] < f.first + f.size
    BY <1>1, <1>2
  <2>4. RelayedWholeInOrder' /\ HonestClientIsInSequence'
    BY <1>1, <1>2, <1>5, <2>1, <2>2, FrameKeepsWhole
       DEF RelayedWholeInOrder, HonestClientIsInSequence
  <2> QED BY <1>4, <2>1, <2>2, <2>3, <2>4 DEF InSequence
<1>6. ASSUME NEW targets, Relayed(f, targets) PROVE InSequence'
  <2> DEFINE edits == [i \in 1 .. f.size |-> f.first + i - 1]
             n     == Len(relayed)
  <2>1. /\ Admitted /\ lastSeq' = SeqOf(f, f.size) /\ answer' = "none"
        /\ relayed' = relayed \o edits
    BY <1>6 DEF Relayed
  <2>2. n \in Nat /\ Len(relayed \o edits) = n + f.size
    BY <1>1, <1>2
  <2>3. \A i \in 1 .. n : (relayed \o edits)[i] = relayed[i]
    BY <1>1, <1>2
  <2>4. \A i \in n + 1 .. n + f.size :
            (relayed \o edits)[i] = f.first + (i - n) - 1
    BY <1>1, <1>2
  <2> HIDE DEF n, edits
  <2>5. \A i \in 1 .. n : /\ (relayed \o edits)[i] = relayed[i]
                        /\ relayed[i] \in Nat /\ relayed[i] < f.first
    BY <1>2, <2>3 DEF n
  <2>6. /\ \A i \in 1 .. n + f.size : (relayed \o edits)[i] < f.first + f.size
        /\ \A i, j \in 1 .. n + f.size :
              i < j => (relayed \o edits)[i] < (relayed \o edits)[j]
    <3>1. \A i, j \in 1 .. n : i < j => relayed[i] < relayed[j]
      BY <1>2 DEF n
    <3> QED BY <1>1, <2>2, <2>4, <2>5, <3>1, OrderedWhole
  <2>7. \A g \in sent' : \/ Edits(g) \subseteq RelayedEdits'
                         \/ Edits(g) \cap RelayedEdits' = {}
    BY <1>1, <1>6, FrameKeepsWhole
  <2>8. RelayedWholeInOrder' /\ HonestClientIsInSequence'
    BY <2>1, <2>2, <2>6, <2>7 DEF RelayedWholeInOrder, HonestClientIsInSequence
  <2>9. f.size \in 1 .. f.size
    BY <1>1
  <2> QED BY <1>4, <2>1, <2>2, <2>6, <2>8, <2>9 DEF InSequence
<1> QED BY <1>3, <1>5, <1>6 DEF Sent, Arrival, Receive

(* A copy has the number that was seen last: nothing of it is relayed, and  *)
(* the numbers stay where they are.                                         *)
LEMMA RepeatedKeepsSequence ==
    ASSUME Typed, InSequence, NEW f \in Frames, Repeated(f)
    PROVE  InSequence'
<1>1. /\ f.first \in Nat /\ f.size = 1 /\ f \in sent /\ f.first + 1 = next
      /\ f \in LastSingle /\ f # NoFrame
      /\ copy' = TRUE /\ UNCHANGED <<next, sent>>
      /\ Upcoming = next /\ LastSingle' = LastSingle
      /\ next \in Nat
  BY BoundAssumption, FrameAssumption
     DEF Repeated, LastSingle, Frames, Upcoming, Typed
<1>2. lastSeq = SeqOf(f, 1)
  BY <1>1 DEF Repeated, InSequence, ServerFollows
<1>3. ~AcceptsSeq(f, 1)
  BY <1>2 DEF AcceptsSeq, SeqBefore
<1>4. Upcoming' = Upcoming
  BY <1>1 DEF Upcoming
<1>5. \A g \in sent : g.first + g.size <= Upcoming
  <2> SUFFICES ASSUME NEW g \in sent PROVE g.first + g.size <= Upcoming
    OBVIOUS
  <2>1. g \in Frames /\ g # NoFrame
    BY FrameAssumption DEF Typed
  <2>2. ~(g = again /\ ~copy)
    BY <2>1 DEF Repeated
  <2> QED BY <2>2 DEF InSequence, FramesInLine
<1>6. ASSUME lastSeq' = lastSeq, relayed' = relayed, again' = f \/ again' = NoFrame
      PROVE  InSequence'
  <2>1. FramesInLine'
    BY <1>1, <1>4, <1>5, <1>6 DEF FramesInLine
  <2>2. ServerFollows'
    <3>1. \A g \in LastSingle : lastSeq = SeqOf(g, 1)
      BY DEF Repeated, InSequence, ServerFollows
    <3>2. \A g \in LastSingle' : lastSeq' = SeqOf(g, 1)
      BY <1>1, <1>6, <3>1
    <3> QED BY <1>1, <1>4, <1>6, <3>2 DEF InSequence, ServerFollows
  <2>3. RelayedWholeInOrder'
    <3>1. RelayedEdits' = RelayedEdits
      BY <1>6 DEF RelayedEdits
    <3> QED BY <1>1, <1>6, <3>1 DEF InSequence, RelayedWholeInOrder
  <2>4. HonestClientIsInSequence'
    BY <1>1 DEF HonestClientIsInSequence
  <2> QED BY <1>4, <1>6, <2>1, <2>2, <2>3, <2>4 DEF InSequence
<1>7. CASE RateLimited(f)
  BY <1>6, <1>7 DEF RateLimited
<1>8. ASSUME NEW targets, Failed(f, targets) PROVE InSequence'
  <2>1. FirstFault(f, targets) = 1
    <3>1. FirstFault(f, targets) \in 1 .. 1
      BY <1>1, <1>8, FirstFaultIsAFault DEF Failed
    <3> QED BY <3>1
  <2>2. lastSeq' = lastSeq /\ relayed' = relayed /\ again' = NoFrame
    BY <1>3, <1>8, <2>1 DEF Failed, Admitted, SeqBefore
  <2> QED BY <1>6, <2>2
<1>9. ASSUME NEW targets, Relayed(f, targets) PROVE FALSE
  BY <1>1, <1>3, <1>9 DEF Relayed, Faults
<1> QED BY <1>7, <1>8, <1>9 DEF Repeated, Arrival, Receive

LEMMA SequenceStays ==
    ASSUME Typed, InSequence, [Next]_vars
    PROVE  InSequence'
<1>1. CASE UNCHANGED vars
  BY <1>1 DEF vars, InSequence, FramesInLine, ServerFollows, LastSingle, SeqOf,
              Upcoming, RelayedWholeInOrder, RelayedEdits, HonestClientIsInSequence
<1>2. CASE Tick
  BY <1>2 DEF Tick, InSequence, FramesInLine, ServerFollows, LastSingle, SeqOf,
              Upcoming, RelayedWholeInOrder, RelayedEdits, HonestClientIsInSequence
<1> QED BY <1>1, <1>2, EveryFrameIsAnArrival, SentKeepsSequence,
           RepeatedKeepsSequence DEF InSequence

LEMMA StartIsInSequence ==
    ASSUME Init PROVE Typed /\ InSequence
<1>1. /\ now = 0 /\ next = 0 /\ again = NoFrame /\ lastSeq = NoSeq
      /\ sent = {} /\ copy = FALSE /\ answer = "none" /\ relayed = <<>> /\ limiter = [start |-> 0, count |-> 0]
  BY DEF Init, NewLimiter
<1>2. limiter \in Limiter /\ limiter.start <= now
  BY <1>1, LimitAssumption DEF Limiter
<1>3. relayed \in Seq(Nat) /\ Len(relayed) = 0
  BY <1>1
<1>4. admitted \in [0 .. MaxTime -> Nat]
  BY DEF Init
<1>5. Typed
  BY <1>1, <1>2, <1>3, <1>4, BoundAssumption DEF Typed
<1>6. InSequence
  BY <1>1, <1>3 DEF InSequence, FramesInLine, ServerFollows, LastSingle,
                    RelayedWholeInOrder, HonestClientIsInSequence
<1> QED BY <1>5, <1>6

LEMMA AlwaysInSequence == Spec => [](Typed /\ InSequence)
<1>1. Init => Typed /\ InSequence
  BY StartIsInSequence
<1>2. Typed /\ InSequence /\ [Next]_vars => (Typed /\ InSequence)'
  BY TypedStays, SequenceStays
<1> QED BY <1>1, <1>2, PTL DEF Spec

(* handle_dig and handle_dig_batch answer BAD_DIG_SEQ only to a copy of a   *)
(* frame that they let pass, and never to a client that sends its edits in  *)
(* their order and again when they were refused for its rate: not at the    *)
(* first number, not where the numbers wrap.                                *)
THEOREM HonestClientIsAlwaysInSequence == Spec => []HonestClientIsInSequence
BY AlwaysInSequence, PTL DEF InSequence

(* Of a client that sends again what was refused for its rate, and possibly *)
(* its last frame if that is a single edit, no edit is relayed twice or     *)
(* after a later one, and no frame in part.  (A copy of a batch, or of an   *)
(* older frame, is relayed again: accept_dig_seq knows the last number      *)
(* only.)                                                                   *)
THEOREM EditsAlwaysRelayedWholeInOrder == Spec => []RelayedWholeInOrder
BY AlwaysInSequence, PTL DEF InSequence

-----------------------------------------------------------------------------
(* The frames that were admitted.  AdmittedIn counts pairs: the first, the  *)
(* second, ... frame of each time.                                          *)

Times == 0 .. MaxTime

Pairs(adm, S) == {e \in S \X (1 .. 2 * Limit + 2) : e[2] <= adm[e[1]]}

Amount(adm, S) == Cardinality(Pairs(adm, S))

LEMMA PairsAreFinite ==
    ASSUME NEW adm, NEW S \in SUBSET Times
    PROVE  IsFiniteSet(Pairs(adm, S)) /\ Amount(adm, S) \in Nat
<1>1. IsFiniteSet(Times)
  BY BoundAssumption, FS_Interval DEF Times
<1>2. IsFiniteSet(S)
  BY <1>1, FS_Subset
<1>3. IsFiniteSet(1 .. 2 * Limit + 2)
  BY LimitAssumption, FS_Interval
<1>4. IsFiniteSet(S \X (1 .. 2 * Limit + 2))
  BY <1>2, <1>3, FS_Product
<1>5. Pairs(adm, S) \in SUBSET (S \X (1 .. 2 * Limit + 2))
  BY DEF Pairs
<1>6. IsFiniteSet(Pairs(adm, S))
  BY <1>4, <1>5, FS_Subset
<1> QED BY <1>6, FS_CardinalityType DEF Amount

LEMMA AmountGrowsWithTimes ==
    ASSUME NEW adm, NEW T \in SUBSET Times, NEW S \in SUBSET T
    PROVE  Amount(adm, S) <= Amount(adm, T)
<1>1. Pairs(adm, S) \in SUBSET Pairs(adm, T)
  BY DEF Pairs
<1> QED BY <1>1, PairsAreFinite, FS_Subset DEF Amount

LEMMA AmountOfUnion ==
    ASSUME NEW adm, NEW S \in SUBSET Times, NEW T \in SUBSET Times
    PROVE  Amount(adm, S \cup T) <= Amount(adm, S) + Amount(adm, T)
<1> DEFINE P == Pairs(adm, S)
           Q == Pairs(adm, T)
<1>1. IsFiniteSet(P) /\ IsFiniteSet(Q)
  BY PairsAreFinite
<1>2. Pairs(adm, S \cup T) = P \cup Q
  BY DEF Pairs
<1>3. Cardinality(P \cap Q) \in Nat
  <2>1. P \cap Q \in SUBSET P
    OBVIOUS
  <2>2. IsFiniteSet(P \cap Q)
    BY <1>1, <2>1, FS_Subset
  <2> QED BY <2>2, FS_CardinalityType
<1>4. Cardinality(P) \in Nat /\ Cardinality(Q) \in Nat
  BY <1>1, FS_CardinalityType
<1>5. Cardinality(P \cup Q)
          = Cardinality(P) + Cardinality(Q) - Cardinality(P \cap Q)
  BY <1>1, FS_Union
<1> HIDE DEF P, Q
<1>6. Cardinality(P \cup Q) <= Cardinality(P) + Cardinality(Q)
  BY <1>3, <1>4, <1>5
<1> QED BY <1>2, <1>6 DEF Amount, P, Q

(* One frame more adds one at most.                                         *)
LEMMA AmountAfterOneMore ==
    ASSUME NEW adm \in [Times -> Nat], NEW n \in Times, NEW S \in SUBSET Times
    PROVE  Amount([adm EXCEPT ![n] = @ + 1], S) <= Amount(adm, S) + 1
<1> DEFINE more == [adm EXCEPT ![n] = @ + 1]
           Q    == Pairs(adm, S) \cup {<<n, adm[n] + 1>>}
<1>1. Pairs(more, S) \in SUBSET Q
  <2>1. SUFFICES ASSUME NEW e \in Pairs(more, S), e \notin Pairs(adm, S)
                 PROVE  e = <<n, adm[n] + 1>>
    OBVIOUS
  <2>2. /\ e \in S \X (1 .. 2 * Limit + 2) /\ e[2] <= more[e[1]]
        /\ ~ (e[2] <= adm[e[1]]) /\ e[1] \in Times
    BY <2>1 DEF Pairs
  <2>3. e[1] = n
    BY <2>2
  <2>4. adm[n] \in Nat /\ e[2] \in Nat /\ e[2] <= adm[n] + 1 /\ ~ (e[2] <= adm[n])
    BY <2>2, <2>3, LimitAssumption
  <2>5. e[2] = adm[n] + 1
    BY <2>4
  <2>6. e = <<e[1], e[2]>>
    BY <2>2
  <2> HIDE DEF more
  <2> QED BY <2>3, <2>5, <2>6
<1>2. IsFiniteSet(Q) /\ Cardinality(Q) <= Cardinality(Pairs(adm, S)) + 1
  <2> DEFINE P == Pairs(adm, S)
             x == <<n, adm[n] + 1>>
  <2>1. Cardinality(P) \in Nat /\ IsFiniteSet(P)
    BY PairsAreFinite DEF Amount
  <2> HIDE DEF P, x
  <2>2. /\ IsFiniteSet(P \cup {x})
        /\ Cardinality(P \cup {x})
               = IF x \in P THEN Cardinality(P) ELSE Cardinality(P) + 1
    BY <2>1, FS_AddElement
  <2>3. Cardinality(P \cup {x}) <= Cardinality(P) + 1
    BY <2>1, <2>2
  <2> QED BY <2>2, <2>3 DEF P, x
<1>3. Cardinality(Pairs(more, S)) <= Cardinality(Q) /\ Cardinality(Q) \in Nat
      /\ IsFiniteSet(Pairs(more, S))
  BY <1>1, <1>2, FS_Subset, FS_CardinalityType
<1>4. /\ Cardinality(Pairs(more, S)) \in Nat
      /\ Cardinality(Pairs(adm, S)) \in Nat
  BY <1>3, FS_CardinalityType, PairsAreFinite DEF Amount
<1> HIDE DEF Q, more
<1>5. Cardinality(Pairs(more, S)) <= Cardinality(Pairs(adm, S)) + 1
  BY <1>2, <1>3, <1>4
<1> QED BY <1>5 DEF Amount, more

(* Only the amounts at the times themselves matter.                         *)
LEMMA AmountElsewhere ==
    ASSUME NEW adm, NEW other, NEW S \in SUBSET Times,
           \A u \in S : adm[u] = other[u]
    PROVE  Amount(adm, S) = Amount(other, S)
<1>1. Pairs(adm, S) = Pairs(other, S)
  BY DEF Pairs
<1> QED BY <1>1 DEF Amount

LEMMA NothingAdmitted ==
    ASSUME NEW adm, NEW S \in SUBSET Times, \A u \in S : adm[u] = 0
    PROVE  Amount(adm, S) = 0
<1>1. Pairs(adm, S) = {}
  BY LimitAssumption DEF Pairs
<1> QED BY <1>1, FS_EmptySet DEF Amount

LEMMA SomethingAdmitted ==
    ASSUME NEW adm \in [Times -> Nat], NEW S \in SUBSET Times,
           NEW u \in S, adm[u] > 0
    PROVE  Amount(adm, S) > 0
<1>1. <<u, 1>> \in Pairs(adm, S)
  BY LimitAssumption DEF Pairs
<1>2. Amount(adm, S) # 0
  BY <1>1, PairsAreFinite, FS_EmptySet DEF Amount
<1> QED BY <1>2, PairsAreFinite

-----------------------------------------------------------------------------
(* The limiter and what it admitted.                                        *)

Since(t) == {u \in Times : t <= u}

Before(t) == {u \in Times : t - Window < u /\ u < t}

WindowAt(t) == {u \in Times : t <= u /\ u < t + Window}

(* What was admitted since the window began is in the count, what was       *)
(* admitted in the second before is within the limit, and the windows       *)
(* wherever they begin are within twice the limit.  Nothing was admitted in *)
(* the future, nor now if the limiter's window is over.                     *)
WithinWindows ==
    /\ Amount(admitted, Since(limiter.start)) <= limiter.count
    /\ Amount(admitted, Before(limiter.start)) <= Limit
    /\ \A t \in Times : Amount(admitted, WindowAt(t)) <= 2 * Limit
    /\ \A u \in Times : u > now => admitted[u] = 0
    /\ now - limiter.start >= Window => admitted[now] = 0

(* A window that reaches into the limiter's own is covered by the second    *)
(* before that and the count.                                               *)
LEMMA WindowIsCovered ==
    ASSUME NEW adm, NEW s \in Nat, NEW c \in 0 .. Limit,
           Amount(adm, Since(s)) <= c, Amount(adm, Before(s)) <= Limit,
           NEW t \in Times, s < t + Window
    PROVE  Amount(adm, WindowAt(t)) <= 2 * Limit
<1>1. /\ Since(s) \in SUBSET Times /\ Before(s) \in SUBSET Times
      /\ WindowAt(t) \in SUBSET Times
      /\ Since(s) \cup Before(s) \in SUBSET Times
  BY DEF Since, Before, WindowAt
<1>2. WindowAt(t) \in SUBSET (Since(s) \cup Before(s))
  BY WindowAssumption, BoundAssumption DEF Since, Before, WindowAt, Times
<1>3. Amount(adm, WindowAt(t)) <= Amount(adm, Since(s) \cup Before(s))
  BY <1>1, <1>2, AmountGrowsWithTimes
<1>4. Amount(adm, Since(s) \cup Before(s))
          <= Amount(adm, Since(s)) + Amount(adm, Before(s))
  BY <1>1, AmountOfUnion
<1>5. /\ Amount(adm, Since(s)) \in Nat /\ Amount(adm, Before(s)) \in Nat
      /\ Amount(adm, WindowAt(t)) \in Nat
      /\ Amount(adm, Since(s) \cup Before(s)) \in Nat
  BY <1>1, PairsAreFinite
<1> QED BY <1>3, <1>4, <1>5, LimitAssumption

(* A window that gave way to a new one leaves the count of the second       *)
(* before the new one, and nothing in the new one.                          *)
LEMMA RefreshKeepsWithin ==
    ASSUME Typed, WithinWindows
    PROVE  LET l == Refreshed(limiter, now)
           IN  /\ Amount(admitted, Since(l.start)) <= l.count
               /\ Amount(admitted, Before(l.start)) <= Limit
<1>1. CASE now - limiter.start >= Window
  <2>1. Refreshed(limiter, now).start = now /\ Refreshed(limiter, now).count = 0
    BY <1>1 DEF Refreshed
  <2>2. /\ now \in Nat /\ limiter.start \in Nat /\ limiter.count \in 0 .. Limit
        /\ now \in Times /\ admitted \in [Times -> Nat]
    BY BoundAssumption DEF Typed, Times, Limiter
  <2>3. \A u \in Since(now) : admitted[u] = 0
    BY <1>1, <2>2, BoundAssumption DEF WithinWindows, Since, Times
  <2>4. Since(now) \in SUBSET Times /\ Since(limiter.start) \in SUBSET Times
        /\ Before(now) \in SUBSET Times
    BY DEF Since, Before
  <2>5. Amount(admitted, Since(now)) = 0
    BY <2>3, <2>4, NothingAdmitted
  <2>6. Before(now) \in SUBSET Since(limiter.start)
    BY <1>1, <2>2, BoundAssumption, WindowAssumption DEF Before, Since, Times
  <2>7. Amount(admitted, Before(now)) <= Amount(admitted, Since(limiter.start))
    BY <2>4, <2>6, AmountGrowsWithTimes
  <2>8. /\ Amount(admitted, Before(now)) \in Nat
        /\ Amount(admitted, Since(limiter.start)) \in Nat
    BY <2>4, PairsAreFinite
  <2>9. Amount(admitted, Before(now)) <= Limit
    BY <2>2, <2>7, <2>8, LimitAssumption DEF WithinWindows
  <2> QED BY <2>1, <2>5, <2>9
<1>2. CASE ~ (now - limiter.start >= Window)
  BY <1>2 DEF Refreshed, WithinWindows
<1> QED BY <1>1, <1>2

LEMMA ArrivalKeepsWithin ==
    ASSUME Typed, WithinWindows, NEW f \in Frames, Arrival(f)
    PROVE  WithinWindows'
<1> DEFINE l == Refreshed(limiter, now)
<1>1. /\ now' = now /\ limiter' = AfterFrame(limiter, now)
      /\ now \in Times /\ now \in Nat /\ admitted \in [Times -> Nat]
  BY BoundAssumption DEF Arrival, Receive, Typed, Times
<1>2. /\ l \in Limiter /\ l.start <= now /\ limiter' \in Limiter
      /\ limiter'.start = l.start
      /\ l.start \in Nat /\ l.count \in 0 .. Limit
  BY <1>1, LimiterStays DEF Limiter
<1>3. now - l.start < Window
  BY <1>1, WindowAssumption DEF Refreshed, Typed, Limiter
<1>4. /\ Amount(admitted, Since(l.start)) <= l.count
      /\ Amount(admitted, Before(l.start)) <= Limit
  BY RefreshKeepsWithin
<1>5. /\ Since(l.start) \in SUBSET Times /\ Before(l.start) \in SUBSET Times
      /\ \A t \in Times : WindowAt(t) \in SUBSET Times
  BY DEF Since, Before, WindowAt
<1>6. CASE ~Allows(limiter, now) /\ admitted' = admitted
  <2>1. limiter' = l
    BY <1>1, <1>6 DEF AfterFrame
  <2>2. ~ (now' - limiter'.start >= Window)
    BY <1>1, <1>2, <1>3, WindowAssumption
  <2> HIDE DEF l
  <2> QED BY <1>1, <1>4, <1>6, <2>1, <2>2 DEF WithinWindows
<1>7. CASE Admitted
  <2>1. /\ admitted' = [admitted EXCEPT ![now] = @ + 1]
        /\ l.count < Limit /\ limiter' = [l EXCEPT !.count = @ + 1]
    BY <1>1, <1>7 DEF Admitted, Allows, AfterFrame
  <2>2. limiter'.count = l.count + 1 /\ limiter'.count \in 0 .. Limit
    BY <1>2, <2>1, LimitAssumption DEF Limiter
  <2> HIDE DEF l
  <2>3. Amount(admitted', Since(l.start)) <= limiter'.count
    <3>1. Amount(admitted', Since(l.start)) <= Amount(admitted, Since(l.start)) + 1
      BY <1>1, <1>5, <2>1, AmountAfterOneMore
    <3>2. /\ Amount(admitted', Since(l.start)) \in Nat
          /\ Amount(admitted, Since(l.start)) \in Nat
      BY <1>5, PairsAreFinite
    <3> QED BY <1>2, <1>4, <2>2, <3>1, <3>2
  <2>4. \A u \in Times : u # now => admitted'[u] = admitted[u]
    BY <1>1, <2>1
  <2>5. Amount(admitted', Before(l.start)) <= Limit
    <3>1. \A u \in Before(l.start) : admitted'[u] = admitted[u]
      BY <1>1, <1>2, <2>4, BoundAssumption DEF Before, Times
    <3>2. Amount(admitted', Before(l.start)) = Amount(admitted, Before(l.start))
      BY <1>5, <3>1, AmountElsewhere
    <3> QED BY <1>4, <3>2
  <2>6. ASSUME NEW t \in Times PROVE Amount(admitted', WindowAt(t)) <= 2 * Limit
    <3>1. CASE l.start < t + Window
      BY <1>2, <2>2, <2>3, <2>5, <3>1, WindowIsCovered
    <3>2. CASE ~ (l.start < t + Window)
      <4>1. \A u \in WindowAt(t) : admitted'[u] = admitted[u]
        BY <1>1, <1>2, <2>4, <3>2, WindowAssumption, BoundAssumption
           DEF WindowAt, Times
      <4>2. Amount(admitted', WindowAt(t)) = Amount(admitted, WindowAt(t))
        BY <1>5, <4>1, AmountElsewhere
      <4> QED BY <4>2 DEF WithinWindows
    <3> QED BY <3>1, <3>2
  <2>7. \A u \in Times : u > now' => admitted'[u] = 0
    BY <1>1, <2>4, BoundAssumption DEF WithinWindows, Times
  <2>8. ~ (now' - limiter'.start >= Window)
    BY <1>1, <1>2, <1>3, WindowAssumption
  <2> QED BY <1>2, <2>3, <2>5, <2>6, <2>7, <2>8 DEF WithinWindows
<1> QED BY <1>6, <1>7
        DEF Arrival, Receive, RateLimited, Admitted, Failed, Relayed

LEMMA TickKeepsWithin ==
    ASSUME Typed, WithinWindows, Tick
    PROVE  WithinWindows'
<1>1. /\ now' = now + 1 /\ now' \in Times /\ now \in Nat
      /\ admitted' = admitted /\ limiter' = limiter
  BY BoundAssumption DEF Tick, Typed, Times
<1>2. admitted'[now'] = 0 /\ \A u \in Times : u > now' => admitted'[u] = 0
  BY <1>1, BoundAssumption DEF WithinWindows, Times
<1> QED BY <1>1, <1>2 DEF WithinWindows

LEMMA WithinStays ==
    ASSUME Typed, InSequence, WithinWindows, [Next]_vars
    PROVE  WithinWindows'
<1>1. CASE UNCHANGED vars
  BY <1>1 DEF vars, WithinWindows
<1> QED BY <1>1, EveryFrameIsAnArrival, ArrivalKeepsWithin, TickKeepsWithin
           DEF InSequence, Sent, Repeated

LEMMA StartIsWithin ==
    ASSUME Init PROVE WithinWindows
<1>1. /\ limiter = [start |-> 0, count |-> 0]
      /\ admitted = [t \in Times |-> 0] /\ now = 0
  BY DEF Init, NewLimiter, Times
<1>2. \A u \in Times : admitted[u] = 0
  BY <1>1
<1>3. /\ Since(limiter.start) \in SUBSET Times
      /\ Before(limiter.start) \in SUBSET Times
      /\ \A t \in Times : WindowAt(t) \in SUBSET Times
  BY DEF Since, Before, WindowAt
<1>4. /\ Amount(admitted, Since(limiter.start)) = 0
      /\ Amount(admitted, Before(limiter.start)) = 0
      /\ \A t \in Times : Amount(admitted, WindowAt(t)) = 0
  BY <1>2, <1>3, NothingAdmitted DEF Since, Before, WindowAt
<1>5. limiter.count = 0 /\ 0 \in Times
  BY <1>1, BoundAssumption DEF Times
<1> QED BY <1>1, <1>2, <1>4, <1>5, LimitAssumption DEF WithinWindows

(* Twice the configured number of frames is the most that is admitted in    *)
(* any second, although the limiter's windows are fixed and not sliding.    *)
THEOREM AlwaysAtMostTwiceTheLimit == Spec => []AtMostTwiceTheLimit
<1>1. Init => Typed /\ InSequence /\ WithinWindows
  BY StartIsInSequence, StartIsWithin
<1>2. Typed /\ InSequence /\ WithinWindows /\ [Next]_vars
          => (Typed /\ InSequence /\ WithinWindows)'
  BY TypedStays, SequenceStays, WithinStays
<1>3. WithinWindows => AtMostTwiceTheLimit
  BY DEF WithinWindows, AtMostTwiceTheLimit, AdmittedIn, Amount, Pairs,
         WindowAt, Times
<1> QED BY <1>1, <1>2, <1>3, PTL DEF Spec

-----------------------------------------------------------------------------
(* Waiting.                                                                 *)

(* A count above zero stands for a frame since the window began, and a      *)
(* frame was just refused only because the count is at the limit and the    *)
(* window is not over.                                                      *)
CountIsEarned ==
    /\ limiter.count > 0 => \E u \in Since(limiter.start) :
                               u <= now /\ admitted[u] > 0
    /\ answer = "RATE_LIMIT" =>
          limiter.count = Limit /\ now - limiter.start < Window

LEMMA ArrivalKeepsEarned ==
    ASSUME Typed, InSequence, CountIsEarned, NEW f \in Frames, Arrival(f)
    PROVE  CountIsEarned'
<1> DEFINE l == Refreshed(limiter, now)
<1>1. /\ now' = now /\ limiter' = AfterFrame(limiter, now)
      /\ now \in Times /\ now \in Nat /\ admitted \in [Times -> Nat]
  BY BoundAssumption DEF Arrival, Receive, Typed, Times
<1>2. /\ l \in Limiter /\ l.start <= now /\ limiter'.start = l.start
      /\ l.start \in Nat /\ l.count \in 0 .. Limit
  BY <1>1, LimiterStays DEF Limiter
<1>3. now - l.start < Window
  BY <1>1, WindowAssumption DEF Refreshed, Typed, Limiter
<1>4. CASE RateLimited(f)
  <2>1. ~ (l.count < Limit) /\ limiter' = l /\ admitted' = admitted
    BY <1>1, <1>4 DEF RateLimited, Allows, AfterFrame
  <2>2. l.count = Limit
    BY <1>2, <2>1, LimitAssumption
  <2>3. l.count > 0 => limiter = l
    BY DEF Refreshed
  <2> HIDE DEF l
  <2> QED BY <1>1, <1>3, <2>1, <2>2, <2>3 DEF CountIsEarned
<1>5. CASE Admitted /\ answer' # "RATE_LIMIT"
  <2>1. admitted' = [admitted EXCEPT ![now] = @ + 1]
    BY <1>5 DEF Admitted
  <2>2. admitted[now] \in Nat /\ admitted'[now] = admitted[now] + 1
    BY <1>1, <2>1
  <2>3. now \in Since(limiter'.start) /\ now <= now'
        /\ admitted'[now] > 0
    BY <1>1, <1>2, <2>2 DEF Since
  <2> QED BY <1>5, <2>3 DEF CountIsEarned, Since
<1> QED BY <1>4, <1>5 DEF Arrival, Receive, Failed, Relayed

LEMMA EarnedStays ==
    ASSUME Typed, InSequence, CountIsEarned, [Next]_vars
    PROVE  CountIsEarned'
<1>1. CASE UNCHANGED vars
  BY <1>1 DEF vars, CountIsEarned
<1>2. CASE Tick
  <2>1. /\ now \in Nat /\ now' = now + 1 /\ answer' # "RATE_LIMIT"
        /\ admitted' = admitted /\ limiter' = limiter
    BY <1>2, BoundAssumption DEF Tick, Typed
  <2>2. \A u \in Times : u <= now => u <= now'
    BY <2>1, BoundAssumption DEF Times
  <2> QED BY <2>1, <2>2 DEF CountIsEarned, Since
<1> QED BY <1>1, <1>2, EveryFrameIsAnArrival, ArrivalKeepsEarned
           DEF InSequence, Sent, Repeated

LEMMA EarnedMeansWaitingHelps ==
    ASSUME Typed, CountIsEarned PROVE WaitingHelps
<1> DEFINE S == {u \in Times : now - Window < u /\ u <= now}
<1>1. SUFFICES ASSUME answer = "RATE_LIMIT", Limit > 0
               PROVE  Amount(admitted, S) > 0
  BY DEF WaitingHelps, AdmittedIn, Amount, Pairs, Times
<1>2. PICK u \in Since(limiter.start) : u <= now /\ admitted[u] > 0
  BY <1>1, LimitAssumption DEF CountIsEarned
<1>3. /\ now \in Nat /\ limiter.start \in Nat /\ now - limiter.start < Window
      /\ admitted \in [Times -> Nat]
  BY <1>1, BoundAssumption DEF CountIsEarned, Typed, Limiter, Times
<1>4. u \in S /\ S \in SUBSET Times
  BY <1>2, <1>3, WindowAssumption, BoundAssumption DEF Since, Times
<1> HIDE DEF S
<1> QED BY <1>2, <1>3, <1>4, SomethingAdmitted

(* Whoever waits for a second is let in: a frame is refused for its rate    *)
(* only if another was admitted during the second before.                   *)
THEOREM WaitingAlwaysHelps == Spec => []WaitingHelps
<1>1. Init => Typed /\ InSequence /\ CountIsEarned
  <2>1. Init => CountIsEarned
    BY DEF Init, NewLimiter, CountIsEarned
  <2> QED BY <2>1, StartIsInSequence
<1>2. Typed /\ InSequence /\ CountIsEarned /\ [Next]_vars
          => (Typed /\ InSequence /\ CountIsEarned)'
  BY TypedStays, SequenceStays, EarnedStays
<1>3. Typed /\ CountIsEarned => WaitingHelps
  BY EarnedMeansWaitingHelps
<1> QED BY <1>1, <1>2, <1>3, PTL DEF Spec

=============================================================================
