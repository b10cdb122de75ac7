------------------------------- MODULE DigRelay -------------------------------
(***************************************************************************)
(* handle_dig and handle_dig_batch for one session: the rate limit, the     *)
(* sequence numbers, the checks of each edit's target, and what is relayed. *)
(* A DIG is a batch of one; the two handlers treat it alike.                *)
(*                                                                          *)
(* The client numbers its edits 0, 1, 2, ... modulo SeqMod.  It sends a     *)
(* frame again when it was answered RATE_LIMIT, and may repeat its last     *)
(* frame if that is a single edit, as a client does that lost the answer.   *)
(* accept_dig_seq compares a number with the last one and with no other, so *)
(* it cannot know a batch again, nor a frame before the last: the client    *)
(* does not repeat those.                                                   *)
(* Whether a target is near the player, too far or outside of the region    *)
(* is any of the three each time a frame arrives, since the player walks.   *)
(*                                                                          *)
(* A frame is the number of its first edit and how many there are.          *)
(***************************************************************************)
EXTENDS RateLimit, Sequences, FiniteSets

CONSTANTS
    SeqMod,     \* 65536 in the code
    MaxBatch,   \* edits in a DIG_BATCH, 255 in the code
    MaxEdits,   \* bound of the model: edits the client makes
    MaxTime,    \* bound of the model: the clock
    NoSeq,      \* has_dig_seq is false
    NoFrame     \* nothing to send again

ASSUME SeqAssumption == SeqMod \in Nat \ {0, 1} /\ NoSeq \notin Nat

(* A batch cannot go once round the numbers. *)
ASSUME BatchAssumption == MaxBatch \in 1 .. SeqMod - 1

ASSUME BoundAssumption == MaxEdits \in Nat /\ MaxTime \in Nat

Target == {"near", "far", "outside"}

Frames == [first : 0 .. MaxEdits, size : 1 .. MaxBatch]

ASSUME FrameAssumption == NoFrame \notin Frames

VARIABLES
    now,        \* now_ms()
    limiter,    \* dig_window_ms, dig_count
    lastSeq,    \* last_dig_seq, has_dig_seq
    open,       \* whether the session is there
    next,       \* the client's next edit
    again,      \* the frame that the client has to send again
    sent,       \* the frames that the client made of its edits
    copy,       \* whether the last frame to arrive had been admitted before
    answer,     \* the error that answered the last frame, or "none"
    relayed,    \* the edits that were relayed, in order
    admitted    \* how many frames the limiter admitted at each time

vars == <<now, limiter, lastSeq, open, next, again, sent, copy, answer,
          relayed, admitted>>

Init ==
    /\ now = 0
    /\ limiter = NewLimiter(now)
    /\ lastSeq = NoSeq
    /\ open = TRUE
    /\ next = 0
    /\ again = NoFrame
    /\ sent = {}
    /\ copy = FALSE
    /\ answer = "none"
    /\ relayed = <<>>
    /\ admitted = [t \in 0 .. MaxTime |-> 0]

Tick ==
    /\ now < MaxTime
    /\ now' = now + 1
    /\ answer' = "none"
    /\ UNCHANGED <<limiter, lastSeq, open, next, again, sent, copy, relayed,
                   admitted>>

-----------------------------------------------------------------------------

SeqOf(f, k) == (f.first + k - 1) % SeqMod

(* last_dig_seq when the k-th edit is looked at. *)
SeqBefore(f, k) == IF k = 1 THEN lastSeq ELSE SeqOf(f, k - 1)

AcceptsSeq(f, k) == SeqBefore(f, k) # SeqOf(f, k)

(* The edits at which the loop over a frame stops; it stops at the first.   *)
Faults(f, targets) ==
    {k \in 1 .. f.size : ~AcceptsSeq(f, k) \/ targets[k] # "near"}

FirstFault(f, targets) ==
    CHOOSE k \in Faults(f, targets) : \A j \in Faults(f, targets) : k <= j

(* Faulty variant: the sequence number is taken before the rate limit. *)
RateLimitedAfterSeq(f) ==
    /\ ~Allows(limiter, now)
    /\ lastSeq' = SeqOf(f, 1)
    /\ answer' = "RATE_LIMIT"
    /\ again' = f
    /\ UNCHANGED <<open, relayed, admitted>>

(* The frame is not admitted: nothing but the limiter changes. *)
RateLimited(f) ==
    /\ ~Allows(limiter, now)
    /\ answer' = "RATE_LIMIT"
    /\ again' = f
    /\ UNCHANGED <<lastSeq, open, relayed, admitted>>

Admitted ==
    /\ Allows(limiter, now)
    /\ admitted' = [admitted EXCEPT ![now] = @ + 1]
    /\ again' = NoFrame

(* Faulty variant: each edit is relayed as soon as it has passed. *)
FailedHalfWay(f, targets) ==
    /\ Admitted
    /\ Faults(f, targets) # {}
    /\ LET k == FirstFault(f, targets)
       IN  /\ lastSeq' = IF AcceptsSeq(f, k) THEN SeqOf(f, k) ELSE SeqBefore(f, k)
           /\ answer' = IF AcceptsSeq(f, k) THEN "OUT_OF_RANGE" ELSE "BAD_DIG_SEQ"
           /\ open' = (AcceptsSeq(f, k) => targets[k] # "outside")
           /\ relayed' = relayed \o [i \in 1 .. k - 1 |-> f.first + i - 1]

(* An edit fails: the numbers up to it are used up, nothing is relayed, and *)
(* a target outside of the region ends the session.                         *)
Failed(f, targets) ==
    /\ Admitted
    /\ Faults(f, targets) # {}
    /\ LET k == FirstFault(f, targets)
       IN  /\ lastSeq' = IF AcceptsSeq(f, k) THEN SeqOf(f, k) ELSE SeqBefore(f, k)
           /\ answer' = IF AcceptsSeq(f, k) THEN "OUT_OF_RANGE" ELSE "BAD_DIG_SEQ"
           /\ open' = (AcceptsSeq(f, k) => targets[k] # "outside")
    /\ UNCHANGED relayed

(* All edits are relayed, in their order. *)
Relayed(f, targets) ==
    /\ Admitted
    /\ Faults(f, targets) = {}
    /\ lastSeq' = SeqOf(f, f.size)
    /\ relayed' = relayed \o [i \in 1 .. f.size |-> f.first + i - 1]
    /\ answer' = "none"
    /\ UNCHANGED open

Receive(f) ==
    /\ open
    /\ limiter' = AfterFrame(limiter, now)
    /\ \/ RateLimited(f)
       \/ \E targets \in [1 .. f.size -> Target] :
             Failed(f, targets) \/ Relayed(f, targets)

(* The client sends its next edits, unless it has to repeat a frame. *)
Send(f) ==
    /\ again = NoFrame
    /\ f.first = next
    /\ next + f.size <= MaxEdits
    /\ Receive(f)
    /\ next' = next + f.size
    /\ sent' = sent \cup {f}
    /\ copy' = FALSE
    /\ UNCHANGED now

SendAgain ==
    /\ again # NoFrame
    /\ Receive(again)
    /\ UNCHANGED <<now, next, sent, copy>>

(* The client's last frame, if that was a single edit. *)
LastSingle == {f \in sent : f.size = 1 /\ f.first + 1 = next}

(* The client repeats it although it was admitted. *)
Repeat(f) ==
    /\ again = NoFrame
    /\ f \in LastSingle
    /\ Receive(f)
    /\ copy' = TRUE
    /\ UNCHANGED <<now, next, sent>>

Next ==
    \/ Tick
    \/ \E f \in Frames : Send(f)
    \/ SendAgain
    \/ \E f \in Frames : Repeat(f)

Spec == Init /\ [][Next]_vars

-----------------------------------------------------------------------------
(* Properties *)

(* The clock and the counters are numbers within their bounds, and edits    *)
(* that were relayed are edits.                                             *)
TypeOK ==
    /\ now \in 0 .. MaxTime
    /\ limiter \in Limiter
    /\ lastSeq \in (0 .. SeqMod - 1) \cup {NoSeq}
    /\ open \in BOOLEAN
    /\ next \in 0 .. MaxEdits
    /\ again \in Frames \cup {NoFrame}
    /\ sent \in SUBSET Frames
    /\ copy \in BOOLEAN
    /\ answer \in {"none", "RATE_LIMIT", "OUT_OF_RANGE", "BAD_DIG_SEQ"}
    /\ relayed \in Seq(0 .. MaxEdits)
    /\ admitted \in [0 .. MaxTime -> Nat]

AdmittedIn(times) ==
    Cardinality({e \in times \X (1 .. 2 * Limit + 2) : e[2] <= admitted[e[1]]})

(* The windows of the limiter are fixed, not sliding: two bursts may meet   *)
(* where one window ends.  In any second, wherever it begins, at most twice *)
(* the configured number of frames is admitted.                             *)
AtMostTwiceTheLimit ==
    \A t \in 0 .. MaxTime :
        AdmittedIn({u \in 0 .. MaxTime : t <= u /\ u < t + Window}) <= 2 * Limit

(* A frame is refused for its rate only if another was admitted during the  *)
(* second before: whoever waits for a second is let in, however often it    *)
(* was refused before.                                                      *)
WaitingHelps ==
    answer = "RATE_LIMIT" /\ Limit > 0 =>
        AdmittedIn({u \in 0 .. MaxTime : now - Window < u /\ u <= now}) > 0

(* The sequence check stops nothing but a copy of what it let pass: no edit *)
(* at number 0 or where the numbers wrap, and no frame that is sent again   *)
(* because it was refused for its rate.                                     *)
HonestClientIsInSequence == answer = "BAD_DIG_SEQ" => copy

Edits(f) == f.first .. f.first + f.size - 1

RelayedEdits == {relayed[i] : i \in 1 .. Len(relayed)}

(* No edit is relayed twice, or after a later one, although the last edit   *)
(* may be repeated and frames that were refused for their rate are; and of  *)
(* a batch that fails half way nothing is relayed, since its client can     *)
(* only go on with other numbers.                                           *)
RelayedWholeInOrder ==
    /\ \A i, j \in 1 .. Len(relayed) : i < j => relayed[i] < relayed[j]
    /\ \A f \in sent : Edits(f) \subseteq RelayedEdits
                         \/ Edits(f) \cap RelayedEdits = {}

=============================================================================
