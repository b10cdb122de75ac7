--------------------------- MODULE ManifestTransfer ---------------------------
(***************************************************************************)
(* How the building manifest reaches a client: digests that name a          *)
(* revision, requests, and the pages of the answer, over a connection whose  *)
(* buffer has a limit.  The Guardian sends all pages in one callback and     *)
(* looks at the result of no send: over the limit uWebSockets drops what is   *)
(* sent, and ends the connection if it was told to.                          *)
(*                                                                          *)
(* Callbacks of the loop do not interleave, but the kernel takes bytes from   *)
(* the buffer in the middle of one: outbox is what the callback that runs     *)
(* has yet to send, and no other runs before it is empty.  A frame that the   *)
(* kernel has taken in part counts as buffered.                              *)
(***************************************************************************)
EXTENDS Batches

CONSTANTS
    Foundations,   \* how many foundation ids there are
    Limits,        \* values of max_backpressure
    MaxRevision,   \* bound of the model: revisions
    MaxBreaks      \* bound of the model: connections that the network ends

(* Ids, in the order of building_records_. *)
Foundation == 1 .. Foundations

ASSUME TransferAssumption ==
    /\ Foundations \in Nat \ {0}
    /\ Limits \subseteq Nat \ {0}
    /\ MaxRevision \in Nat \ {0}
    /\ MaxBreaks \in Nat

VARIABLES
    max_backpressure, close_on_backpressure_limit,   \* of the configuration
    revision,   \* building_revision_
    records,    \* building_records_: the slot of every id, 0 for none
    history,    \* of every revision, the records it had
    outbox,     \* what the callback that runs has yet to send
    connection, \* "closed", "open", or "ending": the end is deferred
    request,    \* the known_revision of a request on its way, or NoRequest
    buffer,     \* frames that uWebSockets holds
    kernel,     \* frames on their way to the client
    told,       \* the last revision the client heard of
    asked,      \* whether it has asked since it last heard a digest
    held,       \* the manifest that the client has
    pages,      \* the pages of one revision that it collects
    breaks      \* connections that the network has ended

config == <<max_backpressure, close_on_backpressure_limit>>
registry == <<revision, records, history>>
link == <<buffer, kernel>>
client == <<told, asked, held, pages>>

transferVars ==
    <<config, registry, outbox, connection, request, link, client, breaks>>

NoRequest == -1

(* What the map of the registry is copied to. *)
Listed(recs) ==
    LET list[i \in 0 .. Foundations] ==
            IF i = 0 THEN <<>>
            ELSE IF recs[i] = 0 THEN list[i - 1]
            ELSE Append(list[i - 1], [id |-> i, slot |-> recs[i]])
    IN  list[Foundations]

(* What is read of a digest and of a page. *)
Digest == [type |-> "digest", revision |-> revision]

ManifestPages ==
    LET list == Pages(Listed(records))
    IN  [k \in 1 .. Len(list) |->
            [ type |-> "page", revision |-> revision,
              index |-> k - 1, count |-> Len(list), records |-> list[k] ]]

kBuildingRegionDigestSize == 38
kBuildingManifestPageHeaderSize == 44

(* A message with the header that a server's WebSocket frame begins with.     *)
Framed(size) ==
    size + (IF size < 126 THEN 2 ELSE IF size < 65536 THEN 4 ELSE 10)

PageSize(n) == kBuildingManifestPageHeaderSize + n * kBuildingRecordSize

FrameSize(f) ==
    IF f.type = "digest" THEN Framed(kBuildingRegionDigestSize)
    ELSE Framed(PageSize(Len(f.records)))

(* getBufferedAmount *)
Buffered(frames) == FoldLeft(LAMBDA n, f : n + FrameSize(f), 0, frames)

Nothing == [revision |-> 0, records |-> <<>>]

NoPages == [revision |-> 0, count |-> 0, got |-> <<>>]

TransferInit ==
    /\ max_backpressure \in Limits
    /\ close_on_backpressure_limit \in BOOLEAN
    /\ revision = 1
    /\ records = [i \in Foundation |-> 1]
    /\ history = << Listed(records) >>
    /\ outbox = <<>>
    /\ connection = "closed"
    /\ request = NoRequest
    /\ buffer = <<>>
    /\ kernel = <<>>
    /\ told = 0
    /\ asked = FALSE
    /\ held = Nothing
    /\ pages = NoPages
    /\ breaks = 0

-----------------------------------------------------------------------------
(* The loop *)

Idle == outbox = <<>>

(* handle_building_announce, when upsert_building takes the record: the      *)
(* digest is published to all who are connected.                            *)
Change(i, slot) ==
    /\ Idle
    /\ revision < MaxRevision
    /\ slot # records[i]
    /\ revision' = revision + 1
    /\ records' = [records EXCEPT ![i] = slot]
    /\ history' = Append(history, Listed(records'))
    /\ outbox' = IF connection = "closed" THEN <<>> ELSE <<Digest'>>
    /\ UNCHANGED <<config, connection, request, link, client, breaks>>

(* open and HELLO, which is answered with the digest.  The client begins     *)
(* anew, but keeps the manifest it has.                                     *)
Connect ==
    /\ Idle
    /\ connection = "closed"
    /\ connection' = "open"
    /\ outbox' = <<Digest>>
    /\ kernel' = <<>>
    /\ told' = held.revision
    /\ asked' = FALSE
    /\ pages' = NoPages
    /\ UNCHANGED <<config, registry, request, buffer, held, breaks>>

(* handle_building_manifest_request *)
Answer == IF request = revision THEN <<Digest>> ELSE ManifestPages

HandleRequest ==
    /\ Idle
    /\ connection = "open"
    /\ request # NoRequest
    /\ outbox' = Answer
    /\ request' = NoRequest
    /\ UNCHANGED <<config, registry, connection, link, client, breaks>>

(* Faulty variant: the option is not passed on. *)
NeverEnds == FALSE

(* .closeOnBackpressureLimit *)
EndsOverLimit == close_on_backpressure_limit

(* A send over .maxBackpressure is dropped, and may end the connection.      *)
SendDropped ==
    /\ outbox # <<>>
    /\ Buffered(buffer) > max_backpressure
    /\ outbox' = Tail(outbox)
    /\ connection' = IF EndsOverLimit THEN "ending" ELSE connection
    /\ UNCHANGED <<config, registry, request, link, client, breaks>>

(* The kernel takes the first n frames. *)
Take(n, frames) ==
    /\ kernel' = kernel \o SubSeq(frames, 1, n)
    /\ buffer' = SubSeq(frames, n + 1, Len(frames))

(* Any other is tried at once, behind what is buffered. *)
SendBuffered ==
    /\ outbox # <<>>
    /\ Buffered(buffer) <= max_backpressure
    /\ \E n \in 0 .. Len(buffer) + 1 : Take(n, Append(buffer, Head(outbox)))
    /\ outbox' = Tail(outbox)
    /\ UNCHANGED <<config, registry, connection, request, client, breaks>>

(* The socket is writable. *)
Drain ==
    /\ Idle
    /\ connection # "closed"
    /\ \E n \in 1 .. Len(buffer) : Take(n, buffer)
    /\ UNCHANGED <<config, registry, outbox, connection, request, client, breaks>>

(* The deferred end of the connection. *)
End ==
    /\ Idle
    /\ connection = "ending"
    /\ connection' = "closed"
    /\ request' = NoRequest
    /\ buffer' = <<>>
    /\ UNCHANGED <<config, registry, outbox, kernel, client, breaks>>

(* The network ends one, with what was on its way. *)
Break ==
    /\ Idle
    /\ connection # "closed"
    /\ breaks < MaxBreaks
    /\ breaks' = breaks + 1
    /\ connection' = "closed"
    /\ request' = NoRequest
    /\ buffer' = <<>>
    /\ kernel' = <<>>
    /\ UNCHANGED <<config, registry, outbox, client>>

-----------------------------------------------------------------------------
(* The client *)

(* It asks when it has heard of a revision that it does not have, and again  *)
(* after another digest.                                                    *)
Ask ==
    /\ connection = "open"
    /\ request = NoRequest
    /\ told # held.revision
    /\ ~asked
    /\ asked' = TRUE
    /\ request' = held.revision
    /\ UNCHANGED <<config, registry, outbox, connection, link, told, held, pages, breaks>>

HearDigest(f) ==
    /\ f.type = "digest"
    /\ told' = f.revision
    /\ asked' = FALSE
    /\ UNCHANGED <<held, pages>>

(* It collects the pages of one revision and has a manifest when it has all. *)
HearPage(f) ==
    LET before == IF pages.revision = f.revision THEN pages.got ELSE <<>>
        after == [k \in DOMAIN before \cup {f.index} |->
                     IF k = f.index THEN f.records ELSE before[k]]
        complete == DOMAIN after = 0 .. f.count - 1
    IN  /\ f.type = "page"
        /\ told' = f.revision
        /\ IF complete
           THEN /\ held' = [ revision |-> f.revision,
                             records  |-> FlattenSeq([k \in 1 .. f.count |-> after[k - 1]]) ]
                /\ pages' = NoPages
           ELSE /\ held' = held
                /\ pages' = [revision |-> f.revision, count |-> f.count, got |-> after]
        /\ UNCHANGED asked

Hear ==
    /\ kernel # <<>>
    /\ HearDigest(Head(kernel)) \/ HearPage(Head(kernel))
    /\ kernel' = Tail(kernel)
    /\ UNCHANGED <<config, registry, outbox, connection, request, buffer, breaks>>

Loop == HandleRequest \/ SendDropped \/ SendBuffered \/ End

TransferNext ==
    \/ \E i \in Foundation, slot \in {0, revision + 1} : Change(i, slot)
    \/ Connect
    \/ Loop
    \/ Drain
    \/ Break
    \/ Ask
    \/ Hear

(* The loop runs and is polled; a client that reads lets the kernel take     *)
(* more, and one without a connection makes one.  Changes and breaks need     *)
(* not happen.                                                              *)
TransferFairness ==
    /\ WF_transferVars(Loop)
    /\ WF_transferVars(Drain)
    /\ WF_transferVars(Ask)
    /\ WF_transferVars(Hear)
    /\ WF_transferVars(Connect)

TransferSpec == TransferInit /\ [][TransferNext]_transferVars /\ TransferFairness

-----------------------------------------------------------------------------
(* Properties *)

(* A manifest that a client has put together of pages is the registry as it   *)
(* was at that revision: pages that were dropped, pages of an answer that a   *)
(* change overtook, and two answers of which one is cut short never add up to *)
(* a manifest that looks whole (building_manifest_pages,                     *)
(* handle_building_manifest_request).                                       *)
AssembledManifestIsExact ==
    held # Nothing => held.records = history[held.revision]

(* All pages but the last of the largest manifest are within the limit.      *)
Fits ==
    LET list == Pages(Listed([i \in Foundation |-> 1]))
    IN  max_backpressure >=
            FoldLeft(LAMBDA n, p : n + Framed(PageSize(Len(p))),
                     0, SubSeq(list, 1, Len(list) - 1))

IsCurrent == held.revision = revision /\ held.records = Listed(records)

(* With close_on_backpressure_limit and a limit that the manifest fits into,  *)
(* a client ends with the last manifest, however slow the kernel is, and      *)
(* whatever was dropped: a frame that is dropped ends the connection, and the  *)
(* next one begins with a digest.                                           *)
ClientCatchesUp ==
    (close_on_backpressure_limit /\ Fits) => <>[]IsCurrent

=============================================================================
