-------------------------------- MODULE MCWire --------------------------------
(* The wire: what one frame stands for, and how the many frames of a manifest *)
(* get through.  A behaviour is of one part or the other.                    *)
(*                                                                          *)
(* Bytes have six values.  Every field of every struct of protocol.h takes   *)
(* three values, one field at a time: one with bytes that are all different,  *)
(* and the two ends of its type.                                            *)
EXTENDS Frames, ManifestTransfer, TLC

VARIABLE part   \* "frames" or "manifest"

WireInit ==
    /\ part \in {"frames", "manifest"}
    /\ FramesInit
    /\ TransferInit
    /\ part = "frames" => /\ ~close_on_backpressure_limit
                          /\ \A limit \in Limits : max_backpressure <= limit

WireNext ==
    \/ part = "frames" /\ FramesNext /\ UNCHANGED <<part, transferVars>>
    \/ part = "manifest" /\ TransferNext /\ UNCHANGED <<part, frameVars>>

WireSpec ==
    /\ WireInit
    /\ [][WireNext]_<<part, frameVars, transferVars>>
    /\ part = "manifest" => TransferFairness

-----------------------------------------------------------------------------
(* Inputs *)


Ramp(n) == [i \in 1 .. n |-> (n - i + 1) % Base]

Usually(field, width) ==
    IF field \in Arrays THEN Ramp(width) ELSE Number(Ramp(width))

Ends(field, width) ==
    CASE field \in Arrays ->
            {[i \in 1 .. width |-> 0], [i \in 1 .. width |-> Base - 1]}
      [] field \in SignedFields ->
            {-((Base ^ width) \div 2), -1}
      [] OTHER -> {0, Base ^ width - 1}

(* The widths of the fields of a struct, with all values of one field each.  *)
Usual(widths) == [f \in DOMAIN widths |-> Usually(f, widths[f])]

Samples(widths) ==
    {Usual(widths)} \cup UNION {
        {[Usual(widths) EXCEPT ![f] = v] : v \in Ends(f, widths[f])} : f \in DOMAIN widths}

HelloWidths ==
    [ protocol_version |-> 1, client_flags |-> 2, wallet_pubkey |-> 32,
      start_chunk_x |-> 4, start_chunk_z |-> 4, client_nonce |-> 8 ]

PoseWidths ==
    [ local_chunk_x |-> 1, local_chunk_z |-> 1, pos_x |-> 2, pos_y |-> 2, pos_z |-> 2,
      yaw |-> 1, pitch |-> 1 ]

MoveWidths == PoseWidths @@ [client_tick |-> 2]

DigEventWidths ==
    [ seq |-> 2, local_chunk_x |-> 1, local_chunk_z |-> 1, block_x |-> 1, block_y |-> 2,
      block_z |-> 1, action |-> 1 ]

DigWidths == DigEventWidths @@ [tool_hint |-> 1]

EquipmentWidths ==
    [ seq |-> 2, right_hand_kind |-> 1, right_hand_variant |-> 1, flags |-> 1,
      design_hash |-> 4 ]

RecordWidths ==
    [ foundation_id |-> 8, min_x |-> 4, min_z |-> 4, surface_y |-> 2, flags |-> 2,
      width |-> 4, depth |-> 4, active_revision |-> 4, content_hash |-> 16,
      updated_slot |-> 8 ]

AckWidths ==
    [ protocol_version |-> 1, local_player_id |-> 2, server_flags |-> 2,
      center_chunk_x |-> 4, center_chunk_z |-> 4, service_radius_chunks |-> 2,
      aoi_radius_chunks |-> 1, chunk_index_mode |-> 1, server_tick |-> 2 ]

OwnerWidths ==
    [local_player_id |-> 2, owner_hash |-> 4, owner_fingerprint |-> 8, owner_wallet |-> 32]

DigestWidths ==
    [region_x |-> 4, region_z |-> 4, revision |-> 8, record_count |-> 4, hash |-> 16]

All(type, bodies) == {Message(type, b) : b \in bodies}

(* One to n items that differ, and one item in all of its forms. *)
Lists(widths, field, n) ==
    {[i \in 1 .. k |-> [Usual(widths) EXCEPT ![field] = i]] : k \in 1 .. n}
        \cup {<<Usual(widths), w>> : w \in Samples(widths)}

WithText(bodies, field, n) ==
    {b @@ (field :> Ramp(k)) : b \in bodies, k \in {1, 2}}
        \cup {CHOOSE b \in {c @@ (field :> Ramp(k)) : c \in bodies} : TRUE : k \in 0 .. n}

SampleMessages ==
    All("HELLO", Samples(HelloWidths))
        \cup All("MOVE", Samples(MoveWidths))
        \cup All("DIG", Samples(DigWidths))
        \cup All("DIG_BATCH", {[items |-> l] : l \in {<<>>} \cup Lists(DigWidths, "seq", Base)})
        \cup All("CHAT", WithText(Samples([seq |-> 2]), "message", kMaxChatBytes + 1))
        \cup All("EQUIPMENT", WithText(Samples(EquipmentWidths), "payload",
                                       kMaxEquipmentPayloadBytes + 1))
        \cup All("PLAYER_IDENTITY",
                 {("display_name" :> Ramp(k)) : k \in 0 .. kMaxPlayerIdentityNameBytes + 1})
        \cup All("BUILDING_MANIFEST_REQUEST", Samples([known_revision |-> 8]))
        \cup All("BUILDING_ANNOUNCE", Samples(RecordWidths))
        \cup All("PONG", {[pong |-> TRUE]})

(* Moves and records for two full runs and one more. *)
SampleEvents ==
    All("HELLO_ACK", Samples(AckWidths))
        \cup All("ERROR", {[code |-> c] : c \in 1 .. 10})
        \cup All("PING", {[ping |-> TRUE]})
        \cup All("MOVE_BATCH",
                 {[server_tick |-> Number(t), items |-> l] :
                    t \in {Ramp(2), <<Base - 1, Base - 1>>},
                    l \in Lists(PoseWidths @@ [local_player_id |-> 2], "local_player_id",
                                2 * Base - 1)})
        \cup All("PLAYER_JOIN", Samples(OwnerWidths @@ PoseWidths))
        \cup All("PLAYER_LEAVE", Samples(OwnerWidths @@ [reason |-> 1]))
        \cup All("BUILDING_REGION_DIGEST", Samples(DigestWidths))
        \cup All("BUILDING_MANIFEST_PAGE",
                 {[Usual(DigestWidths) EXCEPT !.record_count = Len(l)] @@ [records |-> l] :
                    l \in {<<>>} \cup Lists(RecordWidths, "foundation_id",
                                          2 * kBuildingManifestPageRecords + 1)})

SampleSpeaker ==
    [local_player_id |-> Number(Ramp(2)), server_tick |-> Base ^ 2 - 1,
     owner_wallet |-> Ramp(32)]

================================================================================
