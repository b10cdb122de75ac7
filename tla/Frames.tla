-------------------------------- MODULE Frames --------------------------------
(***************************************************************************)
(* protocol.cpp and the dispatch of app.cpp: the bytes of every message,    *)
(* what the Guardian makes of the frames of its clients, and the frames it   *)
(* sends them.  Encoders and decoders are two hands that wrote the same      *)
(* layout: an encoder is a list of fields in the order of its writes, a      *)
(* decoder a table of offsets.                                               *)
(*                                                                          *)
(* A frame is a type and the bytes after it, so that byte k of the array p   *)
(* of the code is bytes[k].  A byte has Base values; widths, sizes and        *)
(* offsets are those of the code.  The session is one that may send every     *)
(* message: which messages need one is the matter of GuardianSessions.        *)
(***************************************************************************)
EXTENDS Batches

CONSTANTS
    Base,                           \* 256 in the code
    kMaxChatBytes,                  \* 120
    kMaxEquipmentPayloadBytes,      \* 2048
    kMaxPlayerIdentityNameBytes,    \* 64
    Speaker,                        \* local_player_id, wallet and tick of events
    Messages,                       \* what clients may mean to say
    Events                          \* what the Guardian may have to say

ASSUME LimitsAssumption ==
    /\ Base \in Nat /\ Base % 2 = 0 /\ Base > 4
    /\ kMaxChatBytes \in 1 .. Base - 1
    /\ kMaxPlayerIdentityNameBytes \in 1 .. Base - 1
    /\ kMaxEquipmentPayloadBytes \in 1 .. Base * Base - 1
    /\ kBuildingManifestPageRecords < Base * Base

VARIABLES
    meant,   \* the message of a client, NoMessage if no encoder made the frame
    wire,    \* its frame
    got,     \* what the Guardian made of the frame
    event,   \* what the Guardian says
    sent     \* the frames it says it with

frameVars == <<meant, wire, got, event, sent>>

NoMessage == [type |-> "none"]

NoFrame == [type |-> "none", bytes |-> <<>>]

-----------------------------------------------------------------------------
(* Fields.  Their types are those of the structs of protocol.h.             *)

Arrays ==
    {"wallet_pubkey", "owner_wallet", "content_hash", "hash",
     "message", "payload", "display_name"}

SignedFields ==
    {"start_chunk_x", "start_chunk_z", "center_chunk_x", "center_chunk_z",
     "pitch", "min_x", "min_z", "surface_y", "region_x", "region_z"}

Byte == 0 .. Base - 1

(* What byte k counts, the first being byte 0: Base to the k. *)
Weight(k) ==
    LET weight[i \in 0 .. k] == IF i = 0 THEN 1 ELSE Base * weight[i - 1]
    IN  weight[k]

(* Little endian: rd_u16, rd_u32, rd_u64 and wr_u16, wr_u32, wr_u64.         *)
Number(bytes) ==
    LET sum[i \in 0 .. Len(bytes)] ==
            IF i = 0 THEN 0 ELSE sum[i - 1] + bytes[i] * Weight(i - 1)
    IN  sum[Len(bytes)]

Bytes(n, width) == [i \in 1 .. width |-> (n \div Weight(i - 1)) % Base]

(* Faulty variant: without the cast. *)
UnsignedNumber(bytes) == Number(bytes)

(* rd_i16 and the casts to int8_t and int32_t. *)
SignedNumber(bytes) ==
    LET half == Weight(Len(bytes)) \div 2
    IN  ((Number(bytes) + half) % (2 * half)) - half

Value(field, bytes) ==
    CASE field \in Arrays       -> bytes
      [] field \in SignedFields -> SignedNumber(bytes)
      [] OTHER                  -> Number(bytes)

(* The fields that a table finds at its offsets and widths, from offset on.  *)
Fields(bytes, offset, table) ==
    [f \in DOMAIN table |->
        Value(f, SubSeq(bytes, offset + table[f][1], offset + table[f][1] + table[f][2] - 1))]

(* struct with one more field. *)
With(struct, field, value) ==
    [f \in DOMAIN struct \cup {field} |-> IF f = field THEN value ELSE struct[f]]

(* The bytes of a struct by a list of fields and widths.  An array is        *)
(* appended whole if its width is 0; otherwise its length is what is written. *)
PutField(struct, f, width) ==
    IF f \in Arrays
    THEN IF width = 0 THEN struct[f] ELSE Bytes(Len(struct[f]), width)
    ELSE Bytes(struct[f], width)

Put(struct, layout) ==
    FlattenSeq([i \in 1 .. Len(layout) |-> PutField(struct, layout[i][1], layout[i][2])])

PutAll(structs, layout) ==
    FlattenSeq([i \in 1 .. Len(structs) |-> Put(structs[i], layout)])

Frame(type, bytes) == [type |-> type, bytes |-> bytes]

Size(frame) == 1 + Len(frame.bytes)

Message(type, body) == [type |-> type, body |-> body]
-----------------------------------------------------------------------------
(* What clients send.  The encoders of HELLO, MOVE, DIG, DIG_BATCH and       *)
(* BUILDING_ANNOUNCE are those of protocol.cpp; the others are the clients'.  *)

HelloLayout ==
    << <<"protocol_version", 1>>, <<"client_flags", 2>>, <<"wallet_pubkey", 0>>,
       <<"start_chunk_x", 4>>, <<"start_chunk_z", 4>>, <<"client_nonce", 8>> >>

MoveLayout ==
    << <<"local_chunk_x", 1>>, <<"local_chunk_z", 1>>, <<"pos_x", 2>>, <<"pos_y", 2>>,
       <<"pos_z", 2>>, <<"yaw", 1>>, <<"pitch", 1>>, <<"client_tick", 2>> >>

DigLayout ==
    << <<"seq", 2>>, <<"local_chunk_x", 1>>, <<"local_chunk_z", 1>>, <<"block_x", 1>>,
       <<"block_y", 2>>, <<"block_z", 1>>, <<"action", 1>>, <<"tool_hint", 1>> >>

ChatLayout == << <<"seq", 2>>, <<"message", 1>>, <<"message", 0>> >>

EquipmentLayout ==
    << <<"seq", 2>>, <<"right_hand_kind", 1>>, <<"right_hand_variant", 1>>, <<"flags", 1>>,
       <<"payload", 2>>, <<"design_hash", 4>>, <<"payload", 0>> >>

IdentityLayout == << <<"display_name", 1>>, <<"display_name", 0>> >>

RequestLayout == << <<"known_revision", 8>> >>

(* append_building_record *)
RecordLayout ==
    << <<"foundation_id", 8>>, <<"min_x", 4>>, <<"min_z", 4>>, <<"surface_y", 2>>,
       <<"flags", 2>>, <<"width", 4>>, <<"depth", 4>>, <<"active_revision", 4>>,
       <<"content_hash", 0>>, <<"updated_slot", 8>> >>

(* A count in one byte and as many items as it says. *)
Counted(items, layout) ==
    LET count == IF Len(items) > Base - 1 THEN Base - 1 ELSE Len(items)
    IN  Bytes(count, 1) \o PutAll(SubSeq(items, 1, count), layout)

ClientFrame(m) ==
    Frame(m.type,
          CASE m.type = "HELLO"                     -> Put(m.body, HelloLayout)
            [] m.type = "MOVE"                      -> Put(m.body, MoveLayout)
            [] m.type = "DIG"                       -> Put(m.body, DigLayout)
            [] m.type = "DIG_BATCH"                 -> Counted(m.body.items, DigLayout)
            [] m.type = "CHAT"                      -> Put(m.body, ChatLayout)
            [] m.type = "EQUIPMENT"                 -> Put(m.body, EquipmentLayout)
            [] m.type = "PLAYER_IDENTITY"           -> Put(m.body, IdentityLayout)
            [] m.type = "BUILDING_MANIFEST_REQUEST" -> Put(m.body, RequestLayout)
            [] m.type = "BUILDING_ANNOUNCE"         -> Put(m.body, RecordLayout)
            [] m.type = "PONG"                      -> <<>>)

-----------------------------------------------------------------------------
(* What the Guardian makes of it: the tables of the decoders. *)

HelloAt ==
    [ protocol_version |-> <<1, 1>>,  client_flags |-> <<2, 2>>,
      wallet_pubkey    |-> <<4, 32>>, start_chunk_x |-> <<36, 4>>,
      start_chunk_z    |-> <<40, 4>>, client_nonce  |-> <<44, 8>> ]

MoveAt ==
    [ local_chunk_x |-> <<1, 1>>, local_chunk_z |-> <<2, 1>>, pos_x |-> <<3, 2>>,
      pos_y |-> <<5, 2>>, pos_z |-> <<7, 2>>, yaw |-> <<9, 1>>, pitch |-> <<10, 1>>,
      client_tick |-> <<11, 2>> ]

DigAt ==
    [ seq |-> <<1, 2>>, local_chunk_x |-> <<3, 1>>, local_chunk_z |-> <<4, 1>>,
      block_x |-> <<5, 1>>, block_y |-> <<6, 2>>, block_z |-> <<8, 1>>,
      action |-> <<9, 1>>, tool_hint |-> <<10, 1>> ]

DigItemAt ==
    [ seq |-> <<0, 2>>, local_chunk_x |-> <<2, 1>>, local_chunk_z |-> <<3, 1>>,
      block_x |-> <<4, 1>>, block_y |-> <<5, 2>>, block_z |-> <<7, 1>>,
      action |-> <<8, 1>>, tool_hint |-> <<9, 1>> ]

ChatAt == [seq |-> <<1, 2>>]

EquipmentAt ==
    [ seq |-> <<1, 2>>, right_hand_kind |-> <<3, 1>>, right_hand_variant |-> <<4, 1>>,
      flags |-> <<5, 1>>, design_hash |-> <<8, 4>> ]

RequestAt == [known_revision |-> <<1, 8>>]

(* From the start of the record, without the slot that old records lack.    *)
RecordAt ==
    [ foundation_id |-> <<0, 8>>, min_x |-> <<8, 4>>, min_z |-> <<12, 4>>,
      surface_y |-> <<16, 2>>, flags |-> <<18, 2>>, width |-> <<20, 4>>,
      depth |-> <<24, 4>>, active_revision |-> <<28, 4>>, content_hash |-> <<32, 16>> ]

SlotAt == [updated_slot |-> <<48, 8>>]

kHelloSize == 52
kMoveSize == 13
kDigSize == 11
kDigBatchHeaderSize == 2
kDigBatchItemSize == 10
kChatHeaderSize == 4
kEquipmentHeaderSize == 12
kPlayerIdentityHeaderSize == 2
kLegacyBuildingRecordSize == 48
kBuildingManifestRequestSize == 9

Refused(error) == [type |-> "error", body |-> [error |-> error]]

(* What follows a header of size bytes: length bytes, or, if there are      *)
(* more or fewer, nothing that can be read.                                 *)
HasRest(f, size, length) == Size(f) = size + length

Rest(f, size) == SubSeq(f.bytes, size, Len(f.bytes))

WalletIsEmpty(wallet) == \A i \in DOMAIN wallet : wallet[i] = 0

(* With the test of handle_hello. *)
DecodeHello(f) ==
    LET hello == Fields(f.bytes, 0, HelloAt)
    IN  IF Size(f) = kHelloSize /\ f.bytes[1] = 1 /\ ~WalletIsEmpty(hello.wallet_pubkey)
        THEN Message("HELLO", hello)
        ELSE Refused("BAD_PROTOCOL")

BadLength == Refused("BAD_PAYLOAD_LENGTH")

DecodeMove(f) ==
    IF Size(f) = kMoveSize THEN Message("MOVE", Fields(f.bytes, 0, MoveAt)) ELSE BadLength

DecodeDig(f) ==
    IF Size(f) = kDigSize THEN Message("DIG", Fields(f.bytes, 0, DigAt)) ELSE BadLength

DecodeDigBatch(f) ==
    IF Size(f) < kDigBatchHeaderSize THEN BadLength
    ELSE LET count == f.bytes[1]
         IN  IF count > 0 /\ HasRest(f, kDigBatchHeaderSize, count * kDigBatchItemSize)
             THEN Message("DIG_BATCH",
                    [items |-> [i \in 1 .. count |->
                        Fields(f.bytes, kDigBatchHeaderSize + (i - 1) * kDigBatchItemSize,
                               DigItemAt)]])
             ELSE BadLength

(* Faulty variant: what follows the message is not looked at. *)
DecodeChatLoosely(f) ==
    IF Size(f) < kChatHeaderSize THEN BadLength
    ELSE LET length == f.bytes[3]
         IN  IF length \in 1 .. kMaxChatBytes /\ Size(f) >= kChatHeaderSize + length
             THEN Message("CHAT", With(Fields(f.bytes, 0, ChatAt),
                                       "message", SubSeq(f.bytes, 4, 3 + length)))
             ELSE BadLength

DecodeChat(f) ==
    IF Size(f) < kChatHeaderSize THEN BadLength
    ELSE LET length == f.bytes[3]
         IN  IF length \in 1 .. kMaxChatBytes /\ HasRest(f, kChatHeaderSize, length)
             THEN Message("CHAT", With(Fields(f.bytes, 0, ChatAt),
                                       "message", Rest(f, kChatHeaderSize)))
             ELSE BadLength

(* With the test of handle_equipment. *)
DecodeEquipment(f) ==
    IF Size(f) < kEquipmentHeaderSize THEN BadLength
    ELSE LET length == Number(SubSeq(f.bytes, 6, 7))
         IN  IF /\ length <= kMaxEquipmentPayloadBytes
                /\ HasRest(f, kEquipmentHeaderSize, length)
                /\ f.bytes[3] <= 3
             THEN Message("EQUIPMENT",
                    With(Fields(f.bytes, 0, EquipmentAt),
                         "payload", Rest(f, kEquipmentHeaderSize)))
             ELSE BadLength

DecodePlayerIdentity(f) ==
    IF Size(f) < kPlayerIdentityHeaderSize THEN BadLength
    ELSE LET length == f.bytes[1]
         IN  IF /\ length <= kMaxPlayerIdentityNameBytes
                /\ HasRest(f, kPlayerIdentityHeaderSize, length)
             THEN Message("PLAYER_IDENTITY",
                    [display_name |-> Rest(f, kPlayerIdentityHeaderSize)])
             ELSE BadLength

DecodeRequest(f) ==
    IF Size(f) = kBuildingManifestRequestSize
    THEN Message("BUILDING_MANIFEST_REQUEST", Fields(f.bytes, 0, RequestAt))
    ELSE BadLength

DecodeBuildingRecord(bytes) ==
    With(Fields(bytes, 1, RecordAt), "updated_slot",
         IF Len(bytes) = kBuildingRecordSize THEN Fields(bytes, 1, SlotAt).updated_slot ELSE 0)

DecodeAnnounce(f) ==
    IF Len(f.bytes) \in {kBuildingRecordSize, kLegacyBuildingRecordSize}
    THEN Message("BUILDING_ANNOUNCE", DecodeBuildingRecord(f.bytes))
    ELSE BadLength

DecodePong(f) ==
    IF Size(f) = 1 THEN Message("PONG", [pong |-> TRUE]) ELSE BadLength

(* The message handler of app.cpp.  A type that valid_type does not know     *)
(* and one that only the Guardian sends meet the same end.                  *)
Received(f) ==
    CASE f.type = "empty"                     -> BadLength
      [] f.type = "HELLO"                     -> DecodeHello(f)
      [] f.type = "MOVE"                      -> DecodeMove(f)
      [] f.type = "DIG"                       -> DecodeDig(f)
      [] f.type = "DIG_BATCH"                 -> DecodeDigBatch(f)
      [] f.type = "CHAT"                      -> DecodeChat(f)
      [] f.type = "PLAYER_IDENTITY"           -> DecodePlayerIdentity(f)
      [] f.type = "EQUIPMENT"                 -> DecodeEquipment(f)
      [] f.type = "BUILDING_MANIFEST_REQUEST" -> DecodeRequest(f)
      [] f.type = "BUILDING_ANNOUNCE"         -> DecodeAnnounce(f)
      [] f.type = "PONG"                      -> DecodePong(f)
      [] OTHER                                -> Refused("BAD_PROTOCOL")
-----------------------------------------------------------------------------
(* The structs of protocol.h *)

FieldValues(field, width) ==
    CASE field \in Arrays       -> [1 .. width -> Byte]
      [] field \in SignedFields -> -(Weight(width) \div 2) .. (Weight(width) \div 2) - 1
      [] OTHER                  -> 0 .. Weight(width) - 1

(* A struct with the fields of a table and texts of any length. *)
IsStruct(struct, table, texts) ==
    /\ struct = [f \in DOMAIN table \cup texts |-> struct[f]]
    /\ \A f \in DOMAIN table : struct[f] \in FieldValues(f, table[f][2])
    /\ \A f \in texts : struct[f] \in Seq(Byte)

(* A message that a client can hold. *)
IsMessage(m) ==
    /\ m = Message(m.type, m.body)
    /\ CASE m.type = "HELLO"     -> IsStruct(m.body, HelloAt, {})
         [] m.type = "MOVE"      -> IsStruct(m.body, MoveAt, {})
         [] m.type = "DIG"       -> IsStruct(m.body, DigAt, {})
         [] m.type = "DIG_BATCH" ->
               /\ m.body = [items |-> m.body.items]
               /\ m.body.items \in Seq(Range(m.body.items))
               /\ \A dig \in Range(m.body.items) : IsStruct(dig, DigItemAt, {})
         [] m.type = "CHAT"            -> IsStruct(m.body, ChatAt, {"message"})
         [] m.type = "EQUIPMENT"       -> IsStruct(m.body, EquipmentAt, {"payload"})
         [] m.type = "PLAYER_IDENTITY" -> IsStruct(m.body, <<>>, {"display_name"})
         [] m.type = "BUILDING_MANIFEST_REQUEST" -> IsStruct(m.body, RequestAt, {})
         [] m.type = "BUILDING_ANNOUNCE" ->
               IsStruct(m.body, With(RecordAt, "updated_slot", SlotAt.updated_slot), {})
         [] m.type = "PONG" -> m.body = [pong |-> TRUE]
         [] OTHER           -> FALSE

ASSUME MessagesAssumption == \A m \in Messages : IsMessage(m)

-----------------------------------------------------------------------------
(* What the Guardian says *)

HelloAckLayout ==
    << <<"protocol_version", 1>>, <<"local_player_id", 2>>, <<"server_flags", 2>>,
       <<"center_chunk_x", 4>>, <<"center_chunk_z", 4>>, <<"service_radius_chunks", 2>>,
       <<"aoi_radius_chunks", 1>>, <<"chunk_index_mode", 1>>, <<"server_tick", 2>> >>

PoseLayout ==
    << <<"local_chunk_x", 1>>, <<"local_chunk_z", 1>>, <<"pos_x", 2>>, <<"pos_y", 2>>,
       <<"pos_z", 2>>, <<"yaw", 1>>, <<"pitch", 1>> >>

MoveItemLayout == << <<"local_player_id", 2>> >> \o PoseLayout

OwnerLayout ==
    << <<"owner_hash", 4>>, <<"owner_fingerprint", 8>>, <<"owner_wallet", 0>> >>

PlayerJoinLayout == << <<"local_player_id", 2>> >> \o OwnerLayout \o PoseLayout

PlayerLeaveLayout == << <<"local_player_id", 2>>, <<"reason", 1>> >> \o OwnerLayout

DigEventItemLayout ==
    << <<"seq", 2>>, <<"local_chunk_x", 1>>, <<"local_chunk_z", 1>>, <<"block_x", 1>>,
       <<"block_y", 2>>, <<"block_z", 1>>, <<"action", 1>> >>

DigEventLayout ==
    << <<"local_player_id", 2>> >> \o DigEventItemLayout \o << <<"server_tick", 2>> >>

ChatEventLayout == << <<"local_player_id", 2>> >> \o ChatLayout

EquipmentEventLayout == << <<"local_player_id", 2>> >> \o EquipmentLayout

IdentityEventLayout ==
    << <<"local_player_id", 2>>, <<"owner_wallet", 0>> >> \o IdentityLayout

(* Both with a 3, the version, before them. *)
DigestLayout ==
    << <<"region_x", 4>>, <<"region_z", 4>>, <<"revision", 8>>, <<"record_count", 4>>,
       <<"hash", 0>> >>

PageLayout ==
    << <<"record_count", 4>>, <<"region_x", 4>>, <<"region_z", 4>>, <<"revision", 8>>,
       <<"hash", 0>> >>

(* encode_chat_event, encode_equipment_event and encode_player_identity cut  *)
(* what is longer than a client may send.                                   *)
Cut(struct, f, limit) ==
    IF Len(struct[f]) > limit THEN [struct EXCEPT ![f] = SubSeq(@, 1, limit)] ELSE struct

(* Index and number of the page in two bytes, the number of its records, and *)
(* the digest of all of them.                                               *)
PageBytes(digest, pages, k) ==
    <<3>> \o Bytes(k - 1, 2) \o Bytes(Len(pages), 2) \o Bytes(Len(pages[k]), 2)
        \o Put(digest, PageLayout) \o PutAll(pages[k], RecordLayout)

One(type, bytes) == << Frame(type, bytes) >>

(* flush_pending_moves for one chunk, with encode_move_batch. *)
MoveFrames(e) ==
    LET runs == Runs(e.items, Base - 1)
    IN  [k \in 1 .. Len(runs) |->
            Frame("MOVE_BATCH", Bytes(e.server_tick, 2) \o Counted(runs[k], MoveItemLayout))]

(* handle_dig_batch for one chunk, with encode_dig_event_batch. *)
DigFrames(e) ==
    LET runs == Runs(e.items, Base - 1)
    IN  [k \in 1 .. Len(runs) |->
            Frame("DIG_EVENT_BATCH",
                  Bytes(e.local_player_id, 2) \o Bytes(e.server_tick, 2)
                      \o Counted(runs[k], DigEventItemLayout))]

PageFrames(e) ==
    LET pages == Pages(e.records)
    IN  [k \in 1 .. Len(pages) |->
            Frame("BUILDING_MANIFEST_PAGE", PageBytes(e, pages, k))]

EventFrames(e) ==
    CASE e.type = "HELLO_ACK"       -> One(e.type, Put(e.body, HelloAckLayout))
      [] e.type = "ERROR"           -> One(e.type, Bytes(e.body.code, 2))
      [] e.type = "PING"            -> One(e.type, <<>>)
      [] e.type = "MOVE_BATCH"      -> MoveFrames(e.body)
      [] e.type = "DIG_EVENT"       -> One(e.type, Put(e.body, DigEventLayout))
      [] e.type = "DIG_EVENT_BATCH" -> DigFrames(e.body)
      [] e.type = "PLAYER_JOIN"     -> One(e.type, Put(e.body, PlayerJoinLayout))
      [] e.type = "PLAYER_LEAVE"    -> One(e.type, Put(e.body, PlayerLeaveLayout))
      [] e.type = "CHAT_EVENT" ->
            One(e.type, Put(Cut(e.body, "message", kMaxChatBytes), ChatEventLayout))
      [] e.type = "EQUIPMENT_EVENT" ->
            One(e.type, Put(Cut(e.body, "payload", kMaxEquipmentPayloadBytes),
                            EquipmentEventLayout))
      [] e.type = "PLAYER_IDENTITY_EVENT" ->
            One(e.type, Put(Cut(e.body, "display_name", kMaxPlayerIdentityNameBytes),
                            IdentityEventLayout))
      [] e.type = "BUILDING_REGION_DIGEST" ->
            One(e.type, <<3>> \o Put(e.body, DigestLayout))
      [] e.type = "BUILDING_MANIFEST_PAGE" -> PageFrames(e.body)

(* The structs of protocol.h that are sent.  A layout names their fields;    *)
(* texts have any length, the other arrays that of their type.               *)
Texts == {"message", "payload", "display_name"}

ArraySize ==
    [wallet_pubkey |-> 32, owner_wallet |-> 32, content_hash |-> 16, hash |-> 16]

Fills(struct, layout, lists) ==
    /\ struct = [f \in {layout[i][1] : i \in 1 .. Len(layout)} \cup lists |-> struct[f]]
    /\ \A i \in 1 .. Len(layout) :
          LET f == layout[i][1]
          IN  CASE f \in Texts           -> struct[f] \in Seq(Byte)
                [] f \in Arrays \ Texts -> struct[f] \in FieldValues(f, ArraySize[f])
                [] OTHER                -> struct[f] \in FieldValues(f, layout[i][2])

(* A list of structs. *)
IsList(structs, layout) ==
    /\ structs \in Seq(Range(structs))
    /\ \A struct \in Range(structs) : Fills(struct, layout, {})

MoveBatchLayout == << <<"server_tick", 2>> >>

DigBatchLayout == << <<"local_player_id", 2>>, <<"server_tick", 2>> >>

(* What the Guardian can have to say.  A batch of moves or digs that is      *)
(* empty has no frame; texts are those that the decoders let pass.           *)
IsEvent(e) ==
    /\ e = Message(e.type, e.body)
    /\ CASE e.type = "HELLO_ACK"    -> Fills(e.body, HelloAckLayout, {})
         [] e.type = "ERROR"        -> Fills(e.body, << <<"code", 2>> >>, {})
         [] e.type = "PING"         -> e.body = [ping |-> TRUE]
         [] e.type = "MOVE_BATCH"   -> /\ Fills(e.body, MoveBatchLayout, {"items"})
                                       /\ IsList(e.body.items, MoveItemLayout)
                                       /\ e.body.items # <<>>
         [] e.type = "DIG_EVENT"    -> Fills(e.body, DigEventLayout, {})
         [] e.type = "DIG_EVENT_BATCH" -> /\ Fills(e.body, DigBatchLayout, {"items"})
                                          /\ IsList(e.body.items, DigEventItemLayout)
                                          /\ e.body.items # <<>>
         [] e.type = "PLAYER_JOIN"  -> Fills(e.body, PlayerJoinLayout, {})
         [] e.type = "PLAYER_LEAVE" -> Fills(e.body, PlayerLeaveLayout, {})
         [] e.type = "CHAT_EVENT"   -> /\ Fills(e.body, ChatEventLayout, {})
                                       /\ Len(e.body.message) <= kMaxChatBytes
         [] e.type = "EQUIPMENT_EVENT" ->
               /\ Fills(e.body, EquipmentEventLayout, {})
               /\ Len(e.body.payload) <= kMaxEquipmentPayloadBytes
         [] e.type = "PLAYER_IDENTITY_EVENT" ->
               /\ Fills(e.body, IdentityEventLayout, {})
               /\ Len(e.body.display_name) <= kMaxPlayerIdentityNameBytes
         [] e.type = "BUILDING_REGION_DIGEST" -> Fills(e.body, DigestLayout, {})
         [] e.type = "BUILDING_MANIFEST_PAGE" -> /\ Fills(e.body, PageLayout, {"records"})
                                                 /\ IsList(e.body.records, RecordLayout)
         [] OTHER -> FALSE

ASSUME EventsAssumption == \A e \in Events : IsEvent(e)

(* Its player is in a session. *)
ASSUME SpeakerAssumption ==
    /\ Speaker.local_player_id \in FieldValues("local_player_id", 2)
    /\ Speaker.server_tick \in FieldValues("server_tick", 2)
    /\ Speaker.owner_wallet \in FieldValues("owner_wallet", 32)

(* make_dig_event; what is relayed of a dig in a batch is the same without   *)
(* player and tick, which are those of the batch.                           *)
DigEventItem(dig) ==
    [f \in {"seq", "local_chunk_x", "local_chunk_z", "block_x", "block_y", "block_z",
            "action"} |-> dig[f]]

(* Relays of DIG, DIG_BATCH, CHAT, EQUIPMENT and PLAYER_IDENTITY. *)
BySpeaker(struct) == With(struct, "local_player_id", Speaker.local_player_id)

Relayed(m) ==
    CASE m.type = "DIG" ->
            Message("DIG_EVENT",
                    With(BySpeaker(DigEventItem(m.body)), "server_tick", Speaker.server_tick))
      [] m.type = "DIG_BATCH" ->
            Message("DIG_EVENT_BATCH",
                    [ local_player_id |-> Speaker.local_player_id,
                      server_tick     |-> Speaker.server_tick,
                      items |-> [i \in 1 .. Len(m.body.items) |->
                                    DigEventItem(m.body.items[i])] ])
      [] m.type = "CHAT"      -> Message("CHAT_EVENT", BySpeaker(m.body))
      [] m.type = "EQUIPMENT" -> Message("EQUIPMENT_EVENT", BySpeaker(m.body))
      [] m.type = "PLAYER_IDENTITY" ->
            Message("PLAYER_IDENTITY_EVENT",
                    With(BySpeaker(m.body), "owner_wallet", Speaker.owner_wallet))

HasRelay == {"DIG", "DIG_BATCH", "CHAT", "EQUIPMENT", "PLAYER_IDENTITY"}

-----------------------------------------------------------------------------

FramesInit ==
    /\ meant = NoMessage
    /\ wire = NoFrame
    /\ got = NoMessage
    /\ event = NoMessage
    /\ sent = <<>>

(* A client sends a message with the layout of this version. *)
ClientSends ==
    /\ wire = NoFrame
    /\ event = NoMessage
    /\ meant' \in Messages
    /\ wire' = ClientFrame(meant')
    /\ UNCHANGED <<got, event, sent>>

(* ... or something else: as much as a shorter layout has, more than this    *)
(* one has, another byte, another type, or nothing at all.                  *)
Neighbours(f) ==
    {Frame(f.type, SubSeq(f.bytes, 1, n)) : n \in 0 .. Len(f.bytes) - 1}
        \cup {Frame(f.type, Append(f.bytes, b)) : b \in {0, Base - 1}}
        \cup {Frame(f.type, [f.bytes EXCEPT ![i] = (@ + 1) % Base]) : i \in DOMAIN f.bytes}
        \cup {Frame(t, f.bytes) : t \in {"HELLO", "MOVE", "DIG", "CHAT", "PING", "unknown"}}
        \cup {Frame("empty", <<>>)}

ClientSendsOther ==
    /\ meant # NoMessage
    /\ got = NoMessage
    /\ wire' \in Neighbours(wire)
    /\ meant' = NoMessage
    /\ UNCHANGED <<got, event, sent>>

(* .message *)
Receive ==
    /\ wire # NoFrame
    /\ got = NoMessage
    /\ got' = Received(wire)
    /\ UNCHANGED <<meant, wire, event, sent>>

Relay ==
    /\ got.type \in HasRelay
    /\ event = NoMessage
    /\ event' = Relayed(got)
    /\ sent' = EventFrames(event')
    /\ UNCHANGED <<meant, wire, got>>

(* Everything else that the Guardian says, of its own accord or in answer.   *)
Say ==
    /\ wire = NoFrame
    /\ event = NoMessage
    /\ event' \in Events
    /\ sent' = EventFrames(event')
    /\ UNCHANGED <<meant, wire, got>>

(* The next message. *)
Proceed ==
    /\ got # NoMessage \/ event # NoMessage
    /\ meant' = NoMessage
    /\ wire' = NoFrame
    /\ got' = NoMessage
    /\ event' = NoMessage
    /\ sent' = <<>>

FramesNext ==
    \/ ClientSends
    \/ ClientSendsOther
    \/ Receive
    \/ Relay
    \/ Say
    \/ Proceed

FramesSpec == FramesInit /\ [][FramesNext]_frameVars

-----------------------------------------------------------------------------
(* Properties *)

Accepted == got # NoMessage /\ got.type # "error"

IsLegacyAnnounce == got.type = "BUILDING_ANNOUNCE" /\ Len(wire.bytes) = kLegacyBuildingRecordSize

(* The decoders of protocol.cpp read every byte of a frame they take, where  *)
(* the encoders write it: a frame that is accepted, whatever sent it, is the  *)
(* one that stands for the message, up to the slot that announcements of the  *)
(* legacy size lack.  No two frames are the same message.                    *)
AcceptedFramesAreExact ==
    Accepted =>
        LET whole == ClientFrame(got)
        IN  IF IsLegacyAnnounce
            THEN /\ got.body.updated_slot = 0
                 /\ wire.bytes = SubSeq(whole.bytes, 1, kLegacyBuildingRecordSize)
            ELSE wire = whole

(* What the Guardian should take. *)
WithinLimits(m) ==
    CASE m.type = "HELLO"     -> /\ m.body.protocol_version = 1
                                 /\ ~WalletIsEmpty(m.body.wallet_pubkey)
      [] m.type = "CHAT"      -> Len(m.body.message) \in 1 .. kMaxChatBytes
      [] m.type = "EQUIPMENT" -> /\ Len(m.body.payload) <= kMaxEquipmentPayloadBytes
                                 /\ m.body.right_hand_kind <= 3
      [] m.type = "PLAYER_IDENTITY" ->
            Len(m.body.display_name) <= kMaxPlayerIdentityNameBytes
      [] m.type = "DIG_BATCH" -> Len(m.body.items) \in 1 .. Base - 1
      [] OTHER                -> TRUE

(* A message in the layout of this version arrives as it was meant, with     *)
(* every sign, width and boundary value, if it keeps the limits; a chat, a    *)
(* payload or a name that is too long, an empty chat or batch, and a HELLO     *)
(* without a wallet, are turned down and never cut.  Only a batch that its    *)
(* encoder has cut arrives short.                                           *)
MessagesArriveIntact ==
    got # NoMessage /\ meant # NoMessage =>
        \/ WithinLimits(meant) /\ got = meant
        \/ ~WithinLimits(meant) /\ got.type = "error"
        \/ /\ meant.type = "DIG_BATCH"
           /\ Len(meant.body.items) > Base - 1
           /\ got.body.items = SubSeq(meant.body.items, 1, Base - 1)

(* What the Guardian may have to say in place of event. *)
Alternatives ==
    {e \in Events \cup {Relayed(m) : m \in {n \in Messages :
                           n.type \in HasRelay /\ WithinLimits(n)}} : e.type = event.type}

(* The encoders of events lose nothing: what the Guardian says differently   *)
(* goes out in different frames, so that clients can tell what it was; every  *)
(* dig and move of a batch and every record of a manifest, beyond the 255     *)
(* items of a batch and the 128 records of a page, is in them.               *)
EventsTellApart ==
    event # NoMessage =>
        \A e \in Alternatives : EventFrames(e) = sent => e = event

=============================================================================
