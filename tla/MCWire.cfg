SPECIFICATION WireSpec
CONSTANTS
    Base = 6
    kMaxChatBytes = 3
    kMaxEquipmentPayloadBytes = 8
    kMaxPlayerIdentityNameBytes = 3
    kBuildingManifestPageRecords = 2
    Speaker  <- SampleSpeaker
    Messages <- SampleMessages
    Events   <- SampleEvents
    Foundations = 3
    Limits = {100, 160}
    MaxRevision = 3
    MaxBreaks = 1
INVARIANTS
    AcceptedFramesAreExact
    MessagesArriveIntact
    EventsTellApart
    AssembledManifestIsExact
PROPERTY
    ClientCatchesUp
CHECK_DEADLOCK FALSE
