SPECIFICATION Spec
CONSTANTS
    b1 = b1
    b2 = b2
    Building      = {b1, b2}
    Plot          <- Plots
    HalfWord      = 8
    Center        <- CenterChunk
    RegionChunks  = 2
    chunk_size_blocks = 2
    NoRecord      = NoRecord
    LastRevision  = 3
    Client        = {k1}
    Announced     <- Announcements
    OldFiles      <- LegacyFiles
    Capacities    = {1, 2}
    WriteOutcomes = {"written", "refused", "cut", "unrenamed"}
    NoManifest    = NoManifest
    NoFile        = NoFile
    TornFile      = TornFile
    MaxRevision   = 4
INVARIANTS
    RegistryIsSound
    RevisionZeroIsEmpty
    ValidatedCopyIsCurrent
PROPERTY
    BuildingsOnlyGetNewer
CHECK_DEADLOCK TRUE
