SPECIFICATION Spec
CONSTANTS
    b1 = b1
    b2 = b2
    Building      = {b1, b2}
    Plot          <- Plots
    HalfWord      = 8
    Center        <- CenterChunk
    RegionChunks  = 2
    chunk_size_blocks = 2
    NoRecord      = NoRecord
    LastRevision  = 9
    Client        = {k1, k2}
    Announced     <- Announcements
    OldFiles      <- SoundLegacyFile
    Capacities    = {2}
    WriteOutcomes = {"written"}
    NoManifest    = NoManifest
    NoFile        = NoFile
    TornFile      = TornFile
    MaxRevision   = 5
SYMMETRY Symmetry
INVARIANT
    KnownRevisionIsExact
PROPERTY
    ImplementsDurableManifest
CHECK_DEADLOCK TRUE
