SPECIFICATION PresenceSpec
CONSTANTS
    Socket     = {s1, s2, s3}
    Player     = {p1, p2, p3}
    Wallet     = {w1, w2}
    c1 = c1
    c2 = c2
    c3 = c3
    Chunk      = {c1, c2, c3}
    NoRoom     = NoRoom
    NoPlayer   = NoPlayer
    Blank      = Blank
    OutOfRange = OutOfRange
    Near       <- RowOfChunks
    MaxId      = 2
    MaxPlayers = 2
    MaxPending = 2
    MaxSilent  = 0
VIEW View
SYMMETRY Symmetry
INVARIANT
    SettledSceneIsExact
PROPERTY
    MovedPlayersAreKnown
CHECK_DEADLOCK TRUE
