SPECIFICATION Spec
CONSTANTS
    Socket     = {s1, s2, s3}
    Player     = {p1, p2, p3}
    Wallet     = {w1, w2, w3}
    c1 = c1
    c2 = c2
    c3 = c3
    Chunk      = {c1, c2}
    NoRoom     = NoRoom
    NoPlayer   = NoPlayer
    Blank      = Blank
    OutOfRange = OutOfRange
    Near       <- TwoChunks
    MaxId      = 3
    MaxPlayers = 2
    MaxPending = 2
    MaxSilent  = 0
VIEW View
SYMMETRY Symmetry
INVARIANTS
    OneSessionPerWallet
    SessionOwnership
    RoomsHoldActivePlayers
    SubscriptionFollowsRoom
    WaitingMoveIsQueued
    WithinMaxPlayers
PROPERTIES
    ImplementsDirectory
    RetiredCloseIsHarmless
CHECK_DEADLOCK TRUE
