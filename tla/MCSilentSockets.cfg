SPECIFICATION Spec
CONSTANTS
    Socket     = {s1, s2}
    Player     = {p1, p2}
    Wallet     = {w1, w2}
    c1 = c1
    c2 = c2
    c3 = c3
    Chunk      = {c1}
    NoRoom     = NoRoom
    NoPlayer   = NoPlayer
    Blank      = Blank
    OutOfRange = OutOfRange
    Near       <- TwoChunks
    MaxId      = 2
    MaxPlayers = 2
    MaxPending = 2
    MaxSilent  = 2
PROPERTY
    SilentSocketsEnd
CHECK_DEADLOCK TRUE
