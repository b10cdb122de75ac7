SPECIFICATION ChunksSpec
CONSTANTS
    HalfByte = 4
    HalfWord = 16
    Center   <- Centers
    Player = {p1, p2, p3, p4}
    Chunk  = {c1, c2, c3}
    NoRoom = NoRoom
INVARIANT
    BroadcastHasDiameter
CHECK_DEADLOCK TRUE
