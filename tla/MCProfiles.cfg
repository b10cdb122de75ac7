SPECIFICATION Spec
CONSTANTS
    Player    = {p1, p2}
    c1 = c1
    c2 = c2
    c3 = c3
    Chunk     = {c1, c2, c3}
    Near      <- RowOfChunks
    Equipment = {e1, e2}
    Name      = {n1, n2}
    NoChunk   = NoChunk
    None      = None
SYMMETRY Symmetry
INVARIANTS
    EquipmentIsCurrent
    KnownNameIsCurrent
CHECK_DEADLOCK TRUE
