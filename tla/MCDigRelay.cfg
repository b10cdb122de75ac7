SPECIFICATION Spec
CONSTANTS
    Window   = 3
    Limit    = 2
    SeqMod   = 3
    MaxBatch = 2
    MaxEdits = 7
    MaxTime  = 8
    NoSeq    = NoSeq
    NoFrame  = NoFrame
INVARIANTS
    AtMostTwiceTheLimit
    WaitingHelps
    HonestClientIsInSequence
    RelayedWholeInOrder
CHECK_DEADLOCK FALSE
