SPECIFICATION LoopSpec
CONSTANTS
    Second          = 4
    MovementHz      = 2
    HeartbeatSec    = 1
    IdleTimeoutSec  = 2
    ScreenInterval  = 2
    KeyboardEnabled = TRUE
    QueueLimit      = 2
    Key             = {"j", "k", "5"}
    TickLag         = 1
    LoopLag         = 2
    ReplyLag        = 1
    MaxTime         = 17
    MaxKeyTime      = 7
    MaxKeys         = 4
    MaxRooms        = 1
INVARIANTS
    TypeOK
    AnsweringClientIsKept
    SilentClientIsReaped
    MovesLeaveInTime
    CommandsKeepOrder
PROPERTY
    StartServesOrExits
CHECK_DEADLOCK FALSE
