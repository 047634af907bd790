SPECIFICATION FairSpec
CONSTANTS
    L = L
    O = O
    R = R
    RETURN = RETURN
    QUEUE_SIZE = 5
    BufferSize = 2
    Strings <- Lines
    Autostarts <- WithAndWithout
    InitFrames = 2
    MaxClk = 7
    GuardClk = 1
    MaxFeeds = 3
    MaxResets = 2
INVARIANTS
    HeldReturnAtHead
PROPERTIES
    ImplementsStream
    QueueDrains
