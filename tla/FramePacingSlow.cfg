SPECIFICATION FairSpec
CONSTANTS
    SCALE = 2
    FrameTicks = 5
    Behind = 32
    MAX_SKIPPED_FRAMES = 3
    TickRange = 64
    RefreshRate = 0
    MaxFrames = 2
    MaxDrift = 24
    MaxLead = 20
    MaxUncounted = 3
    Hosts <- SlowHosts
    Users <- Nobody
    CallTime <- ShortCalls
    IdleTime <- Idle
    Overshoot <- Punctual
PROPERTIES
    RunFramesReturn
